\* Votes, closes and deletes with and without a key, any command failing or sent
\* twice, any request repeated with its key.
SPECIFICATION Spec
CONSTANTS
  u1 = u1
  u2 = u2
  o1 = o1
  o2 = o2
  o3 = o3
  k1 = k1
  k2 = k2
  p1 = p1
  self1 = self1
  self2 = self2
  Users = {u1, u2}
  Polls = {p1}
  Options = {o1}
  Keys = {k1}
  NoUser = NoUser
  NoOption = NoOption
  NoKey = NoKey
  TicksPerSecond = 2
  IdemSeconds = 1
  MaxTime = 1
  Procs = {self1, self2}
  Ops = {"vote", "close", "delete"}
  OptionLists <- AllOptions
  ExpiryTicks <- FarExpiry
  MinLeadTicks = 2
  Visibility = {TRUE}
  KeysUnique = TRUE
  Faulty = TRUE
SYMMETRY Symmetry
INVARIANTS
  CloseAnswerClosed
  DeleteAnswerTruthful
  VoteAnswerCounted
  AnswerInv
PROPERTIES
  RetryNotRefused
