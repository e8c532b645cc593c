\* Every operation, two requests at a time on one poll, any command failing or
\* sent twice.  No idempotency keys; the clock stands still.
SPECIFICATION Spec
CONSTANTS
  u1 = u1
  u2 = u2
  o1 = o1
  o2 = o2
  o3 = o3
  k1 = k1
  k2 = k2
  p1 = p1
  self1 = self1
  self2 = self2
  Users = {u1, u2}
  Polls = {p1}
  Options = {o1, o2, o3}
  Keys = {}
  NoUser = NoUser
  NoOption = NoOption
  NoKey = NoKey
  TicksPerSecond = 2
  IdemSeconds = 1
  MaxTime = 1
  Procs = {self1, self2}
  Ops = {"get", "vote", "undo", "close", "delete"}
  OptionLists <- AllOptions
  ExpiryTicks <- FarExpiry
  MinLeadTicks = 2
  Visibility = {TRUE}
  KeysUnique = TRUE
  Faulty = TRUE
SYMMETRY Symmetry
INVARIANTS
  TypeOK
  TallyMatchesBallots
  DeletedPollInert
  LivePollListed
  ReadNotTorn
  IndInv
PROPERTIES
  ClosedIsFinal
  OwnerEndsPoll
  ImplementsVoting
