\* A vote in the second in which the poll expires.
SPECIFICATION Spec
CONSTANTS
  u1 = u1
  u2 = u2
  o1 = o1
  o2 = o2
  o3 = o3
  k1 = k1
  k2 = k2
  p1 = p1
  self1 = self1
  self2 = self2
  Users = {u1, u2}
  Polls = {p1}
  Options = {o1, o2, o3}
  Keys = {}
  NoUser = NoUser
  NoOption = NoOption
  NoKey = NoKey
  TicksPerSecond = 2
  IdemSeconds = 1
  MaxTime = 7
  Procs = {self1, self2}
  Ops = {"get", "vote"}
  OptionLists <- AllOptions
  ExpiryTicks <- NearExpiries
  MinLeadTicks = 2
  Visibility = {TRUE}
  KeysUnique = TRUE
  Faulty = FALSE
SYMMETRY Symmetry
PROPERTIES
  ExpiredPollRejectsVotes
