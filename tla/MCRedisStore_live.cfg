\* Fair scheduling without failures; no symmetry, the property is temporal.
SPECIFICATION FairSpec
CONSTANTS
  u1 = u1
  u2 = u2
  o1 = o1
  o2 = o2
  o3 = o3
  k1 = k1
  k2 = k2
  p1 = p1
  self1 = self1
  self2 = self2
  Users = {u1, u2}
  Polls = {p1}
  Options = {o1, o2, o3}
  Keys = {}
  NoUser = NoUser
  NoOption = NoOption
  NoKey = NoKey
  TicksPerSecond = 2
  IdemSeconds = 1
  MaxTime = 1
  Procs = {self1, self2}
  Ops = {"vote", "close", "delete"}
  OptionLists <- AllOptions
  ExpiryTicks <- FarExpiry
  MinLeadTicks = 2
  Visibility = {TRUE}
  KeysUnique = TRUE
  Faulty = FALSE
PROPERTIES
  DeletedEventuallyUnlisted
