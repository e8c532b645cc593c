\* One request at a time on both stores; the clock counts whole seconds.
SPECIFICATION ParitySpec
CONSTANTS
  u1 = u1
  u2 = u2
  o1 = o1
  o2 = o2
  p1 = p1
  p2 = p2
  self1 = self1
  Users = {u1, u2}
  Polls = {p1, p2}
  Options = {o1, o2}
  Keys = {}
  NoUser = NoUser
  NoOption = NoOption
  NoKey = NoKey
  TicksPerSecond = 1
  IdemSeconds = 1
  MaxTime = 4
  Procs = {self1}
  Ops = {"get", "vote", "undo", "close", "delete"}
  OptionLists <- OneOption
  ExpiryTicks <- NearExpiry
  MinLeadTicks = 2
  Visibility = {TRUE, FALSE}
  KeysUnique = TRUE
  Faulty = FALSE
  Limits = {1, 2}
  Fractions = 2
  Fraction <- TwoFractions
SYMMETRY Symmetry
INVARIANTS
  ParityInv
  
  SameState
  SameLists
PROPERTIES
  MemImplementsVoting
  MemBallotsOnlyWhileOpen
