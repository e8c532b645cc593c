\* One user's lists, page by page, while public polls and votes come and go.
SPECIFICATION Spec
CONSTANTS
  u1 = u1
  o1 = o1
  p1 = p1
  p2 = p2
  Users = {u1}
  Polls = {p1, p2}
  Options = {o1}
  Keys = {}
  NoUser = NoUser
  NoOption = NoOption
  NoKey = NoKey
  TicksPerSecond = 1
  IdemSeconds = 1
  MaxTime = 3
  Me = u1
  Kinds = {"mine", "all", "public", "votes"}
  Limits = {1, 2}
  Fractions = 2
  OptionLists <- OneOption
  ExpiryTicks <- NearExpiry
  Visibility = {TRUE}
  ScoresDiffer = TRUE
SYMMETRY Symmetry
INVARIANTS
  ListingInv
  WalkComplete
  NoPollTwice
  ListComplete
  MineWereLive
