\* Loads fail, changes go unannounced, connections break while messages are sent;
\* no symmetry, since one property is temporal.
SPECIFICATION FairSpec
CONSTANTS
  c1 = c1
  c2 = c2
  h1 = h1
  h2 = h2
  l1 = l1
  l2 = l2
  Conns = {c1, c2}
  Handlers = {h1, h2}
  Loads = {l1, l2}
  NoConn = NoConn
  Stopped = Stopped
  Messages = {"poll"}
  InitialMsg = "poll"
  BufferSize = 1
  WireSize = 1
  MaxChanges = 2
  MaxLosses = 1
  Faulty = TRUE
INVARIANTS
  PageInv
  NoSendOnClosed
  StalePageHasNews
PROPERTIES
  PageNeverGoesBack
  PageCatchesUp
