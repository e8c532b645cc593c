\* Two refreshes overlap on a connected page, everything fair.
SPECIFICATION FairSpec
CONSTANTS
  c1 = c1
  c2 = c2
  h1 = h1
  h2 = h2
  t1 = t1
  t2 = t2
  Conns = {c1}
  Handlers = {h1}
  Refreshes = {t1, t2}
  NoConn = NoConn
  Stopped = Stopped
  Messages <- SectionSets
  InitialMsg <- EverySection
  BufferSize = 2
  WireSize = 1
  MaxEvents = 1
  Faulty = FALSE
PROPERTIES
  PageCatchesUp
