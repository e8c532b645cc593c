\* A repeated vote while both servers restart, others send requests and the
\* poll changes; two users' buckets come and go.
SPECIFICATION Spec
CONSTANTS
  u1 = u1
  u2 = u2
  Users = {u1, u2}
  NoUser = NoUser
  GlobalRate = 2
  GlobalBurst = 2
  UserRate = 1
  UserBurst = 2
  TTL = 1
  MaxClock = 3
  MaxStarts = 2
  Me = u1
  Shapes = {"header", "query", "anonymous", "empty", "blank", "unknown"}
  MaxAttempts = 2
  MaxStops = 1
INVARIANTS
  PathTypeOK
PROPERTIES
  AnswerTellsEffect
  CleanupInvisible
  IdleBucketsRemoved
