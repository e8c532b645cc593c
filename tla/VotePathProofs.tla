---------------------------- MODULE VotePathProofs ----------------------------
(***************************************************************************)
(* The rate limiter, for any rates, bursts and TTL that LimitAssumption    *)
(* allows and any number of users; and what the answers of a repeated vote *)
(* that passes it mean, for any number of attempts, stops and requests of  *)
(* others.                                                                 *)
(*                                                                         *)
(* That removing a bucket cannot be noticed rests on BucketsRefill: a      *)
(* bucket that has not been used for d units of time holds at least        *)
(* UserRate * d tokens, or is full.  That buckets do not pile up rests on  *)
(* FreshWhenCleaned: at the last cleanup none was idle for the TTL.        *)
(*                                                                         *)
(* PathInv ties what is on its way to the client to the mark of its key:   *)
(* the mark is set exactly when the vote is counted and never removed, so  *)
(* a success once true stays true; a closed poll never opens again, so a   *)
(* 403 stays true; and a request refused before the store never has a      *)
(* command there, early or late.                                           *)
(***************************************************************************)
EXTENDS VotePath, TLAPS

LimitInv == LimitTypeOK /\ BucketsRefill

\* No bucket had been idle for more than the TTL when idle ones were last removed.
FreshWhenCleaned == \A v \in DOMAIN byUser : cleaned - byUser[v].lastSeen <= TTL

-----------------------------------------------------------------------------
(* Arithmetic *)

\* A unit of time more gives UserRate tokens more.
LEMMA Gain == ASSUME NEW r \in Nat, NEW d \in Nat
              PROVE r * d \in Nat /\ r * (d + 1) = r * d + r
BY SMT

\* The longer a bucket is idle the more it has gained.
LEMMA GainGrows == ASSUME NEW r \in Nat, NEW d \in Nat, NEW e \in Nat, d <= e
                   PROVE r * d <= r * e
<1>1. e - d \in Nat /\ e = d + (e - d)
  BY SMT
<1>2. \A x \in Nat : r * (d + x) = r * d + r * x /\ r * x \in Nat
  BY SMT
<1>3. r * e = r * d + r * (e - d) /\ r * (e - d) \in Nat
  BY <1>1, <1>2
<1>4. r * d \in Nat /\ r * e \in Nat
  BY Gain
<1> QED
  BY <1>3, <1>4, SMT

\* A bucket idle for longer than the TTL is full.
LEMMA IdleIsFull ==
  ASSUME LimitInv, NEW v \in DOMAIN byUser, clock - byUser[v].lastSeen > TTL
  PROVE  byUser[v].tokens = UserBurst
<1> DEFINE d == clock - byUser[v].lastSeen
<1>1. /\ UserRate \in Nat /\ UserBurst \in Nat /\ TTL \in Nat
      /\ UserBurst <= UserRate * (TTL + 1)
  BY LimitAssumption DEF LimitAssumption
<1>2. /\ byUser[v].tokens \in 0 .. UserBurst /\ byUser[v].lastSeen \in 0 .. clock
      /\ clock \in Nat /\ byUser[v].tokens >= Capped(UserRate * d, UserBurst)
  BY DEF LimitInv, LimitTypeOK, BucketsRefill
<1>3. d \in Nat /\ TTL + 1 \in Nat /\ TTL + 1 <= d
  BY <1>1, <1>2, SMT
<1>4. UserRate * (TTL + 1) <= UserRate * d
  BY <1>1, <1>3, GainGrows
<1>5. UserRate * (TTL + 1) \in Nat /\ UserRate * d \in Nat
  BY <1>1, <1>3, Gain
<1>6. UserBurst <= UserRate * d
  BY <1>1, <1>4, <1>5, SMT
<1>7. Capped(UserRate * d, UserBurst) = UserBurst
  BY <1>1, <1>5, <1>6, SMT DEF Capped
<1> QED
  BY <1>1, <1>2, <1>7, SMT

-----------------------------------------------------------------------------
(* Types *)

\* What a request does to the buckets when it reaches them.
LEMMA BucketStep ==
  ASSUME LimitTypeOK, NEW u \in Users \cup {NoUser}, TokenBucket(u)
  PROVE  \/ UNCHANGED <<byUser, cleaned>>
         \/ /\ u \in Users
            /\ DOMAIN byUser' = (DOMAIN byUser \cup {u}) \ (IF CleanupDue THEN Idle(u) ELSE {})
            /\ u \in DOMAIN byUser'
            /\ byUser'[u] = UsedBucket(u)
            /\ \A v \in DOMAIN byUser' \ {u} : v \in DOMAIN byUser /\ byUser'[v] = byUser[v]
            /\ cleaned' = CleanedAfter
<1>1. CASE ~(GlobalAllows /\ u # NoUser)
  BY <1>1 DEF TokenBucket
<1>2. CASE GlobalAllows /\ u # NoUser
  <2> DEFINE kept == (DOMAIN byUser \cup {u}) \ (IF CleanupDue THEN Idle(u) ELSE {})
  <2>1. /\ byUser' = [v \in kept |-> IF v = u THEN UsedBucket(u) ELSE byUser[v]]
        /\ cleaned' = CleanedAfter
    BY <1>2 DEF TokenBucket
  <2>2. u \in kept
    BY DEF Idle
  <2> QED
    BY <1>2, <2>1, <2>2
<1> QED
  BY <1>1, <1>2

\* The bucket of a user who has just been seen.
LEMMA UsedBucketType ==
  ASSUME LimitTypeOK, NEW u \in Users
  PROVE  /\ Tokens(u) \in 0 .. UserBurst
         /\ UsedBucket(u) \in [tokens: 0 .. UserBurst, lastSeen: 0 .. clock]
         /\ UsedBucket(u).lastSeen = clock
         /\ UsedBucket(u).tokens = IF Tokens(u) >= 1 THEN Tokens(u) - 1 ELSE Tokens(u)
<1>1. UserBurst \in Nat /\ clock \in Nat
  BY LimitAssumption DEF LimitAssumption, LimitTypeOK
<1>2. Tokens(u) \in 0 .. UserBurst
  <2>1. CASE u \in DOMAIN byUser
    BY <2>1 DEF LimitTypeOK, Tokens
  <2>2. CASE u \notin DOMAIN byUser
    BY <1>1, <2>2, SMT DEF Tokens
  <2> QED
    BY <2>1, <2>2
<1> QED
  BY <1>1, <1>2, SMT DEF UsedBucket

\* The types hold at first.
LEMMA TypeInit == LimitInit => LimitTypeOK
BY LimitAssumption DEF LimitAssumption, LimitInit, LimitTypeOK, NoBuckets

\* The types hold after a request.
LEMMA TypeRequest ==
  ASSUME LimitTypeOK, NEW u \in Users \cup {NoUser}, TokenBucket(u)
  PROVE  LimitTypeOK'
<1>1. clock' = clock /\ starts' = starts /\ clock \in Nat /\ starts \in Nat
  BY DEF TokenBucket, LimitTypeOK
<1>2. global' \in 0 .. GlobalBurst
  BY LimitAssumption, SMT DEF LimitAssumption, TokenBucket, GlobalAllows, LimitTypeOK
<1>3. CASE UNCHANGED <<byUser, cleaned>>
  BY <1>1, <1>2, <1>3 DEF LimitTypeOK
<1>4. CASE /\ u \in Users
           /\ DOMAIN byUser' = (DOMAIN byUser \cup {u}) \ (IF CleanupDue THEN Idle(u) ELSE {})
           /\ byUser'[u] = UsedBucket(u)
           /\ \A v \in DOMAIN byUser' \ {u} : v \in DOMAIN byUser /\ byUser'[v] = byUser[v]
           /\ cleaned' = CleanedAfter
  <2>1. DOMAIN byUser' \subseteq Users
    BY <1>4 DEF LimitTypeOK
  <2>2. \A v \in DOMAIN byUser' : byUser'[v] \in [tokens: 0 .. UserBurst, lastSeen: 0 .. clock]
    BY <1>4, UsedBucketType DEF LimitTypeOK
  <2>3. cleaned' \in 0 .. clock
    BY <1>1, <1>4, SMT DEF CleanedAfter, LimitTypeOK
  <2> QED
    BY <1>1, <1>2, <2>1, <2>2, <2>3 DEF LimitTypeOK
<1> QED
  BY <1>3, <1>4, BucketStep

\* What the clock does to a bucket.
LEMMA TickBucket ==
  ASSUME LimitTypeOK, Tick
  PROVE  /\ DOMAIN byUser' = DOMAIN byUser
         /\ \A v \in DOMAIN byUser :
              /\ byUser'[v].tokens = Capped(byUser[v].tokens + UserRate, UserBurst)
              /\ byUser'[v].lastSeen = byUser[v].lastSeen
              /\ byUser'[v] \in [tokens: 0 .. UserBurst, lastSeen: 0 .. clock']
         /\ clock \in Nat /\ clock' = clock + 1
<1>1. UserBurst \in Nat /\ UserRate \in Nat
  BY LimitAssumption DEF LimitAssumption
<1>2. clock \in Nat /\ clock' = clock + 1
  BY DEF Tick, LimitTypeOK
<1>3. byUser' = [v \in DOMAIN byUser |->
                   [byUser[v] EXCEPT !.tokens = Capped(@ + UserRate, UserBurst)]]
  BY DEF Tick
<1>4. ASSUME NEW v \in DOMAIN byUser
      PROVE  /\ byUser'[v].tokens = Capped(byUser[v].tokens + UserRate, UserBurst)
             /\ byUser'[v].lastSeen = byUser[v].lastSeen
             /\ byUser'[v] \in [tokens: 0 .. UserBurst, lastSeen: 0 .. clock']
  <2>1. byUser[v] \in [tokens: 0 .. UserBurst, lastSeen: 0 .. clock]
    BY DEF LimitTypeOK
  <2>2. byUser'[v] = [byUser[v] EXCEPT !.tokens = Capped(byUser[v].tokens + UserRate, UserBurst)]
    BY <1>3, <2>1
  <2>3. Capped(byUser[v].tokens + UserRate, UserBurst) \in 0 .. UserBurst
    BY <1>1, <2>1, SMT DEF Capped
  <2>4. byUser[v].lastSeen \in 0 .. clock'
    BY <1>2, <2>1, SMT
  <2> QED
    BY <2>1, <2>2, <2>3, <2>4
<1> QED
  BY <1>2, <1>3, <1>4

\* The types hold when time passes.
LEMMA TypeTick == ASSUME LimitTypeOK, Tick PROVE LimitTypeOK'
<1>1. clock' \in Nat /\ starts' \in Nat /\ cleaned' \in 0 .. clock'
  BY SMT DEF Tick, LimitTypeOK
<1>2. global' \in 0 .. GlobalBurst
  BY LimitAssumption, SMT DEF LimitAssumption, Tick, Capped, LimitTypeOK
<1> QED
  BY <1>1, <1>2, TickBucket DEF LimitTypeOK

\* The types hold of a new process.
LEMMA TypeFresh == ASSUME LimitTypeOK, FreshLimiter PROVE LimitTypeOK'
BY LimitAssumption, SMT DEF LimitAssumption, FreshLimiter, NoBuckets, LimitTypeOK

-----------------------------------------------------------------------------
(* Buckets refill *)

\* An unused bucket is full or holds what it has gained.
LEMMA RefillStep ==
  ASSUME LimitInv, [LimitNext]_limitVars
  PROVE  BucketsRefill'
<1>1. LimitTypeOK /\ UserRate \in Nat /\ UserBurst \in Nat
  BY LimitAssumption DEF LimitAssumption, LimitInv
<1>2. ASSUME NEW u \in Users \cup {NoUser}, TokenBucket(u)
      PROVE  BucketsRefill'
  <2>1. clock' = clock /\ clock \in Nat
    BY <1>1, <1>2 DEF TokenBucket, LimitTypeOK
  <2>2. CASE UNCHANGED <<byUser, cleaned>>
    BY <2>1, <2>2 DEF LimitInv, BucketsRefill
  <2>3. CASE /\ u \in Users
             /\ byUser'[u] = UsedBucket(u)
             /\ \A v \in DOMAIN byUser' \ {u} : v \in DOMAIN byUser /\ byUser'[v] = byUser[v]
    <3>1. UsedBucket(u).lastSeen = clock /\ UsedBucket(u).tokens \in 0 .. UserBurst
      BY <1>1, <2>3, UsedBucketType
    <3>2. UserRate * (clock - clock) = 0
      BY <1>1, <2>1, SMT
    <3>3. UsedBucket(u).tokens >= Capped(UserRate * (clock - UsedBucket(u).lastSeen), UserBurst)
      BY <1>1, <3>1, <3>2, SMT DEF Capped
    <3> QED
      BY <2>1, <2>3, <3>3 DEF LimitInv, BucketsRefill
  <2> QED
    BY <1>1, <1>2, <2>2, <2>3, BucketStep
<1>3. CASE Tick
  <2> SUFFICES ASSUME NEW v \in DOMAIN byUser'
               PROVE  byUser'[v].tokens
                        >= Capped(UserRate * (clock' - byUser'[v].lastSeen), UserBurst)
    BY DEF BucketsRefill
  <2> DEFINE d == clock - byUser[v].lastSeen
             n == byUser[v].tokens
  <2>1. /\ v \in DOMAIN byUser
        /\ byUser'[v].tokens = Capped(n + UserRate, UserBurst)
        /\ byUser'[v].lastSeen = byUser[v].lastSeen
        /\ clock \in Nat /\ clock' = clock + 1
    BY <1>1, <1>3, TickBucket
  <2>2. n \in 0 .. UserBurst /\ byUser[v].lastSeen \in 0 .. clock
    BY <1>1, <2>1 DEF LimitTypeOK
  <2>3. d \in Nat /\ clock' - byUser'[v].lastSeen = d + 1
    BY <2>1, <2>2, SMT
  <2>4. n >= Capped(UserRate * d, UserBurst)
    BY <2>1 DEF LimitInv, BucketsRefill
  <2>5. UserRate * d \in Nat /\ UserRate * (d + 1) = UserRate * d + UserRate
    BY <1>1, <2>3, Gain
  <2> HIDE DEF d, n
  <2>6. Capped(n + UserRate, UserBurst) >= Capped(UserRate * d + UserRate, UserBurst)
    BY <1>1, <2>2, <2>4, <2>5, SMT DEF Capped
  <2> QED
    BY <2>1, <2>3, <2>5, <2>6
<1>4. CASE FreshLimiter
  BY <1>4 DEF FreshLimiter, NoBuckets, BucketsRefill
<1>5. CASE UNCHANGED limitVars
  BY <1>5 DEF limitVars, LimitInv, BucketsRefill
<1> QED
  BY <1>2, <1>3, <1>4, <1>5 DEF LimitNext

\* The types and the refilling of unused buckets hold at every moment of the
\* limiter (ratelimit.go).
THEOREM LimitInvariant == LimitSpec => []LimitInv
<1>1. LimitInit => LimitInv
  BY TypeInit DEF LimitInv, LimitInit, NoBuckets, BucketsRefill
<1>2. LimitInv /\ [LimitNext]_limitVars => LimitInv'
  <2> SUFFICES ASSUME LimitInv, [LimitNext]_limitVars PROVE LimitInv'
    OBVIOUS
  <2>1. LimitTypeOK
    BY DEF LimitInv
  <2>2. LimitTypeOK'
    <3>1. CASE UNCHANGED limitVars
      BY <2>1, <3>1 DEF limitVars, LimitTypeOK
    <3> QED
      BY <2>1, <3>1, TypeRequest, TypeTick, TypeFresh DEF LimitNext
  <2> QED
    BY <2>2, RefillStep DEF LimitInv
<1> QED
  BY <1>1, <1>2, PTL DEF LimitSpec

-----------------------------------------------------------------------------
(* Removing a bucket cannot be noticed *)

\* A request takes a token of its user or changes no user's tokens.
LEMMA RequestTakes ==
  ASSUME LimitInv, NEW u \in Users \cup {NoUser}, TokenBucket(u)
  PROVE  [Buckets!Next]_Buckets!vars
<1> DEFINE level == [v \in Users |-> Tokens(v)]
           after == [v \in Users |-> Tokens(v)']
<1>1. LimitTypeOK /\ clock' = clock /\ starts' = starts
  BY DEF LimitInv, TokenBucket
<1>2. CASE UNCHANGED <<byUser, cleaned>>
  <2>1. \A v \in Users : Tokens(v)' = Tokens(v)
    BY <1>2 DEF Tokens
  <2>2. after = level
    BY <2>1
  <2> QED
    BY <1>1, <2>2 DEF Buckets!vars
<1>3. CASE /\ u \in Users
           /\ DOMAIN byUser' = (DOMAIN byUser \cup {u}) \ (IF CleanupDue THEN Idle(u) ELSE {})
           /\ u \in DOMAIN byUser'
           /\ byUser'[u] = UsedBucket(u)
           /\ \A v \in DOMAIN byUser' \ {u} : v \in DOMAIN byUser /\ byUser'[v] = byUser[v]
  <2>1. ASSUME NEW v \in Users \ {u} PROVE Tokens(v)' = Tokens(v)
    <3>1. CASE v \in DOMAIN byUser'
      BY <1>3, <3>1 DEF Tokens
    <3>2. CASE v \notin DOMAIN byUser' /\ v \in DOMAIN byUser
      <4>1. clock - byUser[v].lastSeen > TTL
        BY <1>3, <3>2 DEF Idle
      <4>2. byUser[v].tokens = UserBurst
        BY <3>2, <4>1, IdleIsFull
      <4> QED
        BY <3>2, <4>2 DEF Tokens
    <3>3. CASE v \notin DOMAIN byUser' /\ v \notin DOMAIN byUser
      BY <3>3 DEF Tokens
    <3> QED
      BY <3>1, <3>2, <3>3
  <2>2. /\ Tokens(u) \in 0 .. UserBurst
        /\ Tokens(u)' = IF Tokens(u) >= 1 THEN Tokens(u) - 1 ELSE Tokens(u)
    BY <1>1, <1>3, UsedBucketType DEF Tokens
  <2>3. UserBurst \in Nat
    BY LimitAssumption DEF LimitAssumption
  <2>4. CASE Tokens(u) >= 1
    <3>1. level[u] > 0 /\ Tokens(u)' = level[u] - 1
      BY <1>3, <2>2, <2>3, <2>4, SMT
    <3>2. after = [level EXCEPT ![u] = @ - 1]
      BY <1>3, <2>1, <3>1
    <3>3. Buckets!Take(u)
      BY <1>1, <3>1, <3>2 DEF Buckets!Take
    <3> QED
      BY <1>3, <3>3 DEF Buckets!Next
  <2>5. CASE ~(Tokens(u) >= 1)
    <3>1. after = level
      BY <2>1, <2>2, <2>5
    <3> QED
      BY <1>1, <3>1 DEF Buckets!vars
  <2> QED
    BY <2>4, <2>5
<1> QED
  BY <1>1, <1>2, <1>3, BucketStep

\* No user can tell that buckets are removed: the limiter behaves as if every
\* user's bucket were kept from the start of the process (ratelimit.go 45-53).
THEOREM CleanupUnnoticed == LimitSpec => CleanupInvisible
<1>1. LimitInit => Buckets!Init
  <2> SUFFICES ASSUME LimitInit PROVE Buckets!Init
    OBVIOUS
  <2>1. \A u \in Users : Tokens(u) = UserBurst
    BY DEF LimitInit, NoBuckets, Tokens
  <2> QED
    BY <2>1 DEF LimitInit, Buckets!Init, Buckets!Full
<1>2. LimitInv /\ [LimitNext]_limitVars => [Buckets!Next]_Buckets!vars
  <2> SUFFICES ASSUME LimitInv, [LimitNext]_limitVars
               PROVE  [Buckets!Next]_Buckets!vars
    OBVIOUS
  <2>1. LimitTypeOK /\ UserBurst \in Nat /\ UserRate \in Nat
    BY LimitAssumption DEF LimitAssumption, LimitInv
  <2>2. CASE Tick
    <3>1. \A u \in Users : Tokens(u)' = Buckets!Capped(Tokens(u) + UserRate)
      <4> TAKE u \in Users
      <4>1. CASE u \in DOMAIN byUser
        BY <2>1, <2>2, <4>1, TickBucket DEF Tokens, Capped, Buckets!Capped
      <4>2. CASE u \notin DOMAIN byUser
        <5>1. Tokens(u) = UserBurst /\ Tokens(u)' = UserBurst
          BY <2>1, <2>2, <4>2, TickBucket DEF Tokens
        <5> QED
          BY <2>1, <5>1, SMT DEF Buckets!Capped
      <4> QED
        BY <4>1, <4>2
    <3>2. Buckets!Refill
      BY <2>2, <3>1 DEF Tick, Buckets!Refill
    <3> QED
      BY <3>2 DEF Buckets!Next
  <2>3. CASE FreshLimiter
    <3>1. \A u \in Users : Tokens(u)' = UserBurst
      BY <2>3 DEF FreshLimiter, NoBuckets, Tokens
    <3>2. Buckets!Restart
      BY <2>3, <3>1 DEF FreshLimiter, Buckets!Restart, Buckets!Full
    <3> QED
      BY <3>2 DEF Buckets!Next
  <2>4. CASE UNCHANGED limitVars
    BY <2>4 DEF limitVars, Buckets!vars, Tokens
  <2> QED
    BY <2>2, <2>3, <2>4, RequestTakes DEF LimitNext
<1> QED
  BY <1>1, <1>2, LimitInvariant, PTL DEF LimitSpec, CleanupInvisible, Buckets!Spec

-----------------------------------------------------------------------------
(* Buckets do not pile up *)

\* A request leaves no bucket that was idle for the TTL at the last cleanup.
LEMMA FreshStep ==
  ASSUME LimitTypeOK, FreshWhenCleaned, [LimitNext]_limitVars
  PROVE  FreshWhenCleaned'
<1>1. TTL \in Nat /\ clock \in Nat
  BY LimitAssumption DEF LimitAssumption, LimitTypeOK
<1>2. ASSUME NEW u \in Users \cup {NoUser}, TokenBucket(u)
      PROVE  FreshWhenCleaned'
  <2>1. CASE UNCHANGED <<byUser, cleaned>>
    BY <2>1 DEF FreshWhenCleaned
  <2>2. CASE /\ u \in Users
             /\ DOMAIN byUser' = (DOMAIN byUser \cup {u}) \ (IF CleanupDue THEN Idle(u) ELSE {})
             /\ byUser'[u] = UsedBucket(u)
             /\ \A v \in DOMAIN byUser' \ {u} : v \in DOMAIN byUser /\ byUser'[v] = byUser[v]
             /\ cleaned' = CleanedAfter
    <3> SUFFICES ASSUME NEW v \in DOMAIN byUser'
                 PROVE  cleaned' - byUser'[v].lastSeen <= TTL
      BY DEF FreshWhenCleaned
    <3>1. cleaned \in 0 .. clock /\ cleaned' \in 0 .. clock
      BY <1>1, <2>2, SMT DEF CleanedAfter, LimitTypeOK
    <3>2. CASE v = u
      BY <1>1, <2>2, <3>1, <3>2, UsedBucketType, SMT
    <3>3. CASE v # u /\ CleanupDue
      <4>1. v \in DOMAIN byUser /\ byUser'[v] = byUser[v] /\ v \notin Idle(u)
        BY <2>2, <3>3
      <4>2. ~(clock - byUser[v].lastSeen > TTL) /\ byUser[v].lastSeen \in 0 .. clock
        BY <3>3, <4>1 DEF Idle, LimitTypeOK
      <4>3. cleaned' = clock
        BY <2>2, <3>3 DEF CleanedAfter
      <4> QED
        BY <1>1, <4>1, <4>2, <4>3, SMT
    <3>4. CASE v # u /\ ~CleanupDue
      BY <2>2, <3>4 DEF FreshWhenCleaned, CleanedAfter
    <3> QED
      BY <3>2, <3>3, <3>4
  <2> QED
    BY <1>2, <2>1, <2>2, BucketStep
<1>3. CASE Tick
  BY <1>3, TickBucket DEF Tick, FreshWhenCleaned
<1>4. CASE FreshLimiter
  BY <1>4 DEF FreshLimiter, NoBuckets, FreshWhenCleaned
<1>5. CASE UNCHANGED limitVars
  BY <1>5 DEF limitVars, FreshWhenCleaned
<1> QED
  BY <1>2, <1>3, <1>4, <1>5 DEF LimitNext

\* After a request that reached the buckets none has been idle for twice the
\* TTL, although buckets are removed by requests only (ratelimit.go 45-53).
THEOREM BucketsDoNotPileUp == LimitSpec => IdleBucketsRemoved
<1> DEFINE Removed == byUser' # byUser /\ clock' = clock =>
                        \A v \in DOMAIN byUser' : clock - byUser'[v].lastSeen <= 2 * TTL
<1>1. LimitInit => FreshWhenCleaned
  BY DEF LimitInit, NoBuckets, FreshWhenCleaned
<1>2. LimitInv /\ FreshWhenCleaned /\ [LimitNext]_limitVars => FreshWhenCleaned'
  BY FreshStep DEF LimitInv
<1>3. LimitInv /\ FreshWhenCleaned /\ [LimitNext]_limitVars => [Removed]_limitVars
  <2> SUFFICES ASSUME LimitInv, FreshWhenCleaned, LimitNext, byUser' # byUser, clock' = clock,
                      NEW v \in DOMAIN byUser'
               PROVE  clock - byUser'[v].lastSeen <= 2 * TTL
    OBVIOUS
  <2>1. LimitTypeOK /\ TTL \in Nat /\ clock \in Nat
    BY LimitAssumption DEF LimitAssumption, LimitInv, LimitTypeOK
  <2>2. ASSUME NEW u \in Users \cup {NoUser}, TokenBucket(u)
        PROVE  clock - byUser'[v].lastSeen <= 2 * TTL
    <3>1. /\ cleaned' = CleanedAfter /\ cleaned \in 0 .. clock
          /\ byUser'[v].lastSeen \in 0 .. clock
      <4>1. cleaned' = CleanedAfter
        BY <2>1, <2>2, BucketStep
      <4>2. LimitTypeOK'
        BY <2>1, <2>2, TypeRequest
      <4> QED
        BY <2>1, <4>1, <4>2 DEF LimitTypeOK
    <3>2. cleaned' - byUser'[v].lastSeen <= TTL
      <4>1. FreshWhenCleaned'
        BY <2>1, FreshStep
      <4> QED
        BY <4>1 DEF FreshWhenCleaned
    <3>3. clock - cleaned' <= TTL
      BY <2>1, <3>1, SMT DEF CleanedAfter, CleanupDue
    <3>4. cleaned' \in 0 .. clock
      BY <2>1, <3>1, SMT DEF CleanedAfter
    <3> QED
      BY <2>1, <3>1, <3>2, <3>3, <3>4, SMT
  <2>3. CASE Tick
    BY <2>1, <2>3, SMT DEF Tick
  <2>4. CASE FreshLimiter
    BY <2>4 DEF FreshLimiter, NoBuckets
  <2> QED
    BY <2>2, <2>3, <2>4 DEF LimitNext
<1> QED
  BY <1>1, <1>2, <1>3, LimitInvariant, PTL DEF LimitSpec, IdleBucketsRemoved

-----------------------------------------------------------------------------
(* The path of a vote *)

\* A vote that a script may count.
Countable == shape \in {"header", "query"}

\* A verdict rests on what no later step takes back: the mark of the counted vote,
\* the client's request, the poll that is not open any more.
PathInv ==
  /\ shape \in Shapes /\ poll \in {"open", "closed", "gone"}
  /\ effects = (IF marked THEN 1 ELSE 0)
  /\ stage = "read" => marked
  /\ status # NoStatus => stage = "received"
  /\ status = 200 => 200 \in told
  /\ 200 \in told \/ outcome = "true" => marked
  /\ 400 \in told \/ 401 \in told => ~Countable
  /\ 403 \in told => poll # "open" /\ ~marked
  /\ ~Countable => ~marked
  /\ ~ReachesStore => late = 0 /\ stage \notin {"script", "read"}

Claims ==
  /\ 200 \in told' \/ outcome' = "true" => effects' = 1
  /\ told' \cap {400, 401, 403} # {} => effects' = 0
  /\ status' = 409 /\ status # 409 => effects' = 0

-----------------------------------------------------------------------------
(* The limiter inside the path *)

\* The path drives the limiter by the limiter's own steps (router.go 20), so what
\* is shown above holds on it too.
THEOREM PathUsesLimiter == Spec => LimitSpec
<1>1. Init => LimitInit
  BY DEF Init
<1>2. [Next]_pathVars => [LimitNext]_limitVars
  <2> SUFFICES ASSUME [Next]_pathVars PROVE [LimitNext]_limitVars
    OBVIOUS
  <2>1. CASE UNCHANGED pathVars
    BY <2>1 DEF pathVars
  <2>2. CASE Attempt \/ Receive \/ GiveUp \/ TimeOut
    BY <2>2 DEF Attempt, Receive, GiveUp, TimeOut
  <2>3. CASE Serve
    <3>1. Header \in Users \cup {NoUser}
      BY ShapeAssumption DEF ShapeAssumption, Header
    <3> QED
      BY <2>3, <3>1 DEF Serve, LimitNext
  <2>4. CASE Script \/ Read \/ StoreFails \/ LateScript
    BY <2>4 DEF Script, Read, StoreFails, LateScript
  <2>5. CASE HttpExit
    BY <2>5 DEF HttpExit, LimitNext
  <2>6. CASE HttpStop \/ GrpcStop \/ GrpcDrain \/ GrpcExit
    BY <2>6 DEF HttpStop, GrpcStop, GrpcDrain, GrpcExit
  <2>7. CASE \E u \in Users \cup {NoUser} : OtherRequest(u)
    BY <2>7 DEF OtherRequest, LimitNext
  <2>8. CASE VoteElsewhere \/ UndoElsewhere \/ PollCloses \/ PollDeleted
           \/ PollRevived
    BY <2>8 DEF VoteElsewhere, UndoElsewhere, PollCloses, PollDeleted, PollRevived
  <2>9. CASE TimePasses
    BY <2>9 DEF TimePasses, LimitNext
  <2> QED
    BY <2>1, <2>2, <2>3, <2>4, <2>5, <2>6, <2>7, <2>8, <2>9 DEF Next
<1> QED
  BY <1>1, <1>2, PTL DEF Spec, LimitSpec

-----------------------------------------------------------------------------
(* Statuses and codes *)

\* The HTTP status of each result of the store.
LEMMA StoreStatuses ==
  /\ HttpStatusFromGRPC("OK") = 200
  /\ HttpStatusFromGRPC("Unavailable") = 500
  /\ HttpStatusFromGRPC(ToStatus("invalid")) = 400
  /\ HttpStatusFromGRPC(ToStatus("notfound")) = 404
  /\ HttpStatusFromGRPC(ToStatus("forbidden")) = 403
  /\ HttpStatusFromGRPC(ToStatus("conflict")) = 409
  /\ HttpStatusFromGRPC(ToStatus("error")) = 500
BY DEF HttpStatusFromGRPC, ToStatus

\* The script counts the vote at most once and marks it when it does.
LEMMA ScriptCounts ==
  ASSUME PathInv, RunScript, ReachesStore
  PROVE  /\ effects' = (IF marked' THEN 1 ELSE 0)
         /\ marked => marked'
         /\ poll' = poll
         /\ ~marked /\ marked' => poll = "open" /\ Countable
<1>1. CASE ScriptResult = "ok"
  <2>1. ~marked /\ poll = "open"
    BY <1>1 DEF PathInv, ScriptResult
  <2>4. Countable
    BY <1>1 DEF ScriptResult, ReachesStore, Countable
  <2>2. marked' = TRUE /\ effects' = effects + 1 /\ poll' = poll
    BY <1>1 DEF RunScript
  <2>3. effects = 0
    BY <2>1 DEF PathInv
  <2> QED
    BY <1>1, <2>1, <2>2, <2>3, <2>4, SMT
<1>2. CASE ScriptResult # "ok"
  BY <1>2 DEF RunScript, storeVars, PathInv
<1> QED
  BY <1>1, <1>2

\* What an answer adds to what was told.
LEMMA Told ==
  /\ \A s \in {404, 409, 429, 500} : Respond(s) => told' = told
  /\ Respond(200) => told' = told \cup {200}
  /\ Respond(400) => told' = told \cup {400}
  /\ Respond(401) => told' = told \cup {401}
  /\ Respond(403) => told' = told \cup {403}
BY DEF Respond, Verdicts

-----------------------------------------------------------------------------
(* Steps *)

\* The client's steps.
LEMMA ClientSteps ==
  ASSUME PathInv, Attempt \/ Receive \/ GiveUp \/ TimeOut
  PROVE  PathInv' /\ Claims
<1>1. CASE Attempt
  BY <1>1, SMT DEF PathInv, Claims, Attempt, Deciding, NoStatus, ReachesStore, Countable, storeVars
<1>2. CASE Receive
  BY <1>2, SMT DEF PathInv, Claims, Receive, Reported, NoAttempt, NoStatus, ReachesStore,
                   Countable, storeVars
<1>3. CASE GiveUp
  BY <1>3, SMT DEF PathInv, Claims, GiveUp, ReachesStore, Countable, storeVars, attemptVars
<1>4. CASE TimeOut
  BY <1>4, SMT DEF PathInv, Claims, TimeOut, NoAttempt, NoStatus, LateAfter, ReachesStore,
                   Countable, storeVars, clientVars
<1> QED
  BY <1>1, <1>2, <1>3, <1>4

\* The way through the httpserver: refusals before the store are those of requests
\* that never reach it.
LEMMA ServeStep == ASSUME PathInv, Serve PROVE PathInv' /\ Claims
<1>1. UNCHANGED <<clientVars, storeVars, late>> /\ stage = "sent"
  BY DEF Serve
<1>2. CASE Respond(429)
  BY <1>1, <1>2, Told, SMT
  DEF PathInv, Claims, Respond, NoStatus, ReachesStore, Countable, storeVars, clientVars
<1>3. CASE shape = "anonymous" /\ Respond(401)
  BY <1>1, <1>3, Told, SMT
  DEF PathInv, Claims, Respond, NoStatus, ReachesStore, Countable, storeVars, clientVars
<1>4. CASE shape \in {"empty", "blank"} /\ Respond(400)
  BY <1>1, <1>4, Told, SMT
  DEF PathInv, Claims, Respond, NoStatus, ReachesStore, Countable, storeVars, clientVars
<1>5. CASE Respond(500)
  BY <1>1, <1>5, Told, SMT
  DEF PathInv, Claims, Respond, NoStatus, ReachesStore, Countable, storeVars, clientVars
<1>6. CASE ReachesStore /\ stage' = "script" /\ UNCHANGED <<status, told>>
  BY <1>1, <1>6, SMT DEF PathInv, Claims, NoStatus, ReachesStore, Countable, storeVars, clientVars
<1>7. \/ Respond(429) \/ Respond(500)
      \/ shape = "anonymous" /\ Respond(401)
      \/ shape \in {"empty", "blank"} /\ Respond(400)
      \/ ReachesStore /\ stage' = "script" /\ UNCHANGED <<status, told>>
  <2>1. shape \in {"header", "query", "anonymous", "empty", "blank", "unknown"}
    BY ShapeAssumption DEF ShapeAssumption, PathInv
  <2> QED
    BY <2>1, StoreStatuses DEF Serve, CallVote, RpcEnds, ReachesStore
<1> QED
  BY <1>2, <1>3, <1>4, <1>5, <1>6, <1>7

\* The script's result: what it refuses it has not counted.
LEMMA ScriptStep == ASSUME PathInv, Script PROVE PathInv' /\ Claims
<1>1. RunScript /\ UNCHANGED <<shape, outcome, late>> /\ stage = "script"
  BY DEF Script, clientVars
<1>2. ReachesStore /\ ReachesStore' /\ (Countable' <=> Countable) /\ status = NoStatus
  BY <1>1 DEF PathInv, ReachesStore, Countable
<1>3. /\ effects' = (IF marked' THEN 1 ELSE 0) /\ poll' = poll
      /\ marked => marked'
      /\ ~marked /\ marked' => poll = "open" /\ Countable
  BY <1>1, <1>2, ScriptCounts
<1>4. CASE ScriptResult \in {"ok", "noop"} /\ stage' = "read" /\ UNCHANGED <<status, told>>
  <2>1. marked'
    BY <1>1, <1>4 DEF RunScript, ScriptResult, storeVars
  <2> QED
    BY <1>1, <1>2, <1>3, <1>4, <2>1 DEF PathInv, Claims, NoStatus
<1>5. CASE ScriptResult \notin {"ok", "noop"} /\ RpcEnds(ToStatus(ScriptResult))
  <2>1. ~marked /\ ~marked' /\ effects' = 0
    BY <1>1, <1>5 DEF RunScript, ScriptResult, storeVars, PathInv
  <2>2. /\ stage' = "received"
        /\ \/ status' \in {404, 409} /\ told' = told
           \/ status' = 403 /\ told' = told \cup {403} /\ poll # "open"
           \/ status' = 400 /\ told' = told \cup {400} /\ ~Countable
    <3>1. CASE ScriptResult = "notfound"
      BY <1>5, <3>1, StoreStatuses, Told DEF RpcEnds, Respond
    <3>2. CASE ScriptResult = "forbidden"
      BY <1>5, <3>2, StoreStatuses, Told DEF RpcEnds, Respond, ScriptResult
    <3>3. CASE ScriptResult = "conflict"
      BY <1>5, <3>3, StoreStatuses, Told DEF RpcEnds, Respond
    <3>4. CASE ScriptResult = "invalid"
      <4>1. ~Countable
        BY <3>4 DEF ScriptResult, Countable
      <4> QED
        BY <1>5, <3>4, <4>1, StoreStatuses, Told DEF RpcEnds, Respond
    <3> QED
      BY <1>5, <3>1, <3>2, <3>3, <3>4 DEF ScriptResult
  <2>3. 200 \notin told /\ outcome # "true" /\ 200 \notin told'
    BY <2>1, <2>2 DEF PathInv
  <2> QED
    BY <1>1, <1>2, <1>3, <2>1, <2>2, <2>3 DEF PathInv, Claims, NoStatus
<1>6. CASE UNCHANGED attemptVars
  BY <1>1, <1>2, <1>3, <1>6 DEF PathInv, Claims, NoStatus, attemptVars
<1> QED
  BY <1>4, <1>5, <1>6 DEF Script

\* The poll read for the answer, and a store that does not answer.
LEMMA AnswerSteps == ASSUME PathInv, Read \/ StoreFails PROVE PathInv' /\ Claims
<1>1. /\ UNCHANGED <<clientVars, storeVars>> /\ stage' = "received"
      /\ stage \in {"script", "read"} /\ ReachesStore
  BY DEF Read, StoreFails, RpcEnds, Respond, PathInv
<1>2. \/ status' \in {404, 500} /\ told' = told
      \/ status' = 200 /\ told' = told \cup {200} /\ marked
  BY StoreStatuses, Told DEF Read, StoreFails, RpcEnds, Respond, PathInv
<1>3. marked => 403 \notin told /\ Countable
  BY DEF PathInv
<1> QED
  BY <1>1, <1>2, <1>3 DEF PathInv, Claims, NoStatus, ReachesStore, Countable, clientVars, storeVars

\* A late command changes nothing that an answer on its way claims.
LEMMA LateStep == ASSUME PathInv, LateScript PROVE PathInv' /\ Claims
<1>1. RunScript /\ UNCHANGED <<clientVars, attemptVars>> /\ late > 0
  BY DEF LateScript
<1>2. ReachesStore /\ ReachesStore' /\ (Countable' <=> Countable)
  BY <1>1, SMT DEF PathInv, ReachesStore, Countable, clientVars
<1>3. /\ effects' = (IF marked' THEN 1 ELSE 0) /\ poll' = poll
      /\ marked => marked'
      /\ ~marked /\ marked' => poll = "open" /\ Countable
  BY <1>1, <1>2, ScriptCounts
<1> QED
  BY <1>1, <1>2, <1>3 DEF PathInv, Claims, NoStatus, clientVars, attemptVars

\* Stops cut requests, which are then unanswered or answered with 500.
LEMMA ServerSteps ==
  ASSUME PathInv, HttpStop \/ HttpExit \/ GrpcStop \/ GrpcDrain \/ GrpcExit
  PROVE  PathInv' /\ Claims
<1>1. UNCHANGED <<clientVars, storeVars>>
  BY DEF HttpStop, HttpExit, GrpcStop, GrpcDrain, GrpcExit
<1>2. \/ UNCHANGED attemptVars
      \/ NoAttempt
      \/ stage' = "received" /\ status' = 500 /\ told' = told
  BY StoreStatuses, Told DEF HttpStop, HttpExit, GrpcStop, GrpcDrain, GrpcExit, RpcEnds, Respond
<1>3. ~ReachesStore => late' = 0
  BY DEF HttpStop, HttpExit, GrpcStop, GrpcDrain, GrpcExit, LateAfter, PathInv
<1> QED
  BY <1>1, <1>2, <1>3 DEF PathInv, Claims, NoStatus, NoAttempt, ReachesStore, Countable,
                          clientVars, storeVars, attemptVars

\* Other requests, the poll's fate and time.
LEMMA OtherSteps ==
  ASSUME PathInv,
         \/ \E u \in Users \cup {NoUser} : OtherRequest(u)
         \/ VoteElsewhere \/ UndoElsewhere \/ PollCloses \/ PollDeleted
         \/ PollRevived \/ TimePasses
  PROVE  PathInv' /\ Claims
<1>1. UNCHANGED <<clientVars, attemptVars, late, marked, effects>>
  BY DEF OtherRequest, VoteElsewhere, UndoElsewhere, PollCloses, PollDeleted,
         PollRevived, TimePasses, storeVars
<1>2. poll' \in {"open", "closed", "gone"} /\ (poll # "open" => poll' # "open")
  BY DEF OtherRequest, VoteElsewhere, UndoElsewhere, PollCloses, PollDeleted,
         PollRevived, TimePasses, storeVars,
         PathInv
<1> QED
  BY <1>1, <1>2 DEF PathInv, Claims, NoStatus, ReachesStore, Countable, clientVars, attemptVars

-----------------------------------------------------------------------------

\* What the client of a repeated vote is told is true, whatever happened to its
\* earlier attempts (http_consistency_test.go 435-449, store.go 147-172).
THEOREM AnswersTellEffect == Spec => AnswerTellsEffect
<1>1. Init => PathInv
  BY ShapeAssumption DEF ShapeAssumption, Init, PathInv, NoStatus, Countable
<1>2. PathInv /\ [Next]_pathVars => PathInv' /\ [Claims]_pathVars
  <2> SUFFICES ASSUME PathInv, [Next]_pathVars PROVE PathInv' /\ [Claims]_pathVars
    OBVIOUS
  <2>1. CASE UNCHANGED pathVars
    BY <2>1 DEF pathVars, PathInv, ReachesStore, Countable, clientVars, storeVars, attemptVars
  <2> QED
    BY <2>1, ClientSteps, ServeStep, ScriptStep, AnswerSteps, LateStep, ServerSteps, OtherSteps
       DEF Next
<1> QED
  BY <1>1, <1>2, PTL DEF Spec, AnswerTellsEffect, Claims

\* The limits of the users on the path are those of buckets never removed
\* (ratelimit.go 45-53).
THEOREM PathCleanupUnnoticed == Spec => CleanupInvisible
BY PathUsesLimiter, CleanupUnnoticed, PTL

-----------------------------------------------------------------------------
(* Types: no more commands are late than attempts have been made *)

\* An attempt that has not reached an answer may still leave one command behind.
MayLeave == IF stage \in {"sent", "script"} THEN 1 ELSE 0

PathTypes ==
  /\ http \in {"up", "draining"}
  /\ grpc \in {"up", "stopping", "draining"}
  /\ stops \in 0 .. MaxStops
  /\ shape \in Shapes /\ attempts \in 0 .. MaxAttempts
  /\ stage \in Stages
  /\ status \in Statuses \cup {NoStatus} /\ (status # NoStatus <=> stage = "received")
  /\ told \subseteq Verdicts
  /\ outcome \in {"none", "true", "false"}
  /\ late \in Nat /\ late + MayLeave <= attempts
  /\ poll \in {"open", "closed", "gone"}
  /\ voted \in BOOLEAN /\ marked \in BOOLEAN /\ effects \in Nat

\* An attempt that is over leaves as many commands as it may.
LEMMA LateBound ==
  ASSUME PathTypes
  PROVE  /\ late \in Nat /\ attempts \in Nat /\ attempts <= MaxAttempts
         /\ late + MayLeave <= attempts /\ MayLeave \in {0, 1}
         /\ late <= attempts
         /\ \A n \in Nat : n <= late + MayLeave => n + 0 <= attempts
<1>1. /\ late \in Nat /\ late + MayLeave <= attempts /\ MayLeave \in {0, 1}
  BY DEF PathTypes, MayLeave
<1>2. attempts \in Nat /\ attempts <= MaxAttempts
  BY ShapeAssumption DEF PathTypes, ShapeAssumption
<1> DEFINE m == MayLeave
<1>3. late + m <= attempts /\ m \in Nat
  BY <1>1
<1> HIDE DEF m
<1>4. late <= attempts /\ \A n \in Nat : n <= late + m => n + 0 <= attempts
  BY <1>1, <1>2, <1>3
<1> QED
  BY <1>1, <1>2, <1>4 DEF m

\* The variables of the store after a run of the script.
LEMMA ScriptTypes ==
  ASSUME PathTypes, RunScript
  PROVE  poll' = poll /\ voted' \in BOOLEAN /\ marked' \in BOOLEAN /\ effects' \in Nat
<1>1. CASE ScriptResult = "ok"
  BY <1>1 DEF RunScript, PathTypes
<1>2. CASE ScriptResult # "ok"
  BY <1>2 DEF RunScript, PathTypes, storeVars
<1> QED
  BY <1>1, <1>2

LEMMA RespondTypes ==
  ASSUME NEW s \in Statuses, Respond(s)
  PROVE  /\ stage' \in Stages /\ status' \in Statuses
         /\ status' # NoStatus /\ stage' = "received" /\ MayLeave' = 0
         /\ told \subseteq Verdicts => told' \subseteq Verdicts
BY DEF Respond, Stages, Statuses, NoStatus, MayLeave

LEMMA NoAttemptTypes ==
  ASSUME NoAttempt
  PROVE  stage' \in Stages /\ status' = NoStatus /\ stage' = "none" /\ MayLeave' = 0
         /\ told' = told
BY DEF NoAttempt, Stages, NoStatus, MayLeave

LEMMA ClientTypes ==
  ASSUME PathTypes, Attempt \/ Receive \/ GiveUp \/ TimeOut PROVE PathTypes'
<1> USE ShapeAssumption DEF ShapeAssumption, PathTypes
<1>1. CASE Attempt
  <2>1. /\ stage = "none" /\ attempts < MaxAttempts /\ attempts' = attempts + 1
        /\ stage' \in {"sent", "none"} /\ late' = late /\ status' = status
    BY <1>1 DEF Attempt, Deciding
  <2>2. MayLeave' = 0 \/ MayLeave' = 1
    BY DEF MayLeave
  <2>3. attempts' \in 0 .. MaxAttempts /\ late + 0 <= attempts' /\ late + 1 <= attempts'
    <3>1. MaxAttempts \in Nat
      OBVIOUS
    <3> HIDE DEF PathTypes
    <3> QED
      BY <2>1, <3>1, LateBound
  <2>5. late' + MayLeave' <= attempts'
    BY <2>1, <2>2, <2>3
  <2>4. stage' \in Stages /\ stage' # "received" /\ status = NoStatus
    BY <2>1 DEF Stages
  <2> QED
    BY <1>1, <2>1, <2>3, <2>4, <2>5 DEF Attempt, serverVars, storeVars
<1>2. CASE Receive
  <2>1. late' = late /\ attempts' = attempts /\ outcome' \in {"none", "true", "false"}
    BY <1>2 DEF Receive, Reported
  <2>2. late + 0 <= attempts
    BY LateBound
  <2>3. late' + MayLeave' <= attempts'
    BY <1>2, <2>1, <2>2, NoAttemptTypes DEF Receive
  <2> QED
    BY <1>2, <2>1, <2>3, NoAttemptTypes DEF Receive, serverVars, storeVars
<1>3. CASE GiveUp
  BY <1>3 DEF GiveUp, serverVars, attemptVars, storeVars, MayLeave
<1>4. CASE TimeOut
  <2>1. /\ late' \in Nat /\ late' <= late + MayLeave /\ attempts' = attempts
        /\ attempts \in Nat
    BY <1>4 DEF TimeOut, LateAfter, MayLeave, clientVars
  <2>2. late' + MayLeave' <= attempts'
    <3>1. MayLeave' = 0 /\ late' + 0 <= attempts
      BY <1>4, <2>1, NoAttemptTypes, LateBound DEF TimeOut
    <3> QED
      BY <2>1, <3>1
  <2> QED
    BY <1>4, <2>1, <2>2, NoAttemptTypes DEF TimeOut, serverVars, storeVars, clientVars
<1> QED
  BY <1>1, <1>2, <1>3, <1>4

LEMMA ServeTypes == ASSUME PathTypes, Serve PROVE PathTypes'
<1> USE DEF PathTypes
<1>1. UNCHANGED <<serverVars, clientVars, storeVars, late>> /\ stage = "sent"
  BY DEF Serve
<1>2. CASE \E s \in Statuses : Respond(s)
  <2>1. late' + MayLeave' <= attempts'
    <3>1. late' = late /\ attempts' = attempts /\ MayLeave' = 0 /\ late + 0 <= attempts
      BY <1>1, <1>2, RespondTypes, LateBound DEF clientVars
    <3> QED
      BY <3>1
  <2> QED
    BY <1>1, <1>2, <2>1, RespondTypes DEF serverVars, clientVars, storeVars
<1>3. CASE stage' = "script" /\ UNCHANGED <<status, told>>
  <2>1. MayLeave' = MayLeave
    BY <1>1, <1>3 DEF MayLeave
  <2> QED
    BY <1>1, <1>3, <2>1 DEF serverVars, clientVars, storeVars, Stages
<1>4. \/ Respond(429) \/ Respond(500) \/ Respond(401) \/ Respond(400)
      \/ stage' = "script" /\ UNCHANGED <<status, told>>
  BY StoreStatuses DEF Serve, CallVote, RpcEnds
<1> QED
  BY <1>2, <1>3, <1>4 DEF Statuses

LEMMA StoreTypes ==
  ASSUME PathTypes, Script \/ Read \/ StoreFails \/ LateScript PROVE PathTypes'
<1> USE DEF PathTypes
<1>1. CASE Script
  <2>1. /\ RunScript /\ UNCHANGED <<serverVars, clientVars, late>> /\ stage = "script"
        /\ \/ stage' = "read" /\ UNCHANGED <<status, told>>
           \/ \E s \in Statuses : Respond(s)
           \/ UNCHANGED attemptVars
    BY <1>1, StoreStatuses DEF Script, RpcEnds, ScriptResult, Statuses
  <2>2. /\ stage' \in Stages /\ status' \in Statuses \cup {NoStatus}
        /\ told' \subseteq Verdicts
        /\ status' # NoStatus <=> stage' = "received"
        /\ MayLeave' = 0 \/ MayLeave' = MayLeave
    BY <2>1, RespondTypes DEF MayLeave, Stages, attemptVars
  <2>3. late' + MayLeave' <= attempts'
    <3>1. /\ late' = late /\ attempts' = attempts
          /\ late + 0 <= attempts /\ late + MayLeave <= attempts
      BY <2>1, LateBound DEF clientVars
    <3> QED
      BY <2>2, <3>1
  <2> QED
    BY <2>1, <2>2, <2>3, ScriptTypes DEF serverVars, clientVars
<1>2. CASE Read
  <2>1. /\ UNCHANGED <<serverVars, clientVars, storeVars, late>> /\ stage = "read"
        /\ \E s \in Statuses : Respond(s)
    BY <1>2, StoreStatuses DEF Read, RpcEnds, Statuses
  <2>2. MayLeave' = MayLeave
    BY <2>1, RespondTypes DEF MayLeave
  <2> QED
    BY <2>1, <2>2, RespondTypes DEF serverVars, clientVars, storeVars
<1>3. CASE StoreFails
  <2>1. /\ UNCHANGED <<serverVars, clientVars, storeVars>>
        /\ late' \in Nat /\ late' <= late + MayLeave
        /\ \E s \in Statuses : Respond(s)
    BY <1>3, StoreStatuses DEF StoreFails, LateAfter, MayLeave, RpcEnds, Statuses
  <2>2. late' + MayLeave' <= attempts'
    <3>1. MayLeave' = 0 /\ attempts' = attempts /\ late' + 0 <= attempts
      BY <2>1, RespondTypes, LateBound DEF clientVars
    <3> QED
      BY <2>1, <3>1
  <2> QED
    BY <2>1, <2>2, RespondTypes DEF serverVars, clientVars, storeVars
<1>4. CASE LateScript
  <2>1. /\ RunScript /\ UNCHANGED <<serverVars, clientVars, attemptVars>>
        /\ late > 0 /\ late' = late - 1
    BY <1>4 DEF LateScript
  <2>2. late' \in Nat /\ late' + MayLeave' <= attempts'
    <3>1. MayLeave' = MayLeave /\ attempts' = attempts
      BY <2>1 DEF MayLeave, clientVars, attemptVars
    <3> DEFINE m == MayLeave
    <3>2. late \in Nat /\ attempts \in Nat /\ m \in Nat /\ late + m <= attempts
      BY LateBound
    <3> HIDE DEF m
    <3>3. late' \in Nat /\ late' + m <= attempts
      BY <2>1, <3>2
    <3> QED
      BY <3>1, <3>3 DEF m
  <2> QED
    BY <2>1, <2>2, ScriptTypes DEF serverVars, clientVars, attemptVars
<1> QED
  BY <1>1, <1>2, <1>3, <1>4

LEMMA ServerTypes ==
  ASSUME PathTypes, HttpStop \/ HttpExit \/ GrpcStop \/ GrpcDrain \/ GrpcExit
  PROVE  PathTypes'
<1> USE DEF PathTypes
<1>1. UNCHANGED <<clientVars, storeVars>>
  BY DEF HttpStop, HttpExit, GrpcStop, GrpcDrain, GrpcExit
<1>2. \/ UNCHANGED <<attemptVars, late>>
      \/ /\ NoAttempt \/ \E s \in Statuses : Respond(s)
         /\ late' \in LateAfter(stage = "script")
  BY StoreStatuses DEF HttpStop, HttpExit, GrpcStop, GrpcDrain, GrpcExit, RpcEnds, Statuses
<1>3. /\ http' \in {"up", "draining"} /\ grpc' \in {"up", "stopping", "draining"}
      /\ stops' = stops \/ (stops < MaxStops /\ stops' = stops + 1)
  BY DEF HttpStop, HttpExit, GrpcStop, GrpcDrain, GrpcExit, Stopped
<1>4. stops' \in 0 .. MaxStops
  BY <1>3, ShapeAssumption DEF ShapeAssumption
<1>5. CASE UNCHANGED <<attemptVars, late>>
  BY <1>1, <1>3, <1>4, <1>5 DEF clientVars, storeVars, attemptVars, MayLeave
<1>6. CASE /\ NoAttempt \/ \E s \in Statuses : Respond(s)
           /\ late' \in LateAfter(stage = "script")
  <2>1. /\ stage' \in Stages /\ status' \in Statuses \cup {NoStatus}
        /\ told' \subseteq Verdicts
        /\ status' # NoStatus <=> stage' = "received"
        /\ MayLeave' = 0
    <3>1. CASE NoAttempt
      <4>1. stage' \in Stages /\ status' = NoStatus /\ stage' = "none" /\ MayLeave' = 0
            /\ told' = told
        BY <3>1, NoAttemptTypes
      <4> QED
        BY <4>1
    <3>2. CASE \E s \in Statuses : Respond(s)
      BY <3>2, RespondTypes
    <3> QED
      BY <1>6, <3>1, <3>2
  <2>2. late' \in Nat /\ late' <= late + MayLeave
    BY <1>6 DEF LateAfter, MayLeave
  <2>3. late' + MayLeave' <= attempts'
    <3>1. attempts' = attempts /\ late' + 0 <= attempts
      BY <1>1, <2>2, LateBound DEF clientVars
    <3> QED
      BY <2>1, <3>1
  <2> QED
    BY <1>1, <1>3, <1>4, <2>1, <2>2, <2>3 DEF clientVars, storeVars
<1> QED
  BY <1>2, <1>5, <1>6

LEMMA OtherTypes ==
  ASSUME PathTypes,
         \/ \E u \in Users \cup {NoUser} : OtherRequest(u)
         \/ VoteElsewhere \/ UndoElsewhere \/ PollCloses \/ PollDeleted
         \/ PollRevived \/ TimePasses \/ UNCHANGED pathVars
  PROVE  PathTypes'
<1>1. UNCHANGED <<serverVars, clientVars, attemptVars, late, marked, effects>>
  BY DEF OtherRequest, VoteElsewhere, UndoElsewhere, PollCloses, PollDeleted,
         PollRevived, TimePasses,
         storeVars, pathVars
<1>2. poll' \in {"open", "closed", "gone"} /\ voted' \in BOOLEAN
  BY DEF OtherRequest, VoteElsewhere, UndoElsewhere, PollCloses, PollDeleted,
         PollRevived, TimePasses,
         storeVars, pathVars, PathTypes
<1> QED
  BY <1>1, <1>2 DEF PathTypes, serverVars, clientVars, attemptVars, MayLeave

\* Every variable of the path keeps its type, and no more commands of lost
\* attempts are under way than attempts were made (http_consistency_test.go 435-449).
THEOREM PathTyped == Spec => []PathTypeOK
<1>1. Init => PathTypes
  <2> SUFFICES ASSUME Init PROVE PathTypes
    OBVIOUS
  <2>1. attempts = 0 /\ late = 0 /\ MayLeave = 0
    BY DEF Init, MayLeave
  <2>2. late \in Nat /\ late + MayLeave <= attempts
    BY <2>1
  <2>3. 0 \in 0 .. MaxAttempts /\ 0 \in 0 .. MaxStops
    BY ShapeAssumption DEF ShapeAssumption
  <2>4. stage \in Stages /\ status = NoStatus /\ stage # "received"
    BY DEF Init, Stages
  <2> QED
    BY <2>1, <2>2, <2>3, <2>4 DEF Init, PathTypes
<1>2. PathTypes /\ [Next]_pathVars => PathTypes'
  BY ClientTypes, ServeTypes, StoreTypes, ServerTypes, OtherTypes DEF Next
<1>3. LimitInv /\ PathTypes => PathTypeOK
  <2> SUFFICES ASSUME LimitInv, PathTypes PROVE PathTypeOK
    OBVIOUS
  <2>1. late \in 0 .. MaxAttempts
    BY ShapeAssumption DEF ShapeAssumption, PathTypes, MayLeave
  <2> QED
    BY <2>1 DEF LimitInv, PathTypes, PathTypeOK
<1> QED
  BY <1>1, <1>2, <1>3, PathUsesLimiter, LimitInvariant, PTL DEF Spec
===============================================================================
