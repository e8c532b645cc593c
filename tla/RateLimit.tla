------------------------------- MODULE RateLimit -------------------------------
(***************************************************************************)
(* The rate limiter in front of every route of an httpserver: one bucket   *)
(* for all requests and one for each X-User-Id, the latter made when first *)
(* needed and removed when idle.  Source: TokenBucket in                   *)
(* src/internal/http/middleware/ratelimit.go, whose parameters router.go   *)
(* gives (200, 400, 20, 40).                                               *)
(*                                                                         *)
(* A request's passage is one step: the global bucket has a lock of its    *)
(* own, the rest is one critical section, and nothing read in the first is *)
(* used in the second.  golang.org/x/time/rate computes a bucket's tokens  *)
(* when asked; here they grow with the clock, which comes to the same.     *)
(***************************************************************************)
EXTENDS Integers

CONSTANTS
  Users,        \* values of X-User-Id
  NoUser,       \* the header is absent
  GlobalRate,   \* tokens the global bucket gains per unit of time
  GlobalBurst,  \* tokens it holds at most
  UserRate,     \* the same of a user's bucket
  UserBurst,
  TTL,          \* ttl, 10 minutes in the code
  MaxClock,     \* bound on the clock, for TLC
  MaxStarts     \* bound on the starts of the process, for TLC

\* In the code 40 tokens, 20 per second, 600 seconds.  A bucket that has been idle
\* for longer than the TTL has been so for TTL + 1 units of time.
ASSUME LimitAssumption ==
  /\ NoUser \notin Users
  /\ GlobalRate \in Nat /\ GlobalBurst \in Nat
  /\ UserRate \in Nat /\ UserBurst \in Nat /\ TTL \in Nat
  /\ UserBurst <= UserRate * (TTL + 1)

VARIABLES
  clock,     \* time.Now() of the process
  global,    \* tokens of the global bucket
  byUser,    \* the users that have a bucket: its tokens and lastSeen
  cleaned,   \* when idle buckets were last removed
  starts     \* how often the process has been started

limitVars == <<clock, global, byUser, cleaned, starts>>

Capped(n, burst) == IF n > burst THEN burst ELSE n

LimitTypeOK ==
  /\ clock \in Nat /\ starts \in Nat
  /\ global \in 0 .. GlobalBurst
  /\ DOMAIN byUser \subseteq Users
  /\ \A u \in DOMAIN byUser :
       byUser[u] \in [tokens: 0 .. UserBurst, lastSeen: 0 .. clock]
  /\ cleaned \in 0 .. clock

NoBuckets == [u \in {} |-> [tokens |-> 0, lastSeen |-> 0]]

LimitInit ==
  /\ clock = 0 /\ starts = 1
  /\ global = GlobalBurst
  /\ byUser = NoBuckets
  /\ cleaned = 0

-----------------------------------------------------------------------------
(* A request with header u, or NoUser *)

\* A user without a bucket gets a full one.
Tokens(u) == IF u \in DOMAIN byUser THEN byUser[u].tokens ELSE UserBurst

GlobalAllows == global >= 1
UserAllows(u) == u = NoUser \/ Tokens(u) >= 1

Passes(u) == GlobalAllows /\ UserAllows(u)

CleanupDue == clock - cleaned > TTL

\* Mutant: a bucket is taken for idle by the age of the last cleanup.
IdleByCleanup(u) == {v \in DOMAIN byUser \ {u} : clock - cleaned > TTL}

\* Buckets other than u's, which is seen right now, that nobody has used for a TTL.
Idle(u) == {v \in DOMAIN byUser \ {u} : clock - byUser[v].lastSeen > TTL}

\* Mutant: cleaned moves with every request.
CleanedAfterAlways == clock

\* When cleaned is after a request that found the clock as it is.
CleanedAfter == IF CleanupDue THEN clock ELSE cleaned

\* Mutant: a refused request takes a token too.
UsedBucketOverdrawn(u) == [tokens |-> Tokens(u) - 1, lastSeen |-> clock]

\* Allow of u's bucket.
UsedBucket(u) ==
  [tokens |-> IF Tokens(u) >= 1 THEN Tokens(u) - 1 ELSE Tokens(u), lastSeen |-> clock]

TokenBucket(u) ==
  /\ global' = IF GlobalAllows THEN global - 1 ELSE global
  /\ IF GlobalAllows /\ u # NoUser
     THEN LET kept == (DOMAIN byUser \cup {u}) \ (IF CleanupDue THEN Idle(u) ELSE {}) IN
          /\ byUser' = [v \in kept |-> IF v = u THEN UsedBucket(u) ELSE byUser[v]]
          /\ cleaned' = CleanedAfter
     ELSE UNCHANGED <<byUser, cleaned>>
  /\ UNCHANGED <<clock, starts>>

-----------------------------------------------------------------------------

Tick ==
  /\ clock < MaxClock
  /\ clock' = clock + 1
  /\ global' = Capped(global + GlobalRate, GlobalBurst)
  /\ byUser' = [v \in DOMAIN byUser |->
       [byUser[v] EXCEPT !.tokens = Capped(@ + UserRate, UserBurst)]]
  /\ UNCHANGED <<cleaned, starts>>

\* A new process starts with a new limiter.
FreshLimiter ==
  /\ starts < MaxStarts
  /\ starts' = starts + 1
  /\ global' = GlobalBurst
  /\ byUser' = NoBuckets
  /\ cleaned' = clock
  /\ UNCHANGED clock

LimitNext ==
  \/ \E u \in Users \cup {NoUser} : TokenBucket(u)
  \/ Tick
  \/ FreshLimiter

LimitSpec == LimitInit /\ [][LimitNext]_limitVars

-----------------------------------------------------------------------------
(* Properties *)

Buckets == INSTANCE UserBuckets WITH level <- [u \in Users |-> Tokens(u)]

\* Removing buckets is invisible: no user ever has more tokens, or fewer, than
\* if every bucket had been kept since the process started.
CleanupInvisible == Buckets!Spec

\* Why: a bucket idle for longer than the TTL is full again.
BucketsRefill ==
  \A u \in DOMAIN byUser :
    byUser[u].tokens >= Capped(UserRate * (clock - byUser[u].lastSeen), UserBurst)

\* The buckets cannot pile up: after a request with a header none is left that
\* was idle for twice the TTL, although only requests remove them.
IdleBucketsRemoved ==
  [][byUser' # byUser /\ clock' = clock =>
       \A v \in DOMAIN byUser' : clock - byUser'[v].lastSeen <= 2 * TTL]_limitVars
=============================================================================
