------------------------------ MODULE UserBuckets ------------------------------
(***************************************************************************)
(* What the per-user limit promises: every user has a bucket of UserBurst  *)
(* tokens from the start of the process to its end, refilled with time, and*)
(* each request let through takes one.  Nothing is ever forgotten here.    *)
(* RateLimit implements it with buckets that come and go.                  *)
(***************************************************************************)
EXTENDS Integers

CONSTANTS
  Users,
  UserRate,   \* tokens a bucket gains per unit of time
  UserBurst   \* tokens it holds at most

VARIABLES
  level,   \* the tokens of each user
  clock,
  starts   \* how often the process has been started

vars == <<level, clock, starts>>

Capped(n) == IF n > UserBurst THEN UserBurst ELSE n

Full == [u \in Users |-> UserBurst]

Init == level = Full /\ clock = 0 /\ starts = 1

Take(u) ==
  /\ level[u] > 0
  /\ level' = [level EXCEPT ![u] = @ - 1]
  /\ UNCHANGED <<clock, starts>>

Refill ==
  /\ level' = [u \in Users |-> Capped(level[u] + UserRate)]
  /\ clock' = clock + 1
  /\ UNCHANGED starts

Restart == level' = Full /\ starts' = starts + 1 /\ UNCHANGED clock

Next == (\E u \in Users : Take(u)) \/ Refill \/ Restart

Spec == Init /\ [][Next]_vars
=============================================================================
