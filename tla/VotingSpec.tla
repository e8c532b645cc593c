------------------------------ MODULE VotingSpec ------------------------------
(***************************************************************************)
(* What the voting service promises, with every operation a single step:   *)
(* a poll is created once, by an owner, collects at most one ballot of     *)
(* each user while it is open, is closed and deleted only by its owner,    *)
(* and its published result is at every moment the count of its ballots.   *)
(* Once a poll is closed its ballots no longer change, and once deleted it *)
(* stays deleted.                                                          *)
(*                                                                         *)
(* This is the Store interface of src/internal/service/service.go as its   *)
(* callers understand it.  RedisStore implements it with OwnerOnly,        *)
(* MemoryStore without: that store lets any user close and delete.         *)
(***************************************************************************)
EXTENDS Integers, FiniteSets

CONSTANTS
  Users, Polls, Options, NoUser, NoOption,
  OwnerOnly   \* TRUE when only its owner may close or delete a poll

VARIABLES
  status,    \* "none", "open", "closed" or "deleted", of each poll
  owner,     \* the user who created it
  ballots,   \* the option each user has chosen, NoOption for no ballot
  result     \* the published number of votes of each option

vars == <<status, owner, ballots, result>>

Tally(b) == [o \in Options |-> Cardinality({u \in Users : b[u] = o})]

NoBallots == [u \in Users |-> NoOption]

Init ==
  /\ status = [p \in Polls |-> "none"]
  /\ owner = [p \in Polls |-> NoUser]
  /\ ballots = [p \in Polls |-> NoBallots]
  /\ result = [p \in Polls |-> [o \in Options |-> 0]]

SetBallot(p, u, o) ==
  /\ ballots' = [ballots EXCEPT ![p][u] = o]
  /\ result' = [result EXCEPT ![p] = Tally(ballots'[p])]

Create(p, u) ==
  /\ status[p] = "none"
  /\ status' = [status EXCEPT ![p] = "open"]
  /\ owner' = [owner EXCEPT ![p] = u]
  /\ UNCHANGED <<ballots, result>>

Cast(p, u, o) ==
  /\ status[p] = "open"
  /\ ballots[p][u] = NoOption
  /\ SetBallot(p, u, o)
  /\ UNCHANGED <<status, owner>>

Retract(p, u) ==
  /\ status[p] = "open"
  /\ ballots[p][u] # NoOption
  /\ SetBallot(p, u, NoOption)
  /\ UNCHANGED <<status, owner>>

Close(p, u) ==
  /\ status[p] = "open"
  /\ OwnerOnly => owner[p] = u
  /\ status' = [status EXCEPT ![p] = "closed"]
  /\ UNCHANGED <<owner, ballots, result>>

Delete(p, u) ==
  /\ status[p] \in {"open", "closed"}
  /\ OwnerOnly => owner[p] = u
  /\ status' = [status EXCEPT ![p] = "deleted"]
  /\ owner' = [owner EXCEPT ![p] = NoUser]
  /\ ballots' = [ballots EXCEPT ![p] = NoBallots]
  /\ result' = [result EXCEPT ![p] = [o \in Options |-> 0]]

Next ==
  \E p \in Polls, u \in Users :
    \/ Create(p, u)
    \/ \E o \in Options : Cast(p, u, o)
    \/ Retract(p, u)
    \/ Close(p, u)
    \/ Delete(p, u)

Spec == Init /\ [][Next]_vars
=============================================================================
