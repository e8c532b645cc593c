----------------------------- MODULE MemoryStore -----------------------------
(***************************************************************************)
(* The store that grpcserver uses when REDIS_ADDR is not set: maps behind  *)
(* one RWMutex.  Source: src/internal/store/memory/memory.go.              *)
(*                                                                         *)
(* Every method holds the mutex from its first line to its last, so each   *)
(* is one step.  Unlike the Redis store it neither compares the caller     *)
(* with the owner nor looks at idempotency keys.  The lists read under the *)
(* lock too: each is a set of answers, since the order of Go's maps and of *)
(* equal rows in its sort is arbitrary.                                    *)
(***************************************************************************)
EXTENDS Integers, FiniteSets, Pages

CONSTANTS
  Users, Polls, Options, NoUser, NoOption,
  OptionLists,    \* the option sets polls are created with
  ExpiryTicks,    \* the expiry instants polls are created with
  MinLeadTicks,   \* how far ahead an expiry must lie
  TicksPerSecond, \* clock ticks in a second
  Fractions,      \* values of crc32(id) % 1e6 in a score (a million in the code)
  Fraction,       \* crc32(id) % 1e6 of each poll id
  MaxTime         \* bound on the clock, for TLC

VARIABLES
  polls,     \* the metadata of each poll in the map
  counts,    \* its Votes map, 0 for a missing entry
  ballots,   \* votes[pollID][userID], NoOption for a missing entry
  created,   \* created[userID]
  drawn,     \* poll ids drawn so far: uuids do not repeat
  now        \* the wall clock

storeVars == <<polls, counts, ballots, created, drawn>>
vars == <<storeVars, now>>

NoPoll == [present |-> FALSE, createdBy |-> NoUser, isClosed |-> FALSE,
           expiresAt |-> 0, options |-> {}, isPublic |-> FALSE, createdAt |-> 0]

NoBallots == [u \in Users |-> NoOption]
NoCounts == [o \in Options |-> 0]

\* Every variable holds a value of its type; only a poll's own options have votes.
TypeOK ==
  /\ polls \in [Polls -> [present: BOOLEAN, createdBy: Users \cup {NoUser},
                          isClosed: BOOLEAN, expiresAt: Nat, options: SUBSET Options,
                          isPublic: BOOLEAN, createdAt: Nat]]
  /\ counts \in [Polls -> [Options -> Nat]]
  /\ \A p \in Polls : \A o \in Options \ polls[p].options : counts[p][o] = 0
  /\ ballots \in [Polls -> [Users -> Options \cup {NoOption}]]
  /\ created \in [Users -> SUBSET Polls]
  /\ drawn \subseteq Polls
  /\ now \in Nat

StoreInit ==
  /\ polls = [p \in Polls |-> NoPoll]
  /\ counts = [p \in Polls |-> NoCounts]
  /\ ballots = [p \in Polls |-> NoBallots]
  /\ created = [u \in Users |-> {}]
  /\ drawn = {}

Init == StoreInit /\ now = 1

\* What the maps hold of poll p, before its creation, in its life and after.
PollMaps(p) ==
  /\ polls[p].present => p \in drawn /\ polls[p].createdBy \in Users
  /\ ~polls[p].present => polls[p] = NoPoll /\ counts[p] = NoCounts /\ ballots[p] = NoBallots
  /\ \A o \in Options : counts[p][o] = Cardinality({u \in Users : ballots[p][u] = o})
  /\ \A u \in Users : p \in created[u] <=> polls[p].present /\ polls[p].createdBy = u

\* The inductive invariant: the maps agree about every poll.
MapsInv == TypeOK /\ \A p \in Polls : PollMaps(p)

-----------------------------------------------------------------------------
(* What each method answers *)

Ended(p) == polls[p].isClosed \/ now > polls[p].expiresAt

\* Mutant: the ballot is looked up before the poll's state.
VoteAnswerBallotFirst(p, u, o) ==
  IF ~polls[p].present THEN "notfound"
  ELSE IF ballots[p][u] # NoOption THEN "conflict"
  ELSE IF Ended(p) THEN "forbidden"
  ELSE IF o \notin polls[p].options THEN "invalid" ELSE "ok"

\* Mutant: any text is taken for an option.
VoteAnswerAnyOption(p, u, o) ==
  IF ~polls[p].present THEN "notfound"
  ELSE IF Ended(p) THEN "forbidden"
  ELSE IF ballots[p][u] # NoOption THEN "conflict" ELSE "ok"

VoteAnswer(p, u, o) ==
  IF ~polls[p].present THEN "notfound"
  ELSE IF Ended(p) THEN "forbidden"
  ELSE IF ballots[p][u] # NoOption THEN "conflict"
  ELSE IF o \notin polls[p].options THEN "invalid" ELSE "ok"

\* Mutant: an undo does not look at the poll's state.
UndoAnswerAnytime(p, u) ==
  IF ~polls[p].present THEN "notfound"
  ELSE IF ballots[p][u] = NoOption THEN "conflict" ELSE "ok"

UndoAnswer(p, u) ==
  IF ~polls[p].present THEN "notfound"
  ELSE IF Ended(p) THEN "forbidden"
  ELSE IF ballots[p][u] = NoOption THEN "conflict" ELSE "ok"

PresentAnswer(p) == IF polls[p].present THEN "ok" ELSE "notfound"

-----------------------------------------------------------------------------
(* The lists.  Kinds as in PollLists: "all" is SearchPolls and GetPollStats, *)
(* "public" ListPublicPolls and ListPublicPollStats, "votes" GetMyVotes,     *)
(* "mine" ListMyCreatedPollStats.                                            *)

\* The polls a list selects: a poll past its expiry that nobody has closed
\* counts as open here.
Listed(kind, u, closedToo) ==
  {p \in Polls :
     /\ polls[p].present
     /\ kind = "public" => polls[p].isPublic
     /\ kind = "votes" => ballots[p][u] # NoOption
     /\ kind = "mine" => p \in created[u]
     /\ kind = "votes" \/ closedToo \/ ~polls[p].isClosed}

CreatedAt == [p \in Polls |-> polls[p].createdAt]

\* The answers of a list without a cursor: its newest polls.
Lists(kind, u, closedToo, limit) == TopRows(Listed(kind, u, closedToo), limit, CreatedAt)

\* createdScore
Score ==
  [p \in Polls |-> (polls[p].createdAt \div TicksPerSecond) * Fractions + Fraction[p]]

\* Mutant: the poll the last page ended with is not skipped.
AfterCursorInclusive(p, cursor) == cursor = NoCursor \/ ~(Score[p] > cursor)

\* Polls from the cursor's score on were on earlier pages.
AfterCursor(p, cursor) == cursor = NoCursor \/ ~(Score[p] >= cursor)

\* The pages ListMyCreatedPollStats may give: it filters before it cuts, and a
\* cursor is given only when something follows.
MinePages(u, closedToo, limit, cursor) ==
  LET ids == {p \in Listed("mine", u, closedToo) : AfterCursor(p, cursor)} IN
  {[rows |-> top,
    next |-> IF Cardinality(ids) > limit THEN Lowest({Score[p] : p \in top}) ELSE NoCursor]
     : top \in TopRows(ids, limit, Score)}

-----------------------------------------------------------------------------
(* The methods that write *)

CreatePoll(p, u, opts, e, public) ==
  /\ p \notin drawn
  /\ e >= now + MinLeadTicks
  /\ polls' = [polls EXCEPT ![p] = [present |-> TRUE, createdBy |-> u,
       isClosed |-> FALSE, expiresAt |-> e, options |-> opts,
       isPublic |-> public, createdAt |-> now]]
  /\ created' = [created EXCEPT ![u] = @ \cup {p}]
  /\ drawn' = drawn \cup {p}
  /\ UNCHANGED <<counts, ballots>>

\* Anyone's request closes the poll, an expired one included.
ClosePoll(p, u) ==
  /\ polls' = IF polls[p].present THEN [polls EXCEPT ![p].isClosed = TRUE] ELSE polls
  /\ UNCHANGED <<counts, ballots, created, drawn>>

\* Mutant: the poll's votes stay in the map.
DeletedKeepsBallots(p, u) ==
  IF polls[p].present
  THEN /\ polls' = [polls EXCEPT ![p] = NoPoll]
       /\ counts' = [counts EXCEPT ![p] = NoCounts]
       /\ created' = [created EXCEPT ![polls[p].createdBy] = @ \ {p}]
       /\ UNCHANGED <<ballots, drawn>>
  ELSE UNCHANGED storeVars

\* Anyone's request deletes the poll and its votes.
DeletePoll(p, u) ==
  IF polls[p].present
  THEN /\ polls' = [polls EXCEPT ![p] = NoPoll]
       /\ counts' = [counts EXCEPT ![p] = NoCounts]
       /\ ballots' = [ballots EXCEPT ![p] = NoBallots]
       /\ created' = [created EXCEPT ![polls[p].createdBy] = @ \ {p}]
       /\ UNCHANGED drawn
  ELSE UNCHANGED storeVars

Vote(p, u, o) ==
  IF VoteAnswer(p, u, o) = "ok"
  THEN /\ ballots' = [ballots EXCEPT ![p][u] = o]
       /\ counts' = [counts EXCEPT ![p][o] = @ + 1]
       /\ UNCHANGED <<polls, created, drawn>>
  ELSE UNCHANGED storeVars

\* Votes[opt]--, and the entry is deleted when nothing is left.
Less(n) == IF n - 1 <= 0 THEN 0 ELSE n - 1

UndoVote(p, u) ==
  IF UndoAnswer(p, u) = "ok"
  THEN /\ ballots' = [ballots EXCEPT ![p][u] = NoOption]
       /\ counts' = [counts EXCEPT ![p][ballots[p][u]] = Less(@)]
       /\ UNCHANGED <<polls, created, drawn>>
  ELSE UNCHANGED storeVars

-----------------------------------------------------------------------------

Tick ==
  /\ now < MaxTime
  /\ now' = now + 1
  /\ UNCHANGED storeVars

Next ==
  \/ \E p \in Polls, u \in Users :
       /\ \/ \E opts \in OptionLists, e \in ExpiryTicks, public \in BOOLEAN :
               CreatePoll(p, u, opts, e, public)
          \/ ClosePoll(p, u)
          \/ DeletePoll(p, u)
          \/ \E o \in Options : Vote(p, u, o)
          \/ UndoVote(p, u)
       /\ UNCHANGED now
  \/ Tick

Spec == Init /\ [][Next]_vars

-----------------------------------------------------------------------------
(* Properties *)

Status(p) ==
  IF p \notin drawn THEN "none"
  ELSE IF ~polls[p].present THEN "deleted"
  ELSE IF polls[p].isClosed THEN "closed" ELSE "open"

Voting == INSTANCE VotingSpec WITH
  OwnerOnly <- FALSE,
  status <- [p \in Polls |-> Status(p)],
  owner <- [p \in Polls |-> polls[p].createdBy],
  ballots <- ballots,
  result <- counts

\* The methods do to polls, ballots and counts what the service promises, only
\* that any user may close and delete.
ImplementsVoting == Voting!Spec

\* A ballot changes only while its poll is open and not past its expiry, or
\* goes when the poll is deleted.
BallotsOnlyWhileOpen ==
  [][\A p \in Polls : ballots'[p] # ballots[p] =>
       ~Ended(p) \/ (polls[p].present /\ ~polls'[p].present)]_vars
=============================================================================
