----------------------------- MODULE StoreParity -----------------------------
(***************************************************************************)
(* The two stores side by side, given the same requests one at a time: what*)
(* a test that runs against the memory store tells about the Redis store.  *)
(*                                                                         *)
(* A request runs through the commands of RedisStore while no other one    *)
(* does, and the clock stands still meanwhile; the method of MemoryStore   *)
(* runs when the request begins.                                           *)
(*                                                                         *)
(* The memory store ignores idempotency keys, so requests carry none here. *)
(* It does not compare the caller with the owner either: a poll that a     *)
(* stranger has closed or deleted there counts as diverged, and is only  *)
(* read from then on: the memory store is in a state in which its creator  *)
(* could have put it.                                                      *)
(***************************************************************************)
EXTENDS RedisStore, PollLists

CONSTANTS
  Limits,      \* polls a list may be asked to hold (1 to 100 in the code)
  Fractions,   \* values of crc32(id) % 1e6 in a score (a million in the code)
  Fraction     \* crc32(id) % 1e6 of each poll id

ASSUME ScoreAssumption ==
  /\ Limits \subseteq Nat \ {0} /\ Fractions \in Nat \ {0}
  /\ Fraction \in [Polls -> 0 .. Fractions - 1]

VARIABLES
  memPolls, memCounts, memBallots, memCreated,
  memReply,   \* what the memory store answered to each request
  diverged    \* polls closed or deleted by a stranger, in the memory store only

memStoreVars == <<memPolls, memCounts, memBallots, memCreated>>
memVars == <<memStoreVars, memReply, diverged>>
parityVars == <<vars, memVars>>

Mem == INSTANCE MemoryStore WITH
  polls <- memPolls,
  counts <- memCounts,
  ballots <- memBallots,
  created <- memCreated,
  drawn <- usedIds

ParityInit ==
  /\ Init
  /\ Mem!StoreInit
  /\ memReply = [self \in Procs |-> "none"]
  /\ diverged = {}

Quiet == \A self \in Procs : pc[self] = "idle"

\* Only the Redis store refuses this request.
ByStranger(r) ==
  /\ r.op \in {"close", "delete"}
  /\ memPolls[r.poll].present
  /\ r.user # memPolls[r.poll].createdBy

MemAnswer(r) ==
  CASE r.op = "vote" -> Mem!VoteAnswer(r.poll, r.user, r.option)
    [] r.op = "undo" -> Mem!UndoAnswer(r.poll, r.user)
    [] OTHER -> Mem!PresentAnswer(r.poll)

MemMethod(r) ==
  \/ r.op = "vote" /\ Mem!Vote(r.poll, r.user, r.option)
  \/ r.op = "undo" /\ Mem!UndoVote(r.poll, r.user)
  \/ r.op = "close" /\ Mem!ClosePoll(r.poll, r.user)
  \/ r.op = "delete" /\ Mem!DeletePoll(r.poll, r.user)
  \/ r.op = "get" /\ UNCHANGED memStoreVars

BeginBoth(self, r) ==
  /\ Quiet
  /\ r.key = NoKey
  /\ r.poll \in diverged => r.op = "get"
  /\ Begin(self, r)
  /\ MemMethod(r)
  /\ memReply' = [memReply EXCEPT ![self] = MemAnswer(r)]
  /\ diverged' = IF ByStranger(r) THEN diverged \cup {r.poll} ELSE diverged

\* The memory store's answer is kept until the Redis store's has been given.
StepBoth(self) ==
  /\ Step(self)
  /\ memReply' = [memReply EXCEPT ![self] = IF pc'[self] = "idle" THEN "none" ELSE @]
  /\ UNCHANGED <<memStoreVars, diverged>>

CreateBoth(p, u, opts, e, public) ==
  /\ Quiet
  /\ Create(p, u, opts, e, public)
  /\ Mem!CreatePoll(p, u, opts, e, public)
  /\ UNCHANGED <<memReply, diverged>>

ParityNext ==
  \/ \E self \in Procs :
       \/ \E r \in Requests : BeginBoth(self, r)
       \/ StepBoth(self)
  \/ \E p \in Polls, u \in Users, opts \in OptionLists, e \in ExpiryTicks,
        public \in Visibility : CreateBoth(p, u, opts, e, public)
  \/ Quiet /\ Tick /\ UNCHANGED memVars

ParitySpec == ParityInit /\ [][ParityNext]_parityVars

-----------------------------------------------------------------------------
(* Properties *)

\* Both stores give every request the same answer, whatever was asked before,
\* until a stranger closes or deletes the poll.
SameAnswers ==
  \A self \in Procs :
    pc[self] = "done" /\ req[self].poll \notin diverged => reply[self] = memReply[self]

\* Between requests both stores hold the same polls, ballots, counts and lists
\* of created polls, and agree on which polls no longer take votes.
SameState ==
  Quiet =>
    \A p \in Polls \ diverged :
      /\ Live(p) <=> memPolls[p].present
      /\ meta[p].createdBy = memPolls[p].createdBy
      /\ votes[p] = memCounts[p]
      /\ \A u \in Users : /\ Ballot(p, u) = memBallots[p][u]
                          /\ p \in createdPolls[u] <=> p \in memCreated[u]
      /\ Live(p) => (meta[p].isClosed \/ PastExpiry(meta[p]) <=> Mem!Ended(p))

(* The lists, between requests and while the stores hold the same polls *)

\* Both give a poll the same score, from the service's created_at.
Score == Mem!Score

Shown(kind, u, closedToo) == {p \in Source(kind, u) : Shows(kind, u, closedToo, p)}

\* The same polls are selected, but that the memory store goes on showing an
\* expired poll as open.
SameSelection(kind, u, closedToo) ==
  Shown(kind, u, closedToo) =
    {p \in Mem!Listed(kind, u, closedToo) : kind = "votes" \/ closedToo \/ ~Mem!Ended(p)}

\* What the memory store cuts at the limit is an answer Redis may give as well.
SameCut(kind, u, limit) ==
  Mem!Lists(kind, u, TRUE, limit) \subseteq Cut(Shown(kind, u, TRUE), limit)

\* A page of "mine" has the same rows and cursor when closed polls are wanted.
\* When not, Redis filters after the cut: its page may be short, never wrong.
SamePages(u, limit, cursor) ==
  /\ RangePages(u, limit, cursor, Score) = Mem!MinePages(u, TRUE, limit, cursor)
  /\ \A page \in RangePages(u, limit, cursor, Score) :
       \E memPage \in Mem!MinePages(u, FALSE, limit, cursor) :
         page.rows \cap Shown("mine", u, FALSE) \subseteq memPage.rows

\* A list asked of either store, after whatever requests, shows the same polls,
\* cuts them alike and continues its pages alike.
SameLists ==
  Quiet /\ diverged = {} =>
    \A u \in Users :
      /\ \A kind \in {"all", "public", "votes", "mine"} :
           /\ \A closedToo \in BOOLEAN : SameSelection(kind, u, closedToo)
           /\ \A limit \in Limits : SameCut(kind, u, limit)
      /\ \A limit \in Limits, cursor \in {NoCursor} \cup {Score[p] : p \in pollsIndex} :
           SamePages(u, limit, cursor)

\* What MemoryStore states of itself, strangers included: that it keeps the
\* service's promise but for the owner, and that ballots change only while their
\* poll is open.
MemImplementsVoting == Mem!ImplementsVoting
MemBallotsOnlyWhileOpen == Mem!BallotsOnlyWhileOpen

-----------------------------------------------------------------------------
(* Why they hold: the invariant that every step preserves *)

OneAtATime == \A i, j \in Procs : pc[i] # "idle" /\ pc[j] # "idle" => i = j

\* The request has been carried out by the memory store, not yet by Redis.
Ahead(self) == pc[self] \in Reads \cup {"script", "write"} /\ ~answering[self]

Dropping(self, p) == pc[self] \in Drops /\ req[self].poll = p

\* What Redis holds of poll p when requests do not overlap: no deleted hash comes
\* back, and only a DeletePoll under way leaves a deleted poll in a list.
PollAlone(p) ==
  /\ meta[p].present => Live(p)
  /\ \A u \in Users : userVotes[u][p] # NoOption =>
                        p \in usedIds /\ (Live(p) => u \in voters[p])
  /\ p \in pollsIndex => Live(p) \/ \E self \in Procs : Dropping(self, p) /\ pc[self] = "dropIndex"
  /\ p \in publicIndex =>
       Live(p) \/ \E self \in Procs : Dropping(self, p) /\ pc[self] # "dropCreated"
  /\ \A u \in Users : p \in createdPolls[u] =>
       \/ Live(p) /\ meta[p].createdBy = u
       \/ \E self \in Procs : Dropping(self, p) /\ req[self].user = u

\* What a request knows that runs alone and has no key.
RunsAlone(self) ==
  LET r == req[self] IN
  /\ r.key = NoKey /\ pc[self] \notin {"checkKey", "markKey"}
  /\ pc[self] = "script" => r.op \in {"vote", "undo"} /\ ~answering[self]
  /\ pc[self] = "write" => r.op \in {"close", "delete"} /\ ~answering[self] /\ Live(r.poll)
  /\ pc[self] \in Drops => r.op = "delete"
  /\ pc[self] \in Reads /\ ~answering[self] => r.op \in {"close", "delete"}
  /\ pc[self] \in Reads /\ answering[self] =>
       r.op = "get" \/ (r.op \in {"vote", "undo", "close"} /\ Live(r.poll))
  /\ pc[self] \in {"readOptions", "readVotes"} => Live(r.poll) /\ view[self].meta = meta[r.poll]

SameMeta(p) ==
  /\ Live(p) <=> memPolls[p].present
  /\ meta[p].createdBy = memPolls[p].createdBy
  /\ Live(p) => /\ meta[p].expiresAt = memPolls[p].expiresAt
                /\ meta[p].isPublic = memPolls[p].isPublic
                /\ options[p] = memPolls[p].options

\* A ClosePoll that finds the poll expired closes it in the memory store only.
SameEnd(p) ==
  Live(p) => /\ meta[p].isClosed => memPolls[p].isClosed
             /\ memPolls[p].isClosed => meta[p].isClosed \/ PastExpiry(meta[p])

SameBallots(p) ==
  /\ memCounts[p] = votes[p]
  /\ \A u \in Users : memBallots[p][u] = Ballot(p, u)

\* The memory store has poll p as Redis will have it when u's ballot is o there.
BallotAhead(p, u, o, tally) ==
  /\ memCounts[p] = tally
  /\ \A v \in Users : memBallots[p][v] = IF v = u THEN o ELSE Ballot(p, v)

\* How the memory store is ahead of Redis.
AheadBy(self) ==
  LET r == req[self]
      p == r.poll
      ok == memReply[self] = "ok" IN
  /\ r.op \in {"vote", "undo", "close"} => SameMeta(p)
  /\ r.op \in {"vote", "undo"} => SameEnd(p) /\ (~ok => SameBallots(p))
  /\ r.op = "vote" =>
       /\ memReply[self] = VoteResult(p, r.user, r.option, NoKey)
       /\ ok => BallotAhead(p, r.user, r.option, [votes[p] EXCEPT ![r.option] = @ + 1])
  /\ r.op = "undo" =>
       /\ memReply[self] = UndoResult(p, r.user, NoKey)
       /\ ok => BallotAhead(p, r.user, NoOption,
                            [votes[p] EXCEPT ![userVotes[r.user][p]] = Decremented(@)])
  /\ r.op = "close" => SameBallots(p) /\ (Live(p) => memPolls[p].isClosed)
  /\ r.op = "delete" => ~memPolls[p].present
  /\ r.op \in {"close", "delete"} /\ Live(p) => meta[p].createdBy = r.user

\* The answer of the memory store is the one the request is heading for.
HeadsFor(self) ==
  LET r == req[self] IN
  /\ pc[self] \in Reads => memReply[self] = IF Live(r.poll) THEN "ok" ELSE "notfound"
  /\ pc[self] \in Drops \cup {"write"} => memReply[self] = "ok"
  /\ pc[self] = "done" => memReply[self] = reply[self]
  /\ Ahead(self) => AheadBy(self)

\* A poll is diverged from when a stranger asks, whom Redis refuses.
StrangerKnows(self) ==
  LET r == req[self] IN
  r.op # "get" => /\ pc[self] \in Reads \cup {"done"} /\ Live(r.poll)
                  /\ pc[self] \in Reads => ~answering[self]
                  /\ meta[r.poll].createdBy # r.user

\* The inductive invariant: each store's keys or maps agree about every poll, and
\* the stores agree about the polls that no request under way has changed in one.
ParityInv ==
  /\ IndInv
  /\ Mem!MapsInv
  /\ OneAtATime
  /\ memReply \in [Procs -> Replies] /\ diverged \subseteq Polls
  /\ \A p \in Polls : PollAlone(p)
  /\ \A self \in Procs : pc[self] # "idle" =>
       /\ RunsAlone(self)
       /\ IF req[self].poll \in diverged THEN StrangerKnows(self) ELSE HeadsFor(self)
  /\ \A p \in Polls \ diverged :
       (\A self \in Procs : ~(Ahead(self) /\ req[self].poll = p)) =>
         SameMeta(p) /\ SameEnd(p) /\ SameBallots(p)
=============================================================================
