------------------------------ MODULE RedisStore ------------------------------
(***************************************************************************)
(* The requests the gRPC servers have in flight, and the commands each of  *)
(* them sends to Redis, one at a time.  Source: the methods of             *)
(* src/internal/store/redis/store.go, reached through the service layer    *)
(* (src/internal/service/service.go), which keeps no state of its own.     *)
(*                                                                         *)
(* A process is one request on any of the server pods.  Between two of its *)
(* commands every other request may run, the clock may move, and, when     *)
(* Faulty holds, the request may end with an error (Redis unreachable,     *)
(* context cancelled, pod restarted) or a command whose answer was lost    *)
(* may be sent again by the client library.                                *)
(***************************************************************************)
EXTENDS RedisKeyspace

CONSTANTS
  Visibility,    \* whether polls are created public, private or either
  Procs,         \* requests that can be in flight at once
  Ops,           \* the operations clients request
  OptionLists,   \* the option sets polls are created with
  ExpiryTicks,   \* the expiry instants polls are created with
  MinLeadTicks,  \* how far ahead an expiry must lie (30 s in the code)
  KeysUnique,    \* clients give each logical request a key of its own
  Faulty         \* commands may fail or be sent twice

AllOps == {"get", "vote", "undo", "close", "delete"}

ASSUME OpsAssumption == Ops \subseteq AllOps
ASSUME OptionListsAssumption ==
  \A l \in OptionLists : l \subseteq Options /\ l # {}
ASSUME ExpiryAssumption ==
  ExpiryTicks \subseteq Nat /\ MinLeadTicks \in Nat /\ MinLeadTicks >= TicksPerSecond
ASSUME ModeAssumption ==
  KeysUnique \in BOOLEAN /\ Faulty \in BOOLEAN /\ Visibility \subseteq BOOLEAN

VARIABLES
  pc,         \* the next command of each request
  req,        \* the request
  answering,  \* the getPoll under way produces the answer, not an owner check
  view,       \* what that getPoll has read so far
  reply,      \* how the request ended
  usedIds,    \* poll ids drawn so far: uuids do not repeat
  keyUse,     \* the logical request each key was given to
  lastEffect  \* when a script last took effect under each key; 0 for never

procVars == <<pc, req, answering, view, reply>>
ghostVars == <<usedIds, keyUse, lastEffect>>
vars == <<keyVars, now, procVars, ghostVars>>

-----------------------------------------------------------------------------
(* Requests and types *)

\* Only a vote names an option; a read carries no key.
Requests ==
  {r \in [op: Ops, user: Users, poll: Polls,
          option: Options \cup {NoOption}, key: Keys \cup {NoKey}] :
     /\ r.option # NoOption <=> r.op = "vote"
     /\ r.op = "get" => r.key = NoKey}

NoRequest == [op |-> "none", user |-> NoUser, option |-> NoOption, key |-> NoKey]

Labels == {"idle", "script", "readMeta", "readOptions", "readVotes", "checkKey",
           "write", "dropIndex", "dropPublic", "dropCreated", "markKey", "done"}

Replies == {"none", "ok", "notfound", "forbidden", "conflict", "invalid", "error"}

View == [meta: Meta, options: SUBSET Options, fields: SUBSET Options]

NoView == [meta |-> NoMeta, options |-> {}, fields |-> {}]

\* Every variable holds a value of its type, and a request is present exactly
\* while its process is busy.
TypeOK ==
  /\ KeyspaceTypeOK
  /\ pc \in [Procs -> Labels]
  /\ req \in [Procs -> Requests \cup {NoRequest}]
  /\ answering \in [Procs -> BOOLEAN]
  /\ view \in [Procs -> View]
  /\ reply \in [Procs -> Replies]
  /\ usedIds \subseteq Polls
  /\ keyUse \in [Users -> [Keys -> Requests \cup {NoRequest}]]
  /\ lastEffect \in [Users -> [Keys -> Nat]]
  /\ \A self \in Procs : pc[self] = "idle" <=> req[self] = NoRequest

Init ==
  /\ KeyspaceInit
  /\ pc = [self \in Procs |-> "idle"]
  /\ req = [self \in Procs |-> NoRequest]
  /\ answering = [self \in Procs |-> FALSE]
  /\ view = [self \in Procs |-> NoView]
  /\ reply = [self \in Procs |-> "none"]
  /\ usedIds = {}
  /\ keyUse = [u \in Users |-> [k \in Keys |-> NoRequest]]
  /\ lastEffect = [u \in Users |-> [k \in Keys |-> 0]]

-----------------------------------------------------------------------------
(* How a request moves on *)

Goto(self, label) == pc' = [pc EXCEPT ![self] = label]

\* The request ends with this status and no poll.
Answer(self, status) ==
  /\ Goto(self, "done")
  /\ reply' = [reply EXCEPT ![self] = status]
  /\ view' = [view EXCEPT ![self] = NoView]

\* The request succeeds and its answer is the poll that getPoll has read.
AnswerPoll(self, v) ==
  /\ Goto(self, "done")
  /\ reply' = [reply EXCEPT ![self] = "ok"]
  /\ view' = [view EXCEPT ![self] = v]

\* The answer of an idempotent command arrives and the request goes on, or it
\* is lost and the command is sent again.
Advance(self, label) ==
  \/ Goto(self, label)
  \/ Faulty /\ UNCHANGED pc

StartRead(self, forAnswer) ==
  /\ answering' = [answering EXCEPT ![self] = forAnswer]
  /\ view' = [view EXCEPT ![self] = NoView]

-----------------------------------------------------------------------------
(* A request arrives *)

KeyFree(r) ==
  (r.key \in Keys /\ KeysUnique) => keyUse[r.user][r.key] \in {NoRequest, r}

\* The service's handlers pass a validated request to the store; a client may
\* send the same request again, with the same key, at any time.
Begin(self, r) ==
  /\ pc[self] = "idle"
  /\ KeyFree(r)
  /\ Goto(self, IF r.op \in {"vote", "undo"} THEN "script" ELSE "readMeta")
  /\ req' = [req EXCEPT ![self] = r]
  /\ StartRead(self, r.op = "get")
  /\ keyUse' = IF r.key # NoKey /\ KeysUnique
               THEN [keyUse EXCEPT ![r.user][r.key] = r] ELSE keyUse
  /\ UNCHANGED <<keyVars, now, reply, usedIds, lastEffect>>

\* CreatePoll is one validated request and one MULTI/EXEC block: it has no
\* intermediate state, and whether its answer arrives changes nothing here.
Create(p, u, opts, e, public) ==
  /\ p \notin usedIds
  /\ e >= now + MinLeadTicks
  /\ CreateTx(p, u, opts, e, public)
  /\ usedIds' = usedIds \cup {p}
  /\ UNCHANGED <<now, procVars, keyUse, lastEffect>>

-----------------------------------------------------------------------------
(* Vote and UndoVote: one script, then getPoll for the answer *)

RecordEffect(r, result) ==
  lastEffect' = IF result = "ok" /\ r.key # NoKey
                THEN [lastEffect EXCEPT ![r.user][r.key] = now] ELSE lastEffect

\* A script that took effect, now or under this key before, is answered with
\* the poll; every other result is the answer.
ScriptReturns(self, result) ==
  /\ IF result \in {"ok", "noop"}
     THEN Goto(self, "readMeta") /\ StartRead(self, TRUE) /\ UNCHANGED reply
     ELSE Answer(self, result) /\ UNCHANGED answering

ScriptAnswered(self, result) ==
  \/ ScriptReturns(self, result)
  \/ Faulty /\ UNCHANGED <<pc, answering, view, reply>>

VoteStep(self) ==
  LET r == req[self]
      result == VoteResult(r.poll, r.user, r.option, r.key) IN
  /\ pc[self] = "script" /\ r.op = "vote"
  /\ VoteScript(r.poll, r.user, r.option, r.key)
  /\ RecordEffect(r, result)
  /\ ScriptAnswered(self, result)
  /\ UNCHANGED <<now, req, usedIds, keyUse>>

UndoStep(self) ==
  LET r == req[self]
      result == UndoResult(r.poll, r.user, r.key) IN
  /\ pc[self] = "script" /\ r.op = "undo"
  /\ UndoScript(r.poll, r.user, r.key)
  /\ RecordEffect(r, result)
  /\ ScriptAnswered(self, result)
  /\ UNCHANGED <<now, req, usedIds, keyUse>>

-----------------------------------------------------------------------------
(* getPoll: three HGETALLs, one after the other *)

ReadMeta(self) ==
  LET m == meta[req[self].poll] IN
  /\ pc[self] = "readMeta"
  /\ IF m.present
     THEN /\ view' = [view EXCEPT ![self].meta = m]
          /\ Goto(self, "readOptions")
          /\ UNCHANGED reply
     ELSE Answer(self, "notfound")
  /\ UNCHANGED <<keyVars, now, req, answering, ghostVars>>

ReadOptions(self) ==
  /\ pc[self] = "readOptions"
  /\ view' = [view EXCEPT ![self].options = options[req[self].poll]]
  /\ Goto(self, "readVotes")
  /\ UNCHANGED <<keyVars, now, req, answering, reply, ghostVars>>

\* Mutant: the owner is not compared.
AfterCheckNoOwner(self, v) ==
  LET r == req[self] IN
  IF r.op = "close" /\ v.meta.isClosed THEN AnswerPoll(self, v)
  ELSE /\ Goto(self, IF r.key = NoKey THEN "write" ELSE "checkKey")
       /\ view' = [view EXCEPT ![self] = NoView]
       /\ UNCHANGED reply

\* Mutant: DeletePoll cleans the lists before (and here without) the DEL.
AfterCheckListsFirst(self, v) ==
  LET r == req[self] IN
  IF v.meta.createdBy # r.user THEN Answer(self, "forbidden")
  ELSE IF r.op = "close" /\ v.meta.isClosed THEN AnswerPoll(self, v)
  ELSE /\ Goto(self, IF r.op = "delete" THEN "dropIndex" ELSE "write")
       /\ view' = [view EXCEPT ![self] = NoView]
       /\ UNCHANGED reply

\* What ClosePoll and DeletePoll do with the poll v they read first.
AfterCheck(self, v) ==
  LET r == req[self] IN
  IF v.meta.createdBy # r.user THEN Answer(self, "forbidden")
  ELSE IF r.op = "close" /\ v.meta.isClosed THEN AnswerPoll(self, v)
  ELSE /\ Goto(self, IF r.key = NoKey THEN "write" ELSE "checkKey")
       /\ view' = [view EXCEPT ![self] = NoView]
       /\ UNCHANGED reply

\* The poll as getPoll returns it, when the counts are read last and the expiry
\* is then compared with the clock.
PollRead(v, fields) ==
  [v EXCEPT !.fields = fields, !.meta.isClosed = ReadsClosed(v.meta)]

ReadVotes(self) ==
  LET v == PollRead(view[self], voteFields[req[self].poll]) IN
  /\ pc[self] = "readVotes"
  /\ IF answering[self] THEN AnswerPoll(self, v) ELSE AfterCheck(self, v)
  /\ UNCHANGED <<keyVars, now, req, answering, ghostVars>>

-----------------------------------------------------------------------------
(* ClosePoll and DeletePoll after the owner check *)

\* idemOK: a key already marked ends the request, with a fresh read for Close.
KeyChecked(self, seen) ==
  IF ~seen THEN Goto(self, "write") /\ UNCHANGED <<answering, view, reply>>
  ELSE IF req[self].op = "close"
  THEN Goto(self, "readMeta") /\ StartRead(self, TRUE) /\ UNCHANGED reply
  ELSE Answer(self, "ok") /\ UNCHANGED answering

CheckKey(self) ==
  /\ pc[self] = "checkKey"
  /\ KeyChecked(self, IdemSeen(req[self].user, req[self].key))
  /\ UNCHANGED <<keyVars, now, req, ghostVars>>

\* Where Close goes when its HSET is answered.
AfterClose(r) == IF r.key = NoKey THEN "readMeta" ELSE "markKey"

CloseSet(self) ==
  LET r == req[self] IN
  /\ pc[self] = "write" /\ r.op = "close"
  /\ SetClosed(r.poll)
  /\ Advance(self, AfterClose(r))
  /\ StartRead(self, TRUE)
  /\ UNCHANGED <<now, req, reply, ghostVars>>

DeleteKeys(self) ==
  LET r == req[self] IN
  /\ pc[self] = "write" /\ r.op = "delete"
  /\ DelPoll(r.poll)
  /\ Advance(self, "dropIndex")
  /\ UNCHANGED <<now, req, answering, view, reply, ghostVars>>

DropIndex(self) ==
  /\ pc[self] = "dropIndex"
  /\ SRemIndex(req[self].poll)
  /\ Advance(self, "dropPublic")
  /\ UNCHANGED <<now, req, answering, view, reply, ghostVars>>

\* Mutant: the request is answered without the ZREM.
DropPublicLast(self) ==
  /\ pc[self] = "dropPublic"
  /\ SRemPublic(req[self].poll)
  /\ Answer(self, "ok")
  /\ UNCHANGED <<now, req, answering, ghostVars>>

DropPublic(self) ==
  /\ pc[self] = "dropPublic"
  /\ SRemPublic(req[self].poll)
  /\ Advance(self, "dropCreated")
  /\ UNCHANGED <<now, req, answering, view, reply, ghostVars>>

\* The last command of a DeletePoll without a key.
DropCreated(self) ==
  LET r == req[self] IN
  /\ pc[self] = "dropCreated"
  /\ ZRemCreated(r.poll, r.user)
  /\ \/ r.key = NoKey /\ Answer(self, "ok")
     \/ r.key # NoKey /\ Goto(self, "markKey") /\ UNCHANGED <<view, reply>>
     \/ Faulty /\ UNCHANGED <<pc, view, reply>>
  /\ UNCHANGED <<now, req, answering, ghostVars>>

\* setIdem; its error is ignored.
MarkStep(self) ==
  LET r == req[self] IN
  /\ pc[self] = "markKey"
  /\ SetIdem(r.user, r.key) \/ (Faulty /\ UNCHANGED keyVars)
  /\ IF r.op = "close" THEN Goto(self, "readMeta") /\ UNCHANGED <<view, reply>>
                       ELSE Answer(self, "ok")
  /\ UNCHANGED <<now, req, answering, ghostVars>>

-----------------------------------------------------------------------------
(* The end of a request, failures and time *)

\* The caller has its answer.
Finish(self) ==
  /\ pc[self] = "done"
  /\ Goto(self, "idle")
  /\ req' = [req EXCEPT ![self] = NoRequest]
  /\ reply' = [reply EXCEPT ![self] = "none"]
  /\ StartRead(self, FALSE)
  /\ UNCHANGED <<keyVars, now, ghostVars>>

\* A command fails, or the server or the connection goes away: the caller sees
\* an error whatever the request had done so far.
Abort(self) ==
  /\ Faulty
  /\ pc[self] \notin {"idle", "done"}
  /\ Answer(self, "error")
  /\ UNCHANGED <<keyVars, now, req, answering, ghostVars>>

Tick ==
  /\ now < MaxTime
  /\ now' = now + 1
  /\ UNCHANGED <<keyVars, procVars, ghostVars>>

-----------------------------------------------------------------------------

\* The steps a request takes once it has begun, when nothing fails.
Step(self) ==
  \/ VoteStep(self)
  \/ UndoStep(self)
  \/ ReadMeta(self)
  \/ ReadOptions(self)
  \/ ReadVotes(self)
  \/ CheckKey(self)
  \/ CloseSet(self)
  \/ DeleteKeys(self)
  \/ DropIndex(self)
  \/ DropPublic(self)
  \/ DropCreated(self)
  \/ MarkStep(self)
  \/ Finish(self)

Next ==
  \/ \E self \in Procs :
       \/ \E r \in Requests : Begin(self, r)
       \/ Step(self)
       \/ Abort(self)
  \/ \E p \in Polls, u \in Users, opts \in OptionLists, e \in ExpiryTicks,
        public \in Visibility : Create(p, u, opts, e, public)
  \/ Tick

Spec == Init /\ [][Next]_vars

\* Goroutines are scheduled and Redis answers: a request that has begun keeps
\* taking its steps.  Nothing makes clients send requests.
FairSpec == Spec /\ \A self \in Procs : WF_vars(Step(self))

-----------------------------------------------------------------------------
(* Safety: the state of Redis *)

Ballots(p, o) == {u \in voters[p] : userVotes[u][p] = o}

\* The published counts are at every moment the number of recorded ballots,
\* and every recorded ballot names an option that is counted: no vote is
\* counted twice, lost, or left behind by an undo (scripts.go and the deletes).
TallyMatchesBallots ==
  \A p \in Polls :
    /\ \A o \in Options : votes[p][o] = Cardinality(Ballots(p, o))
    /\ \A u \in voters[p] : userVotes[u][p] \in voteFields[p]

\* Whatever a late ClosePoll or vote finds of a deleted poll, no ballot, count
\* or option of it is ever stored again, and a hash that came back is closed.
DeletedPollInert ==
  \A p \in usedIds : ~Live(p) =>
    /\ voters[p] = {} /\ options[p] = {} /\ voteFields[p] = {}
    /\ meta[p].present => meta[p].isClosed

\* Every live poll is in each list that must show it, also while a DeletePoll
\* is under way or has failed half-way: the lists are cleaned after the DEL.
LivePollListed ==
  \A p \in Polls : Live(p) =>
    /\ p \in pollsIndex
    /\ p \in publicIndex <=> meta[p].isPublic
    /\ p \in createdPolls[meta[p].createdBy]

-----------------------------------------------------------------------------
(* Safety: the answers of requests *)

Answered(self, op) ==
  pc[self] = "done" /\ reply[self] = "ok" /\ req[self].op = op

\* getPoll reads three hashes one after the other; an answer that shows vote
\* counts nevertheless shows them for exactly the poll's options.
ReadNotTorn ==
  \A self \in Procs :
    pc[self] = "done" /\ view[self].fields # {} => view[self].options = view[self].fields

\* A ClosePoll that succeeds answers with a closed poll, on every path: the
\* first read, a key already seen, the write (keys given to one request each).
CloseAnswerClosed ==
  \A self \in Procs : Answered(self, "close") => view[self].meta.isClosed

\* A DeletePoll that answers true, also as a retry of a request that failed
\* half-way, has left nothing of the poll in any list.
DeleteAnswerTruthful ==
  \A self \in Procs : Answered(self, "delete") =>
    LET r == req[self] IN
    /\ ~Live(r.poll)
    /\ r.poll \notin pollsIndex \cup publicIndex \cup createdPolls[r.user]

\* A vote that is answered with success under a key of its own has taken effect,
\* by this attempt or by one before whose answer was lost: a client that repeats
\* a vote until it succeeds never reports a vote that was not counted.
VoteAnswerCounted ==
  \A self \in Procs : LET r == req[self] IN
    Answered(self, "vote") /\ r.key # NoKey => lastEffect[r.user][r.key] # 0

-----------------------------------------------------------------------------
(* Why they hold: the invariant that every step preserves *)

\* What the keys of one poll hold, before its creation, while it lives and
\* after its deletion.
PollKeys(p) ==
  /\ Live(p) => p \in usedIds /\ meta[p].present /\ options[p] = voteFields[p]
  /\ ~Live(p) => voters[p] = {} /\ options[p] = {} /\ voteFields[p] = {}
  /\ meta[p].present => p \in usedIds /\ (Live(p) \/ meta[p].isClosed)
  /\ p \in publicIndex => p \in usedIds

\* What a request knows of its poll, several commands after it was read.
RequestKnows(self) ==
  LET p == req[self].poll IN
  /\ pc[self] \in {"readOptions", "readVotes", "checkKey", "write"} => p \in usedIds
  /\ pc[self] \in {"readOptions", "readVotes"} /\ Live(p) =>
       view[self].meta.createdBy = meta[p].createdBy
  /\ pc[self] = "readVotes" /\ voteFields[p] # {} => view[self].options = voteFields[p]
  /\ pc[self] \in {"checkKey", "write"} /\ Live(p) => meta[p].createdBy = req[self].user
  /\ pc[self] \in {"dropIndex", "dropPublic", "dropCreated"} => p \in usedIds /\ ~Live(p)

\* A key is marked at least until a TTL after the last effect under it.
KeyCoversEffect ==
  \A u \in Users, k \in Keys :
    /\ lastEffect[u][k] <= now
    /\ lastEffect[u][k] # 0 => lastEffect[u][k] + IdemTicks <= idem[u][k]

\* The inductive invariant: a poll's keys agree with each other, and what every
\* request has read of its poll is still true or is about a deleted poll.
IndInv ==
  /\ TypeOK
  /\ TallyMatchesBallots
  /\ \A p \in Polls : PollKeys(p)
  /\ LivePollListed
  /\ \A self \in Procs : pc[self] # "idle" => RequestKnows(self)
  /\ ReadNotTorn
  /\ KeyCoversEffect

\* A poll that is closed or deleted, and a deleted poll that is in no list that
\* the user u or everybody is shown.
Ended(p) == p \in usedIds /\ (Live(p) => meta[p].isClosed)
Gone(p, u) == /\ p \in usedIds /\ ~Live(p)
              /\ p \notin pollsIndex \cup publicIndex \cup createdPolls[u]

\* What a request has brought about when it may say so to its client.
Achieved(r) ==
  /\ r.op = "close" => Ended(r.poll)
  /\ r.op = "delete" => Gone(r.poll, r.user)
  /\ r.op \in {"vote", "undo"} /\ r.key # NoKey => lastEffect[r.user][r.key] # 0

\* A key that was ever marked names a request that has been brought about.
MarksTellTruth ==
  \A u \in Users, k \in Keys : idem[u][k] # 0 =>
    keyUse[u][k] # NoRequest /\ Achieved(keyUse[u][k])

Reads == {"readMeta", "readOptions", "readVotes"}
Drops == {"dropIndex", "dropPublic", "dropCreated"}

\* How far a request has come: what it has brought about before each of its last
\* commands, so that its answer is true whichever of them is the last.
RequestWorks(self) ==
  LET r == req[self] IN
  /\ r.key # NoKey => keyUse[r.user][r.key] = r
  /\ pc[self] \in {"checkKey", "write", "markKey"} => r.op \in {"close", "delete"}
  /\ pc[self] \in Drops => r.op = "delete"
  /\ pc[self] \in {"dropPublic", "dropCreated"} => r.poll \notin pollsIndex
  /\ pc[self] = "dropCreated" => r.poll \notin publicIndex
  /\ pc[self] = "markKey" => Achieved(r)
  /\ pc[self] \in Reads /\ answering[self] => r.op # "delete" /\ Achieved(r)
  /\ pc[self] \in Reads /\ ~answering[self] => r.op \in {"close", "delete"}
  /\ pc[self] \in Reads \ {"readMeta"} /\ answering[self] /\ r.op = "close" =>
       view[self].meta.isClosed
  /\ pc[self] = "done" /\ reply[self] = "ok" =>
       IF r.op = "close" THEN view[self].meta.isClosed ELSE Achieved(r)

\* The inductive invariant of the answers, for keys given to one request each.
AnswerInv ==
  /\ IndInv
  /\ MarksTellTruth
  /\ \A self \in Procs : pc[self] # "idle" => RequestWorks(self)

-----------------------------------------------------------------------------
(* Action properties *)

\* The script of this request takes effect in this step.
TakesEffect(self) ==
  LET r == req[self] IN
  /\ VoteStep(self) \/ UndoStep(self)
  /\ userVotes'[r.user][r.poll] # userVotes[r.user][r.poll]

\* No vote or undo took effect under this key during the last TTL.
KeyUnspent(r) ==
  \/ r.key = NoKey
  \/ lastEffect[r.user][r.key] = 0
  \/ now > lastEffect[r.user][r.key] + IdemTicks

\* Two votes or undos under one idempotency key take effect more than a TTL
\* apart, whatever else runs, and also when the key names different requests.
KeyedEffectsSpaced ==
  [][\A self \in Procs : TakesEffect(self) => KeyUnspent(req[self])]_vars

\* A vote or undo that took effect can be repeated with its key for a TTL and is
\* not refused, neither by the script nor by the read of the answer that follows
\* it, although the poll has been closed or has expired since or the ballot has
\* been undone.  Only when the poll has been deleted does that read (getPoll)
\* answer "not found" of a vote that was counted.
RetryNotRefused ==
  [][\A self \in Procs : LET r == req[self] IN
       /\ r.op \in {"vote", "undo"} /\ ~KeyUnspent(r)
       /\ pc[self] # "done" /\ pc'[self] = "done"
       => \/ reply'[self] \in {"ok", "error"}
          \/ reply'[self] = "notfound" /\ ~Live(r.poll)]_vars

\* Once closed by its owner a poll never reopens and its ballots and counts
\* never change again, until it is deleted.
ClosedIsFinal ==
  [][\A p \in Polls : Live(p) /\ meta[p].isClosed /\ Live(p)' =>
       meta'[p].isClosed /\ votes'[p] = votes[p] /\ voters'[p] = voters[p]]_vars

\* A poll is closed or deleted only by a request of the user who created it,
\* although the owner is checked several commands before the write.
OwnerEndsPoll ==
  [][\A p \in Polls :
       Live(p) /\ (~Live(p)' \/ meta'[p].isClosed # meta[p].isClosed) =>
         \E self \in Procs : /\ pc[self] = "write"
                             /\ req[self].poll = p
                             /\ req[self].user = meta[p].createdBy]_vars

\* Ballots of a live poll change only before the second that follows its
\* stored expiry second has begun.
VotesStopWithinASecond ==
  [][\A p \in Polls : Live(p) /\ Live(p)' /\ voters'[p] # voters[p] =>
       now < (meta[p].expiresAt + 1) * TicksPerSecond]_vars

-----------------------------------------------------------------------------
(* Liveness *)

\* A deleted poll disappears from every list, when no command fails.
DeletedEventuallyUnlisted ==
  \A p \in Polls :
    (p \in usedIds /\ ~Live(p)) ~>
      (p \notin pollsIndex \cup publicIndex \cup UNION {createdPolls[u] : u \in Users})

-----------------------------------------------------------------------------
(* What the abstract service promises *)

Status(p) ==
  IF p \notin usedIds THEN "none"
  ELSE IF ~Live(p) THEN "deleted"
  ELSE IF meta[p].isClosed THEN "closed" ELSE "open"

Ballot(p, u) == IF u \in voters[p] THEN userVotes[u][p] ELSE NoOption

Voting == INSTANCE VotingSpec WITH
  OwnerOnly <- TRUE,
  status <- [p \in Polls |-> Status(p)],
  owner <- [p \in Polls |-> meta[p].createdBy],
  ballots <- [p \in Polls |-> [u \in Users |-> Ballot(p, u)]],
  result <- votes

\* Scripts, transactions and multi-command requests together behave as one
\* step per operation: every command is a step of VotingSpec or changes nothing
\* a client can see.
ImplementsVoting == Voting!Spec

-----------------------------------------------------------------------------
(* Two statements of the repository's tests that the code does not keep *)

\* memory_test.go:76: a vote on an expired poll is refused.
ExpiredPollRejectsVotes ==
  [][\A p \in Polls : Live(p) /\ voters[p] \subseteq voters'[p] /\ voters[p] # voters'[p] =>
       now <= meta[p].expiresAt * TicksPerSecond]_vars

\* memory_test.go:120: a deleted poll is not found.
DeletedStaysDeleted ==
  \A p \in usedIds : ~Live(p) => ~meta[p].present
=============================================================================
