--------------------------- MODULE RedisStoreProofs ---------------------------
(***************************************************************************)
(* Theorems about RedisStore, for any number of users, polls, options,     *)
(* keys and requests in flight, with and without failures: first what the  *)
(* keys hold (IndInv), then what the answers tell (AnswerInv).             *)
(***************************************************************************)
EXTENDS RedisStore, RedisKeyspaceProofs

-----------------------------------------------------------------------------
(* Type correctness *)

\* What the code may assume of a request it is working on.
LEMMA BusyRequest ==
  ASSUME TypeOK, NEW self \in Procs, pc[self] # "idle"
  PROVE  /\ req[self] \in Requests
         /\ req[self].op \in Ops
         /\ req[self].user \in Users
         /\ req[self].poll \in Polls
         /\ req[self].key \in Keys \cup {NoKey}
         /\ req[self].op = "vote" => req[self].option \in Options
<1>1. req[self] \in Requests
  BY DEF TypeOK
<1>2. QED
  BY <1>1, Sentinels DEF Requests

\* The state of the requests, apart from the keys in Redis.
ControlTypeOK ==
  /\ pc \in [Procs -> Labels]
  /\ req \in [Procs -> Requests \cup {NoRequest}]
  /\ answering \in [Procs -> BOOLEAN]
  /\ view \in [Procs -> View]
  /\ reply \in [Procs -> Replies]
  /\ usedIds \subseteq Polls
  /\ keyUse \in [Users -> [Keys -> Requests \cup {NoRequest}]]
  /\ lastEffect \in [Users -> [Keys -> Nat]]
  /\ \A self \in Procs : pc[self] = "idle" <=> req[self] = NoRequest

LEMMA ViewTypes ==
  /\ NoView \in View
  /\ \A v \in View : \A m \in Meta : [v EXCEPT !.meta = m] \in View
  /\ \A v \in View : \A s \in SUBSET Options : [v EXCEPT !.options = s] \in View
  /\ \A v \in View : \A s \in SUBSET Options : \A b \in BOOLEAN :
       [v EXCEPT !.fields = s, !.meta.isClosed = b] \in View
<1>1. NoView \in View
  BY MetaTypes DEF NoView, View
<1>2. ASSUME NEW v \in View, NEW m \in Meta
      PROVE  [v EXCEPT !.meta = m] \in View
  BY DEF View
<1>3. ASSUME NEW v \in View, NEW s \in SUBSET Options
      PROVE  [v EXCEPT !.options = s] \in View
  BY DEF View
<1>4. ASSUME NEW v \in View, NEW s \in SUBSET Options, NEW b \in BOOLEAN
      PROVE  [v EXCEPT !.fields = s, !.meta.isClosed = b] \in View
  <2>1. v.meta \in Meta
    BY DEF View
  <2>2. [v.meta EXCEPT !.isClosed = b] \in Meta
    BY <2>1 DEF Meta
  <2>3. QED
    BY <2>2 DEF View
<1>5. QED
  BY <1>1, <1>2, <1>3, <1>4

\* A step of a request under way, as far as its types go: it stays under way,
\* and its view, its reply and the mode of its read change within their types.
Progresses(self) ==
  /\ pc' = pc \/ \E l \in Labels \ {"idle"} : pc' = [pc EXCEPT ![self] = l]
  /\ req' = req
  /\ answering' = answering \/ answering' = [answering EXCEPT ![self] = TRUE]
  /\ view' = view \/ \E v \in View : view' = [view EXCEPT ![self] = v]
  /\ reply' = reply \/ \E r \in Replies : reply' = [reply EXCEPT ![self] = r]
  /\ usedIds' = usedIds
  /\ keyUse' = keyUse
  /\ lastEffect' \in [Users -> [Keys -> Nat]]

LEMMA ProgressTypes ==
  ASSUME ControlTypeOK, NEW self \in Procs, pc[self] # "idle", Progresses(self)
  PROVE  ControlTypeOK'
<1>1. pc' \in [Procs -> Labels]
  BY DEF ControlTypeOK, Progresses
<1>2. answering' \in [Procs -> BOOLEAN]
  BY DEF ControlTypeOK, Progresses
<1>3. view' \in [Procs -> View]
  BY DEF ControlTypeOK, Progresses
<1>4. reply' \in [Procs -> Replies]
  BY DEF ControlTypeOK, Progresses
<1>5. \A i \in Procs : (pc[i] = "idle" <=> req[i] = NoRequest)'
  BY DEF ControlTypeOK, Progresses
<1>6. QED
  BY <1>1, <1>2, <1>3, <1>4, <1>5 DEF ControlTypeOK, Progresses

\* The steps of a request under way, other than Finish, are of that form.
LEMMA StepsProgress ==
  ASSUME TypeOK, NEW self \in Procs,
         \/ VoteStep(self) \/ UndoStep(self) \/ ReadMeta(self)
         \/ ReadOptions(self) \/ ReadVotes(self) \/ CheckKey(self)
         \/ CloseSet(self) \/ DeleteKeys(self) \/ DropIndex(self)
         \/ DropPublic(self) \/ DropCreated(self) \/ MarkStep(self)
         \/ Abort(self)
  PROVE  pc[self] # "idle" /\ Progresses(self)
<1>. DEFINE v == view[self]
            fields == voteFields[req[self].poll]
<1>1. lastEffect \in [Users -> [Keys -> Nat]] /\ now \in Nat
  BY DEF TypeOK, KeyspaceTypeOK
<1>2. NoView \in View
  BY ViewTypes
<1>. USE DEF Goto, Answer, AnswerPoll, StartRead, Advance, Labels, Replies
<1>3. CASE VoteStep(self) \/ UndoStep(self)
  <2>1. pc[self] = "script"
    BY <1>3 DEF VoteStep, UndoStep
  <2>2. ASSUME NEW result \in Replies \cup {"noop"}, RecordEffect(req[self], result)
        PROVE  lastEffect' \in [Users -> [Keys -> Nat]]
    BY <1>1, <2>1, <2>2, BusyRequest DEF RecordEffect
  <2>3. ASSUME NEW result \in Replies \cup {"noop"},
               ScriptAnswered(self, result), RecordEffect(req[self], result),
               UNCHANGED <<req, usedIds, keyUse>>
        PROVE  Progresses(self)
    BY <1>2, <2>2, <2>3 DEF ScriptAnswered, ScriptReturns, Progresses
  <2>4. CASE VoteStep(self)
    BY <2>1, <2>3, <2>4 DEF VoteStep, VoteResult, Gate
  <2>5. CASE UndoStep(self)
    BY <2>1, <2>3, <2>5 DEF UndoStep, UndoResult, Gate
  <2>6. QED
    BY <1>3, <2>4, <2>5
<1>4. CASE ReadMeta(self)
  <2>1. meta[req[self].poll] \in Meta /\ v \in View
    BY <1>4, BusyRequest DEF ReadMeta, TypeOK, KeyspaceTypeOK
  <2>2. [v EXCEPT !.meta = meta[req[self].poll]] \in View
    BY <2>1, ViewTypes
  <2>3. QED
    BY <1>1, <1>2, <1>4, <2>2 DEF ReadMeta, Progresses, ghostVars
<1>5. CASE ReadOptions(self)
  <2>1. options[req[self].poll] \in SUBSET Options /\ v \in View
    BY <1>5, BusyRequest DEF ReadOptions, TypeOK, KeyspaceTypeOK
  <2>2. [v EXCEPT !.options = options[req[self].poll]] \in View
    BY <2>1, ViewTypes
  <2>3. QED
    BY <1>1, <1>5, <2>2 DEF ReadOptions, Progresses, ghostVars
<1>6. CASE ReadVotes(self)
  <2>1. fields \in SUBSET Options /\ v \in View
    BY <1>6, BusyRequest DEF ReadVotes, TypeOK, KeyspaceTypeOK
  <2>2. v.meta.isClosed \in BOOLEAN
    BY <2>1 DEF View, Meta
  <2>3. ReadsClosed(v.meta) \in BOOLEAN
    BY <2>2 DEF ReadsClosed
  <2>4. PollRead(v, fields) \in View
    BY <2>1, <2>3, ViewTypes DEF PollRead
  <2>5. QED
    BY <1>1, <1>2, <1>6, <2>4 DEF ReadVotes, AfterCheck, Progresses, ghostVars
<1>7. CASE CheckKey(self)
  BY <1>1, <1>2, <1>7 DEF CheckKey, KeyChecked, Progresses, ghostVars
<1>8. CASE CloseSet(self)
  BY <1>1, <1>2, <1>8 DEF CloseSet, AfterClose, Progresses, ghostVars
<1>9. CASE DeleteKeys(self) \/ DropIndex(self) \/ DropPublic(self)
  BY <1>1, <1>9 DEF DeleteKeys, DropIndex, DropPublic, Progresses, ghostVars
<1>10. CASE DropCreated(self) \/ MarkStep(self) \/ Abort(self)
  BY <1>1, <1>2, <1>10 DEF DropCreated, MarkStep, Abort, Progresses, ghostVars
<1>11. QED
  BY <1>3, <1>4, <1>5, <1>6, <1>7, <1>8, <1>9, <1>10

LEMMA InitTypes == Init => TypeOK
<1>. SUFFICES ASSUME Init
              PROVE  TypeOK
  OBVIOUS
<1>1. KeyspaceTypeOK
  <2>1. NoVotes \in [Options -> Nat]
    BY DEF NoVotes
  <2>2. meta \in [Polls -> Meta] /\ votes \in [Polls -> [Options -> Nat]]
    BY <2>1, MetaTypes DEF Init, KeyspaceInit
  <2>3. QED
    BY <2>2 DEF Init, KeyspaceInit, KeyspaceTypeOK
<1>2. QED
  BY <1>1, ViewTypes DEF Init, TypeOK, Labels, Replies

LEMMA BeginTypes ==
  ASSUME TypeOK, NEW self \in Procs, NEW r \in Requests, Begin(self, r)
  PROVE  TypeOK'
<1>1. KeyspaceTypeOK'
  BY DEF TypeOK, KeyspaceTypeOK, Begin, keyVars, pollVars, indexVars
<1>2. keyUse' \in [Users -> [Keys -> Requests \cup {NoRequest}]]
  BY DEF TypeOK, Begin, Requests
<1>3. pc' \in [Procs -> Labels] /\ pc'[self] # "idle"
  BY DEF TypeOK, Begin, Goto, Labels
<1>4. req' \in [Procs -> Requests \cup {NoRequest}] /\ req'[self] # NoRequest
  BY OpsAssumption DEF TypeOK, Begin, Requests, NoRequest, AllOps
<1>5. view' \in [Procs -> View] /\ answering' \in [Procs -> BOOLEAN]
  BY ViewTypes DEF TypeOK, Begin, StartRead
<1>6. \A i \in Procs : (pc[i] = "idle" <=> req[i] = NoRequest)'
  BY <1>3, <1>4 DEF TypeOK, Begin, Goto
<1>7. QED
  BY <1>1, <1>2, <1>3, <1>4, <1>5, <1>6 DEF TypeOK, Begin

LEMMA CreateTypes ==
  ASSUME TypeOK, NEW p \in Polls, NEW u \in Users, NEW opts \in OptionLists,
         NEW e \in ExpiryTicks, NEW public \in Visibility,
         Create(p, u, opts, e, public)
  PROVE  TypeOK'
<1>1. e \in Nat /\ opts \in SUBSET Options /\ public \in BOOLEAN
  BY ExpiryAssumption, OptionListsAssumption, ModeAssumption
<1>2. KeyspaceTypeOK'
  BY <1>1, CreateTxTypes DEF TypeOK, Create
<1>3. QED
  BY <1>2 DEF TypeOK, Create, procVars

LEMMA FinishTypes ==
  ASSUME TypeOK, NEW self \in Procs, Finish(self)
  PROVE  TypeOK'
<1>1. KeyspaceTypeOK'
  BY DEF TypeOK, KeyspaceTypeOK, Finish, keyVars, pollVars, indexVars
<1>2. QED
  BY <1>1, ViewTypes
     DEF TypeOK, Finish, Goto, StartRead, ghostVars, Labels, Replies

LEMMA StepTypes ==
  ASSUME TypeOK, NEW self \in Procs, Step(self) \/ Abort(self), ~Finish(self)
  PROVE  TypeOK'
<1>1. pc[self] # "idle" /\ Progresses(self)
  BY StepsProgress DEF Step
<1>2. ControlTypeOK'
  BY <1>1, ProgressTypes DEF TypeOK, ControlTypeOK
<1>3. KeyspaceTypeOK'
  <2>. DEFINE r == req[self]
  <2>1. /\ r.poll \in Polls /\ r.user \in Users /\ r.key \in Keys \cup {NoKey}
        /\ r.op = "vote" => r.option \in Options
        /\ KeyspaceTypeOK
    BY <1>1, BusyRequest DEF TypeOK
  <2>2. CASE VoteStep(self)
    BY <2>1, <2>2, CommandTypes DEF VoteStep
  <2>3. CASE /\ now' = now
             /\ \/ UndoScript(r.poll, r.user, r.key)
                \/ SetClosed(r.poll)
                \/ DelPoll(r.poll)
                \/ SRemIndex(r.poll)
                \/ SRemPublic(r.poll)
                \/ ZRemCreated(r.poll, r.user)
                \/ SetIdem(r.user, r.key)
                \/ UNCHANGED keyVars
    BY <2>1, <2>3, CommandTypes
  <2>4. QED
    BY <2>2, <2>3
       DEF Step, UndoStep, ReadMeta, ReadOptions, ReadVotes, CheckKey, CloseSet,
           DeleteKeys, DropIndex, DropPublic, DropCreated, MarkStep, Abort
<1>4. QED
  BY <1>2, <1>3 DEF ControlTypeOK, TypeOK

\* Every variable always holds a value of its type, and a request is recorded
\* exactly while its process works on it.
THEOREM TypeCorrect == Spec => []TypeOK
<1>1. ASSUME TypeOK, [Next]_vars
      PROVE  TypeOK'
  <2>1. CASE \E self \in Procs, r \in Requests : Begin(self, r)
    BY <1>1, <2>1, BeginTypes
  <2>2. CASE \E self \in Procs : Step(self) \/ Abort(self)
    BY <1>1, <2>2, FinishTypes, StepTypes
  <2>3. CASE \E p \in Polls, u \in Users, opts \in OptionLists, e \in ExpiryTicks,
                public \in Visibility : Create(p, u, opts, e, public)
    BY <1>1, <2>3, CreateTypes
  <2>4. CASE Tick
    BY <1>1, <2>4
       DEF Tick, TypeOK, KeyspaceTypeOK, keyVars, pollVars, indexVars, procVars,
           ghostVars
  <2>5. CASE UNCHANGED vars
    BY <1>1, <2>5
       DEF vars, TypeOK, KeyspaceTypeOK, keyVars, pollVars, indexVars, procVars,
           ghostVars
  <2>6. QED
    BY <1>1, <2>1, <2>2, <2>3, <2>4, <2>5 DEF Next
<1>2. QED
  BY <1>1, InitTypes, PTL DEF Spec

-----------------------------------------------------------------------------
(* The keys of one poll agree, command by command *)

\* The part of the invariant that speaks of Redis alone.
KeysInv ==
  /\ TallyMatchesBallots
  /\ \A p \in Polls : PollKeys(p)
  /\ LivePollListed

\* What a request has read of poll p stays true: a deleted poll stays deleted,
\* and a live one keeps its owner and its options.
Continues(p) ==
  p \in usedIds =>
    /\ p \in usedIds'
    /\ ~Live(p) => ~Live(p)' /\ voteFields'[p] = {}
    /\ Live(p)' => /\ meta'[p].createdBy = meta[p].createdBy
                   /\ options'[p] = options[p]
                   /\ voteFields'[p] = voteFields[p]

LEMMA VotersFinite ==
  ASSUME KeyspaceTypeOK, NEW p \in Polls, NEW o \in Options
  PROVE  IsFiniteSet(Ballots(p, o))
<1>1. Ballots(p, o) \subseteq Users
  BY DEF Ballots, KeyspaceTypeOK
<1>2. QED
  BY <1>1, UsersFinite, FS_Subset

\* A vote that takes effect adds one ballot to the option it counts.
LEMMA VoteCounts ==
  ASSUME KeyspaceTypeOK, TallyMatchesBallots,
         NEW p \in Polls, NEW u \in Users, NEW o \in Options,
         NEW k \in Keys \cup {NoKey},
         ApplyVote(p, u, o, k), u \notin voters[p], o \in voteFields[p]
  PROVE  TallyMatchesBallots'
<1>. USE DEF KeyspaceTypeOK
<1>1. ASSUME NEW q \in Polls, NEW a \in Options
      PROVE  (votes[q][a] = Cardinality(Ballots(q, a)))'
  <2>1. votes[q][a] = Cardinality(Ballots(q, a))
    BY DEF TallyMatchesBallots
  <2>2. CASE q = p /\ a = o
    <3>. DEFINE S == Ballots(p, o)
                T == {v \in voters'[p] : userVotes'[v][p] = o}
    <3>1. T = S \cup {u} /\ u \notin S
      BY DEF Ballots, ApplyVote
    <3>2. Cardinality(T) = Cardinality(S) + 1
      BY <3>1, VotersFinite, FS_AddElement
    <3>3. votes'[p][o] = votes[p][o] + 1
      BY DEF ApplyVote
    <3>4. QED
      BY <2>1, <2>2, <3>2, <3>3 DEF Ballots
  <2>3. CASE ~(q = p /\ a = o)
    <3>1. Ballots(q, a)' = Ballots(q, a)
      BY <2>3 DEF Ballots, ApplyVote
    <3>2. votes'[q][a] = votes[q][a]
      BY <2>3 DEF ApplyVote
    <3>3. QED
      BY <2>1, <3>1, <3>2
  <2>4. QED
    BY <2>2, <2>3
<1>2. ASSUME NEW q \in Polls, NEW v \in voters'[q]
      PROVE  userVotes'[v][q] \in voteFields'[q]
  BY DEF TallyMatchesBallots, ApplyVote
<1>3. QED
  BY <1>1, <1>2 DEF TallyMatchesBallots

\* An undo that takes effect takes one ballot from the option it counted.
LEMMA UndoCounts ==
  ASSUME KeyspaceTypeOK, TallyMatchesBallots,
         NEW p \in Polls, NEW u \in Users, NEW k \in Keys \cup {NoKey},
         NEW o \in Options, userVotes[u][p] = o,
         ApplyUndo(p, u, k), u \in voters[p]
  PROVE  TallyMatchesBallots'
<1>. USE DEF KeyspaceTypeOK
<1>1. ASSUME NEW q \in Polls, NEW a \in Options
      PROVE  (votes[q][a] = Cardinality(Ballots(q, a)))'
  <2>1. votes[q][a] = Cardinality(Ballots(q, a))
    BY DEF TallyMatchesBallots
  <2>2. CASE q = p /\ a = o
    <3>. DEFINE S == Ballots(p, o)
                T == {v \in voters'[p] : userVotes'[v][p] = o}
    <3>1. T = S \ {u} /\ u \in S
      BY DEF Ballots, ApplyUndo
    <3>2. Cardinality(T) = Cardinality(S) - 1 /\ Cardinality(T) \in Nat
      <4>1. IsFiniteSet(S)
        BY VotersFinite
      <4>2. IsFiniteSet(S \ {u}) /\ Cardinality(S \ {u}) = Cardinality(S) - 1
        BY <3>1, <4>1, FS_RemoveElement
      <4>3. Cardinality(S \ {u}) \in Nat
        BY <4>2, FS_CardinalityType
      <4>4. QED
        BY <3>1, <4>2, <4>3
    <3>3. votes[p][o] = Cardinality(S) /\ votes[p][o] \in Nat
      BY <2>1, <2>2
    <3>4. votes'[p][o] = Decremented(votes[p][o])
      BY DEF ApplyUndo
    <3>5. votes'[p][o] = Cardinality(T)
      BY <3>2, <3>3, <3>4 DEF Decremented
    <3>6. QED
      BY <2>2, <3>5 DEF Ballots
  <2>3. CASE ~(q = p /\ a = o)
    <3>1. Ballots(q, a)' = Ballots(q, a)
      BY <2>3 DEF Ballots, ApplyUndo
    <3>2. votes'[q][a] = votes[q][a]
      BY <2>3 DEF ApplyUndo
    <3>3. QED
      BY <2>1, <3>1, <3>2
  <2>4. QED
    BY <2>2, <2>3
<1>2. ASSUME NEW q \in Polls, NEW v \in voters'[q]
      PROVE  userVotes'[v][q] \in voteFields'[q]
  BY DEF TallyMatchesBallots, ApplyUndo
<1>3. QED
  BY <1>1, <1>2 DEF TallyMatchesBallots

\* A step that changes no key but some user's idempotency marks.
LEMMA NoPollChange ==
  ASSUME KeyspaceTypeOK, KeysInv,
         UNCHANGED <<meta, options, voteFields, votes, voters, userVotes,
                     pollsIndex, publicIndex, createdPolls, usedIds>>
  PROVE  KeysInv' /\ \A q \in Polls : Continues(q)
<1>1. TallyMatchesBallots'
  BY DEF KeysInv, TallyMatchesBallots, Ballots
<1>2. \A q \in Polls : PollKeys(q)'
  BY DEF KeysInv, PollKeys, Live
<1>3. LivePollListed'
  BY DEF KeysInv, LivePollListed, Live
<1>4. \A q \in Polls : Continues(q)
  BY DEF KeysInv, PollKeys, Continues, Live
<1>5. QED
  BY <1>1, <1>2, <1>3, <1>4 DEF KeysInv

LEMMA VoteKeys ==
  ASSUME KeyspaceTypeOK, KeysInv, NEW p \in Polls, NEW u \in Users,
         NEW o \in Options, NEW k \in Keys \cup {NoKey},
         VoteScript(p, u, o, k), usedIds' = usedIds
  PROVE  KeysInv' /\ \A q \in Polls : Continues(q)
<1>1. CASE VoteResult(p, u, o, k) = "ok" /\ ApplyVote(p, u, o, k)
  <2>1. /\ u \notin voters[p]
        /\ o \in voteFields[p]
    BY <1>1 DEF VoteResult, Gate
  <2>2. TallyMatchesBallots'
    BY <1>1, <2>1, VoteCounts DEF KeysInv
  <2>3. voteFields' = voteFields
    BY <1>1, <2>1 DEF ApplyVote, KeyspaceTypeOK
  <2>4. Live(p)
    BY <2>1 DEF KeysInv, PollKeys
  <2>5. \A q \in Polls : PollKeys(q)'
    BY <1>1, <2>3, <2>4
       DEF KeysInv, PollKeys, ApplyVote, Live, KeyspaceTypeOK, indexVars
  <2>6. LivePollListed'
    BY <1>1 DEF KeysInv, LivePollListed, ApplyVote, Live, indexVars
  <2>7. \A q \in Polls : Continues(q)
    BY <1>1, <2>3 DEF KeysInv, PollKeys, ApplyVote, Continues, Live
  <2>8. QED
    BY <2>2, <2>5, <2>6, <2>7 DEF KeysInv
<1>2. CASE UNCHANGED keyVars
  BY <1>2, NoPollChange DEF keyVars, pollVars, indexVars
<1>3. QED
  BY <1>1, <1>2 DEF VoteScript

LEMMA UndoKeys ==
  ASSUME KeyspaceTypeOK, KeysInv, NEW p \in Polls, NEW u \in Users,
         NEW k \in Keys \cup {NoKey},
         UndoScript(p, u, k), usedIds' = usedIds
  PROVE  KeysInv' /\ \A q \in Polls : Continues(q)
<1>1. CASE UndoResult(p, u, k) = "ok" /\ ApplyUndo(p, u, k)
  <2>1. PICK o \in Options : userVotes[u][p] = o
    BY <1>1 DEF UndoResult, Gate, KeyspaceTypeOK
  <2>2. u \in voters[p] /\ o \in voteFields[p]
    BY <1>1, <2>1 DEF UndoResult, Gate, KeysInv, TallyMatchesBallots
  <2>3. TallyMatchesBallots'
    BY <1>1, <2>1, <2>2, UndoCounts DEF KeysInv
  <2>4. voteFields' = voteFields
    BY <1>1, <2>1, <2>2 DEF ApplyUndo, KeyspaceTypeOK
  <2>5. Live(p)
    BY <2>2 DEF KeysInv, PollKeys
  <2>6. \A q \in Polls : PollKeys(q)'
    BY <1>1, <2>4, <2>5
       DEF KeysInv, PollKeys, ApplyUndo, Live, KeyspaceTypeOK, indexVars
  <2>7. LivePollListed'
    BY <1>1 DEF KeysInv, LivePollListed, ApplyUndo, Live, indexVars
  <2>8. \A q \in Polls : Continues(q)
    BY <1>1, <2>4 DEF KeysInv, PollKeys, ApplyUndo, Continues, Live
  <2>9. QED
    BY <2>3, <2>6, <2>7, <2>8 DEF KeysInv
<1>2. CASE UNCHANGED keyVars
  BY <1>2, NoPollChange DEF keyVars, pollVars, indexVars
<1>3. QED
  BY <1>1, <1>2 DEF UndoScript

LEMMA CreateKeys ==
  ASSUME KeyspaceTypeOK, KeysInv, NEW p \in Polls, NEW u \in Users,
         NEW opts \in SUBSET Options, NEW e, NEW public \in BOOLEAN,
         p \notin usedIds, CreateTx(p, u, opts, e, public),
         usedIds' = usedIds \cup {p}
  PROVE  KeysInv' /\ \A q \in Polls : Continues(q)
<1>. USE Sentinels DEF KeyspaceTypeOK
<1>1. /\ ~Live(p) /\ voters[p] = {} /\ options[p] = {} /\ voteFields[p] = {}
      /\ p \notin publicIndex
  BY DEF KeysInv, PollKeys
<1>2. Live(p)' /\ voters'[p] = {} /\ options'[p] = opts /\ voteFields'[p] = opts
  BY <1>1 DEF CreateTx, Live
<1>3. ASSUME NEW q \in Polls, NEW a \in Options
      PROVE  (votes[q][a] = Cardinality(Ballots(q, a)))'
  <2>1. votes[q][a] = Cardinality(Ballots(q, a))
    BY DEF KeysInv, TallyMatchesBallots
  <2>2. Ballots(q, a)' = Ballots(q, a)
    BY <1>1, <1>2 DEF Ballots, CreateTx
  <2>3. CASE q = p
    <3>1. Ballots(q, a) = {}
      BY <1>1, <2>3 DEF Ballots
    <3>2. votes[q][a] = 0
      BY <2>1, <3>1, FS_EmptySet
    <3>3. votes'[q][a] = 0
      BY <2>3, <3>2 DEF CreateTx
    <3>4. QED
      BY <2>1, <2>2, <3>2, <3>3
  <2>4. CASE q # p
    <3>1. votes'[q][a] = votes[q][a]
      BY <2>4 DEF CreateTx
    <3>2. QED
      BY <2>1, <2>2, <3>1
  <2>5. QED
    BY <2>3, <2>4
<1>4. ASSUME NEW q \in Polls, NEW v \in voters'[q]
      PROVE  userVotes'[v][q] \in voteFields'[q]
  BY <1>2 DEF KeysInv, TallyMatchesBallots, CreateTx
<1>5. TallyMatchesBallots'
  BY <1>3, <1>4 DEF TallyMatchesBallots
<1>6. ASSUME NEW q \in Polls
      PROVE  PollKeys(q)' /\ Continues(q)
  <2>1. CASE q = p
    BY <1>2, <2>1 DEF CreateTx, PollKeys, Continues, Live
  <2>2. CASE q # p
    BY <2>2 DEF KeysInv, CreateTx, PollKeys, Continues, Live
  <2>3. QED
    BY <2>1, <2>2
<1>7. LivePollListed'
  BY <1>1 DEF KeysInv, LivePollListed, CreateTx, Live
<1>8. QED
  BY <1>5, <1>6, <1>7 DEF KeysInv

LEMMA CloseKeys ==
  ASSUME KeyspaceTypeOK, KeysInv, NEW p \in Polls, p \in usedIds,
         SetClosed(p), usedIds' = usedIds
  PROVE  KeysInv' /\ \A q \in Polls : Continues(q)
<1>. USE DEF KeyspaceTypeOK
<1>1. TallyMatchesBallots'
  BY DEF KeysInv, TallyMatchesBallots, Ballots, SetClosed
<1>2. ASSUME NEW q \in Polls
      PROVE  /\ meta'[q].createdBy = meta[q].createdBy
             /\ meta'[q].isPublic = meta[q].isPublic
             /\ meta[q].present => meta'[q].present
             /\ meta[q].isClosed => meta'[q].isClosed
             /\ q # p => meta'[q] = meta[q]
             /\ q = p => meta'[q].isClosed /\ meta'[q].present
  <2>1. meta[q] \in Meta
    OBVIOUS
  <2>2. meta'[q] = IF q = p THEN [meta[q] EXCEPT !.present = TRUE, !.isClosed = TRUE]
                            ELSE meta[q]
    BY DEF SetClosed
  <2>3. QED
    BY <2>1, <2>2 DEF Meta
<1>3. \A q \in Polls : PollKeys(q)'
  BY <1>2 DEF KeysInv, PollKeys, Live, SetClosed, indexVars
<1>4. LivePollListed'
  BY <1>2 DEF KeysInv, LivePollListed, Live, SetClosed, indexVars
<1>5. \A q \in Polls : Continues(q)
  BY <1>2 DEF KeysInv, PollKeys, Continues, Live, SetClosed
<1>6. QED
  BY <1>1, <1>3, <1>4, <1>5 DEF KeysInv

LEMMA DeleteKeysKeys ==
  ASSUME KeyspaceTypeOK, KeysInv, NEW p \in Polls, p \in usedIds,
         DelPoll(p), usedIds' = usedIds
  PROVE  KeysInv' /\ ~Live(p)' /\ \A q \in Polls : Continues(q)
<1>. USE DEF KeyspaceTypeOK
<1>1. ~Live(p)' /\ ~meta'[p].present
  BY DEF DelPoll, NoMeta, Live
<1>2. ASSUME NEW q \in Polls, NEW a \in Options
      PROVE  (votes[q][a] = Cardinality(Ballots(q, a)))'
  <2>1. CASE q = p
    <3>1. {v \in voters'[p] : userVotes'[v][p] = a} = {}
      BY DEF DelPoll
    <3>2. votes'[p][a] = 0
      BY DEF DelPoll, NoVotes
    <3>3. QED
      BY <2>1, <3>1, <3>2, FS_EmptySet DEF Ballots
  <2>2. CASE q # p
    BY <2>2 DEF KeysInv, TallyMatchesBallots, Ballots, DelPoll
  <2>3. QED
    BY <2>1, <2>2
<1>3. ASSUME NEW q \in Polls, NEW v \in voters'[q]
      PROVE  userVotes'[v][q] \in voteFields'[q]
  BY DEF KeysInv, TallyMatchesBallots, DelPoll
<1>4. ASSUME NEW q \in Polls
      PROVE  PollKeys(q)' /\ Continues(q)
  <2>1. CASE q = p
    BY <1>1, <2>1 DEF DelPoll, PollKeys, Continues, Live
  <2>2. CASE q # p
    BY <2>2 DEF KeysInv, DelPoll, PollKeys, Continues, Live, indexVars
  <2>3. QED
    BY <2>1, <2>2
<1>5. LivePollListed'
  BY <1>1 DEF KeysInv, LivePollListed, DelPoll, Live, indexVars
<1>6. QED
  BY <1>1, <1>2, <1>3, <1>4, <1>5 DEF KeysInv, TallyMatchesBallots

\* The lists lose a poll only when it is not live any more.
LEMMA DropKeys ==
  ASSUME KeyspaceTypeOK, KeysInv, NEW p \in Polls, NEW u \in Users, ~Live(p),
         SRemIndex(p) \/ SRemPublic(p) \/ ZRemCreated(p, u), usedIds' = usedIds
  PROVE  KeysInv' /\ \A q \in Polls : Continues(q)
<1>1. UNCHANGED <<meta, options, voteFields, votes, voters, userVotes>>
  BY DEF SRemIndex, SRemPublic, ZRemCreated, pollVars
<1>2. TallyMatchesBallots'
  BY <1>1 DEF KeysInv, TallyMatchesBallots, Ballots
<1>3. publicIndex' \subseteq publicIndex
  BY DEF SRemIndex, SRemPublic, ZRemCreated
<1>4. \A q \in Polls : PollKeys(q)' /\ Continues(q)
  BY <1>1, <1>3 DEF KeysInv, PollKeys, Continues, Live
<1>5. LivePollListed'
  <2>1. SUFFICES ASSUME NEW q \in Polls, Live(q)
                 PROVE  /\ q \in pollsIndex'
                        /\ q \in publicIndex' <=> meta[q].isPublic
                        /\ q \in createdPolls'[meta[q].createdBy]
    BY <1>1 DEF LivePollListed, Live
  <2>2. q # p /\ q \in pollsIndex /\ q \in createdPolls[meta[q].createdBy]
           /\ (q \in publicIndex <=> meta[q].isPublic)
    BY <2>1 DEF KeysInv, LivePollListed
  <2>3. meta[q].createdBy \in Users
    BY <2>1 DEF KeyspaceTypeOK, Meta, Live
  <2>4. CASE SRemIndex(p)
    BY <2>2, <2>4 DEF SRemIndex
  <2>5. CASE SRemPublic(p)
    BY <2>2, <2>5 DEF SRemPublic
  <2>6. CASE ZRemCreated(p, u)
    <3>1. pollsIndex' = pollsIndex /\ publicIndex' = publicIndex
      BY <2>6 DEF ZRemCreated
    <3>2. q \in createdPolls'[meta[q].createdBy]
      BY <2>2, <2>3, <2>6 DEF ZRemCreated, KeyspaceTypeOK
    <3>3. QED
      BY <2>2, <3>1, <3>2
  <2>7. QED
    BY <2>4, <2>5, <2>6
<1>6. QED
  BY <1>2, <1>4, <1>5 DEF KeysInv

-----------------------------------------------------------------------------
(* The inductive invariant *)

\* What a request knows stays true while others take their steps.
LEMMA KnowsStable ==
  ASSUME TypeOK, KeysInv', NEW j \in Procs, pc[j] # "idle", RequestKnows(j),
         \A q \in Polls : Continues(q),
         pc'[j] = pc[j], req'[j] = req[j], view'[j] = view[j]
  PROVE  RequestKnows(j)'
<1>1. req[j].poll \in Polls
  BY BusyRequest
<1>2. PollKeys(req[j].poll)' /\ Continues(req[j].poll)
  BY <1>1 DEF KeysInv
<1>3. QED
  BY <1>1, <1>2 DEF RequestKnows, PollKeys, Continues, Live

\* The keys after a step of a request under way.
LEMMA StepKeys ==
  ASSUME IndInv, NEW self \in Procs, Step(self) \/ Abort(self), ~Finish(self)
  PROVE  KeysInv' /\ \A q \in Polls : Continues(q)
<1>. DEFINE r == req[self]
<1>1. pc[self] # "idle" /\ Progresses(self)
  BY StepsProgress DEF Step, IndInv
<1>2. /\ r.poll \in Polls /\ r.user \in Users /\ r.key \in Keys \cup {NoKey}
      /\ r.op = "vote" => r.option \in Options
  BY <1>1, BusyRequest DEF IndInv
<1>3. KeyspaceTypeOK /\ KeysInv /\ RequestKnows(self) /\ usedIds' = usedIds
  BY <1>1 DEF IndInv, TypeOK, KeysInv, Progresses
<1>4. CASE VoteStep(self)
  BY <1>2, <1>3, <1>4, VoteKeys DEF VoteStep
<1>5. CASE UndoStep(self)
  BY <1>2, <1>3, <1>5, UndoKeys DEF UndoStep
<1>6. CASE CloseSet(self)
  BY <1>2, <1>3, <1>6, CloseKeys DEF CloseSet, RequestKnows
<1>7. CASE DeleteKeys(self)
  BY <1>2, <1>3, <1>7, DeleteKeysKeys DEF DeleteKeys, RequestKnows
<1>8. CASE DropIndex(self) \/ DropPublic(self) \/ DropCreated(self)
  BY <1>2, <1>3, <1>8, DropKeys DEF DropIndex, DropPublic, DropCreated, RequestKnows
<1>9. CASE MarkStep(self)
  BY <1>3, <1>9, NoPollChange
     DEF MarkStep, SetIdem, keyVars, pollVars, indexVars
<1>10. CASE \/ ReadMeta(self) \/ ReadOptions(self) \/ ReadVotes(self)
            \/ CheckKey(self) \/ Abort(self)
  BY <1>3, <1>10, NoPollChange
     DEF ReadMeta, ReadOptions, ReadVotes, CheckKey, Abort, keyVars, pollVars,
         indexVars
<1>11. QED
  BY <1>4, <1>5, <1>6, <1>7, <1>8, <1>9, <1>10 DEF Step

\* getPoll changes of what it has read only is_closed and the vote fields.
LEMMA PollReadKeeps ==
  ASSUME NEW v \in View, NEW fields \in SUBSET Options
  PROVE  /\ PollRead(v, fields).meta.createdBy = v.meta.createdBy
         /\ PollRead(v, fields).options = v.options
         /\ PollRead(v, fields).fields = fields
<1>1. v.meta \in Meta
  BY DEF View
<1>2. QED
  BY <1>1 DEF PollRead, View, Meta

\* What the request that takes the step knows afterwards.
LEMMA StepKnows ==
  ASSUME IndInv, NEW self \in Procs, Step(self) \/ Abort(self), ~Finish(self),
         KeysInv', \A q \in Polls : Continues(q)
  PROVE  RequestKnows(self)'
<1>. DEFINE r == req[self]
            p == r.poll
<1>1. pc[self] # "idle" /\ Progresses(self)
  BY StepsProgress DEF Step, IndInv
<1>2. p \in Polls /\ r.user \in Users
  BY <1>1, BusyRequest DEF IndInv
<1>3. /\ RequestKnows(self) /\ req' = req /\ TypeOK
      /\ PollKeys(p) /\ PollKeys(p)' /\ Continues(p)
  BY <1>1, <1>2 DEF IndInv, Progresses, KeysInv
<1>. USE DEF TypeOK
<1>4. CASE VoteStep(self) \/ UndoStep(self)
  BY <1>3, <1>4
     DEF VoteStep, UndoStep, ScriptAnswered, ScriptReturns, Goto, Answer,
         RequestKnows, Replies
<1>5. CASE ReadMeta(self)
  BY <1>2, <1>3, <1>5
     DEF ReadMeta, Goto, Answer, RequestKnows, PollKeys, Live, View, keyVars,
         pollVars, ghostVars
<1>6. CASE ReadOptions(self)
  BY <1>2, <1>3, <1>6
     DEF ReadOptions, Goto, RequestKnows, PollKeys, Live, View, keyVars, pollVars,
         ghostVars
<1>7. CASE ReadVotes(self)
  <2>. DEFINE v == PollRead(view[self], voteFields[p])
  <2>1. view[self] \in View /\ voteFields[p] \in SUBSET Options
    BY <1>2, <1>3 DEF KeyspaceTypeOK
  <2>2. v.meta.createdBy = view[self].meta.createdBy
    BY <2>1, PollReadKeeps
  <2>3. CASE pc'[self] = "done"
    BY <2>3 DEF RequestKnows
  <2>4. CASE /\ pc'[self] \in {"write", "checkKey"}
             /\ v.meta.createdBy = r.user
    BY <1>3, <1>7, <2>2, <2>4
       DEF ReadVotes, RequestKnows, Live, keyVars, pollVars, ghostVars
  <2>5. QED
    BY <1>3, <1>7, <2>3, <2>4 DEF ReadVotes, AfterCheck, AnswerPoll, Answer, Goto
<1>8. CASE CheckKey(self)
  BY <1>3, <1>8
     DEF CheckKey, KeyChecked, Goto, Answer, RequestKnows, Live, keyVars, pollVars,
         ghostVars
<1>9. CASE CloseSet(self)
  BY <1>3, <1>9
     DEF CloseSet, Advance, AfterClose, Goto, RequestKnows, Continues, Live, ghostVars
<1>10. CASE DeleteKeys(self)
  <2>1. ~Live(p)'
    BY <1>2, <1>3, <1>10, DeleteKeysKeys
       DEF DeleteKeys, IndInv, KeysInv, RequestKnows, ghostVars
  <2>2. QED
    BY <1>3, <1>10, <2>1
       DEF DeleteKeys, Advance, Goto, RequestKnows, Live, ghostVars
<1>11. CASE DropIndex(self) \/ DropPublic(self) \/ DropCreated(self)
  BY <1>3, <1>11
     DEF DropIndex, DropPublic, DropCreated, Advance, Goto, Answer, RequestKnows,
         Continues, Live, ghostVars
<1>12. CASE MarkStep(self) \/ Abort(self)
  BY <1>3, <1>12 DEF MarkStep, Abort, Goto, Answer, RequestKnows
<1>13. QED
  BY <1>4, <1>5, <1>6, <1>7, <1>8, <1>9, <1>10, <1>11, <1>12 DEF Step

\* An answer shows the poll's options and its counted options alike.
LEMMA StepNotTorn ==
  ASSUME IndInv, NEW self \in Procs, Step(self) \/ Abort(self), ~Finish(self)
  PROVE  ReadNotTorn'
<1>1. pc[self] # "idle" /\ Progresses(self)
  BY StepsProgress DEF Step, IndInv
<1>2. TypeOK /\ RequestKnows(self) /\ ReadNotTorn
  BY <1>1 DEF IndInv
<1>3. NoView.fields = {}
  BY DEF NoView
<1>4. ASSUME NEW j \in Procs, j # self
      PROVE  pc'[j] = pc[j] /\ view'[j] = view[j]
  BY <1>1, <1>2, <1>4 DEF Progresses, TypeOK
<1>5. ASSUME pc'[self] = "done", view'[self].fields # {}
      PROVE  view'[self].options = view'[self].fields
  <2>1. CASE view'[self] = NoView
    BY <1>3, <1>5, <2>1
  <2>2. CASE ReadVotes(self)
    <3>. DEFINE v == PollRead(view[self], voteFields[req[self].poll])
    <3>1. view[self] \in View /\ voteFields[req[self].poll] \in SUBSET Options
      BY <1>1, <1>2, BusyRequest DEF TypeOK, KeyspaceTypeOK
    <3>2. v.options = view[self].options /\ v.fields = voteFields[req[self].poll]
      BY <3>1, PollReadKeeps
    <3>3. view'[self] = v \/ view'[self] = NoView
      BY <1>2, <2>2
         DEF ReadVotes, AfterCheck, AnswerPoll, Answer, TypeOK
    <3>4. QED
      BY <1>2, <1>3, <1>5, <2>2, <3>2, <3>3 DEF ReadVotes, RequestKnows
  <2>3. CASE ~ReadVotes(self)
    <3>1. view'[self] = NoView
      <4>. USE <1>1, <1>2, <1>5, <2>3 DEF TypeOK, Goto, Answer, Advance, StartRead
      <4>1. CASE VoteStep(self) \/ UndoStep(self)
        BY <4>1 DEF VoteStep, UndoStep, ScriptAnswered, ScriptReturns
      <4>2. CASE ReadMeta(self) \/ ReadOptions(self) \/ CheckKey(self)
        BY <4>2 DEF ReadMeta, ReadOptions, CheckKey, KeyChecked
      <4>3. CASE CloseSet(self) \/ DeleteKeys(self) \/ DropIndex(self) \/ DropPublic(self)
        BY <4>3 DEF CloseSet, DeleteKeys, DropIndex, DropPublic, AfterClose
      <4>4. CASE DropCreated(self) \/ MarkStep(self) \/ Abort(self)
        BY <4>4 DEF DropCreated, MarkStep, Abort
      <4>5. QED
        BY <4>1, <4>2, <4>3, <4>4 DEF Step
    <3>2. QED
      BY <2>1, <3>1
  <2>4. QED
    BY <2>2, <2>3
<1>6. QED
  BY <1>2, <1>4, <1>5 DEF ReadNotTorn

\* A key is marked whenever an effect is recorded under it, and only ever for
\* longer.
LEMMA MarkCovers ==
  ASSUME TypeOK, KeyCoversEffect, NEW u \in Users, NEW k \in Keys \cup {NoKey},
         MarkKey(u, k) \/ idem' = idem, now' = now,
         \/ lastEffect' = lastEffect
         \/ /\ MarkKey(u, k) /\ k # NoKey
            /\ lastEffect' = [lastEffect EXCEPT ![u][k] = now]
  PROVE  KeyCoversEffect'
<1>1. /\ now \in Nat /\ IdemTicks \in Nat
      /\ idem \in [Users -> [Keys -> Nat]]
      /\ lastEffect \in [Users -> [Keys -> Nat]]
  BY ClockAssumption DEF TypeOK, KeyspaceTypeOK, IdemTicks
<1>2. ASSUME NEW v \in Users, NEW l \in Keys
      PROVE  /\ lastEffect'[v][l] <= now
             /\ lastEffect'[v][l] # 0 => lastEffect'[v][l] + IdemTicks <= idem'[v][l]
  <2>1. /\ lastEffect[v][l] <= now
        /\ lastEffect[v][l] # 0 => lastEffect[v][l] + IdemTicks <= idem[v][l]
    BY DEF KeyCoversEffect
  <2>2. CASE v = u /\ l = k
    BY <1>1, <2>1, <2>2 DEF MarkKey
  <2>3. CASE ~(v = u /\ l = k)
    <3>1. lastEffect'[v][l] = lastEffect[v][l] /\ idem'[v][l] = idem[v][l]
      BY <1>1, <2>3 DEF MarkKey
    <3>2. QED
      BY <2>1, <3>1
  <2>4. QED
    BY <2>2, <2>3
<1>3. IdemTicks' = IdemTicks
  BY DEF IdemTicks
<1>4. QED
  BY <1>2, <1>3 DEF KeyCoversEffect

LEMMA StepCovers ==
  ASSUME IndInv, NEW self \in Procs, Step(self) \/ Abort(self), ~Finish(self)
  PROVE  KeyCoversEffect'
<1>. DEFINE r == req[self]
<1>1. pc[self] # "idle" /\ TypeOK /\ KeyCoversEffect
  BY StepsProgress DEF Step, IndInv
<1>2. r.user \in Users /\ r.key \in Keys \cup {NoKey}
  BY <1>1, BusyRequest
<1>3. CASE VoteStep(self)
  <2>1. CASE VoteResult(r.poll, r.user, r.option, r.key) = "ok"
    BY <1>1, <1>2, <1>3, <2>1, MarkCovers
       DEF VoteStep, VoteScript, ApplyVote, RecordEffect
  <2>2. CASE VoteResult(r.poll, r.user, r.option, r.key) # "ok"
    BY <1>1, <1>2, <1>3, <2>2, MarkCovers
       DEF VoteStep, VoteScript, RecordEffect, keyVars
  <2>3. QED
    BY <2>1, <2>2
<1>4. CASE UndoStep(self)
  <2>1. CASE UndoResult(r.poll, r.user, r.key) = "ok"
    BY <1>1, <1>2, <1>4, <2>1, MarkCovers
       DEF UndoStep, UndoScript, ApplyUndo, RecordEffect
  <2>2. CASE UndoResult(r.poll, r.user, r.key) # "ok"
    BY <1>1, <1>2, <1>4, <2>2, MarkCovers
       DEF UndoStep, UndoScript, RecordEffect, keyVars
  <2>3. QED
    BY <2>1, <2>2
<1>5. CASE MarkStep(self)
  BY <1>1, <1>2, <1>5, MarkCovers DEF MarkStep, SetIdem, keyVars, ghostVars
<1>6. CASE ~VoteStep(self) /\ ~UndoStep(self) /\ ~MarkStep(self)
  <2>1. idem' = idem /\ lastEffect' = lastEffect /\ now' = now
    BY <1>6
       DEF Step, ReadMeta, ReadOptions, ReadVotes, CheckKey, CloseSet, DeleteKeys,
           DropIndex, DropPublic, DropCreated, Abort, SetClosed, DelPoll, SRemIndex,
           SRemPublic, ZRemCreated, keyVars, ghostVars
  <2>2. QED
    BY <1>1, <1>2, <2>1, MarkCovers
<1>7. QED
  BY <1>3, <1>4, <1>5, <1>6

LEMMA StepInd ==
  ASSUME IndInv, NEW self \in Procs, Step(self) \/ Abort(self), ~Finish(self)
  PROVE  IndInv'
<1>1. TypeOK'
  BY StepTypes DEF IndInv
<1>2. KeysInv' /\ \A q \in Polls : Continues(q)
  BY StepKeys
<1>3. pc[self] # "idle" /\ Progresses(self)
  BY StepsProgress DEF Step, IndInv
<1>4. ASSUME NEW j \in Procs, pc'[j] # "idle"
      PROVE  RequestKnows(j)'
  <2>1. CASE j = self
    BY <1>2, <2>1, StepKnows
  <2>2. CASE j # self
    <3>1. pc'[j] = pc[j] /\ req'[j] = req[j] /\ view'[j] = view[j]
      BY <1>3, <2>2 DEF Progresses, IndInv, TypeOK
    <3>2. QED
      BY <1>2, <1>4, <3>1, KnowsStable DEF IndInv
  <2>3. QED
    BY <2>1, <2>2
<1>5. ReadNotTorn' /\ KeyCoversEffect'
  BY StepNotTorn, StepCovers
<1>6. QED
  BY <1>1, <1>2, <1>4, <1>5 DEF IndInv, KeysInv

\* The steps that begin and end a request.
LEMMA EdgeInd ==
  ASSUME IndInv, NEW self \in Procs,
         Finish(self) \/ \E r \in Requests : Begin(self, r)
  PROVE  IndInv'
<1>1. TypeOK'
  BY FinishTypes, BeginTypes DEF IndInv
<1>2. UNCHANGED <<keyVars, now, usedIds, lastEffect>>
  BY DEF Finish, Begin, ghostVars
<1>3. KeysInv' /\ \A q \in Polls : Continues(q)
  BY <1>2, NoPollChange
     DEF IndInv, TypeOK, KeysInv, keyVars, pollVars, indexVars
<1>4. /\ pc'[self] \in {"idle", "script", "readMeta"}
      /\ \A j \in Procs \ {self} :
           pc'[j] = pc[j] /\ req'[j] = req[j] /\ view'[j] = view[j]
  BY DEF Finish, Begin, Goto, StartRead, IndInv, TypeOK
<1>5. ASSUME NEW j \in Procs, pc'[j] # "idle"
      PROVE  RequestKnows(j)'
  <2>1. CASE j = self
    BY <1>4, <2>1 DEF RequestKnows
  <2>2. CASE j # self
    BY <1>3, <1>4, <1>5, <2>2, KnowsStable DEF IndInv
  <2>3. QED
    BY <2>1, <2>2
<1>6. ReadNotTorn'
  BY <1>4 DEF ReadNotTorn, IndInv
<1>7. KeyCoversEffect'
  BY <1>2 DEF KeyCoversEffect, IndInv, keyVars, IdemTicks
<1>8. QED
  BY <1>1, <1>3, <1>5, <1>6, <1>7 DEF IndInv, KeysInv

LEMMA CreateInd ==
  ASSUME IndInv, NEW p \in Polls, NEW u \in Users, NEW opts \in OptionLists,
         NEW e \in ExpiryTicks, NEW public \in Visibility,
         Create(p, u, opts, e, public)
  PROVE  IndInv'
<1>1. TypeOK'
  BY CreateTypes DEF IndInv
<1>2. opts \in SUBSET Options /\ public \in BOOLEAN
  BY OptionListsAssumption, ModeAssumption
<1>3. KeysInv' /\ \A q \in Polls : Continues(q)
  <2>1. KeyspaceTypeOK /\ KeysInv
    BY DEF IndInv, TypeOK, KeysInv
  <2>2. p \notin usedIds /\ CreateTx(p, u, opts, e, public) /\ usedIds' = usedIds \cup {p}
    BY DEF Create
  <2>3. QED
    BY <1>2, <2>1, <2>2, CreateKeys
<1>4. \A j \in Procs : pc'[j] # "idle" => RequestKnows(j)'
  BY <1>3, KnowsStable DEF Create, procVars, IndInv
<1>5. ReadNotTorn'
  BY DEF ReadNotTorn, IndInv, Create, procVars
<1>6. KeyCoversEffect'
  BY DEF KeyCoversEffect, IndInv, Create, CreateTx, IdemTicks
<1>7. QED
  BY <1>1, <1>3, <1>4, <1>5, <1>6 DEF IndInv, KeysInv

LEMMA InitInd == Init => IndInv
<1>. SUFFICES ASSUME Init
              PROVE  IndInv
  OBVIOUS
<1>1. TypeOK
  BY InitTypes
<1>2. \A p \in Polls : ~Live(p) /\ PollKeys(p)
  BY DEF Init, KeyspaceInit, PollKeys, Live, NoMeta
<1>3. TallyMatchesBallots
  <2>1. ASSUME NEW p \in Polls, NEW o \in Options
        PROVE  votes[p][o] = Cardinality(Ballots(p, o))
    <3>1. Ballots(p, o) = {}
      BY DEF Init, KeyspaceInit, Ballots
    <3>2. QED
      BY <3>1, FS_EmptySet DEF Init, KeyspaceInit, NoVotes
  <2>2. \A p \in Polls : voters[p] = {}
    BY DEF Init, KeyspaceInit
  <2>3. QED
    BY <2>1, <2>2 DEF TallyMatchesBallots
<1>4. LivePollListed
  BY <1>2 DEF LivePollListed
<1>5. \A self \in Procs : pc[self] = "idle"
  BY DEF Init
<1>6. ReadNotTorn
  BY <1>5 DEF ReadNotTorn
<1>7. KeyCoversEffect
  BY DEF Init, KeyspaceInit, KeyCoversEffect
<1>8. QED
  BY <1>1, <1>2, <1>3, <1>4, <1>5, <1>6, <1>7 DEF IndInv

LEMMA NextInd ==
  ASSUME IndInv, [Next]_vars
  PROVE  IndInv'
<1>1. CASE \E self \in Procs, r \in Requests : Begin(self, r)
  BY <1>1, EdgeInd
<1>2. CASE \E self \in Procs : Step(self) \/ Abort(self)
  BY <1>2, EdgeInd, StepInd
<1>3. CASE \E p \in Polls, u \in Users, opts \in OptionLists, e \in ExpiryTicks,
              public \in Visibility : Create(p, u, opts, e, public)
  BY <1>3, CreateInd
<1>4. CASE Tick \/ UNCHANGED vars
  <2>1. /\ UNCHANGED <<keyVars, procVars, ghostVars>>
        /\ now' \in Nat \ {0} /\ now <= now'
    BY <1>4 DEF Tick, vars, IndInv, TypeOK, KeyspaceTypeOK
  <2>2. TypeOK'
    BY <2>1 DEF IndInv, TypeOK, KeyspaceTypeOK, keyVars, pollVars, indexVars,
                procVars, ghostVars
  <2>3. KeysInv' /\ \A q \in Polls : Continues(q)
    BY <2>1, NoPollChange
       DEF IndInv, TypeOK, KeysInv, keyVars, pollVars, indexVars, ghostVars
  <2>4. \A j \in Procs : pc'[j] # "idle" => RequestKnows(j)'
    BY <2>1, <2>3, KnowsStable DEF procVars, IndInv
  <2>5. ReadNotTorn'
    BY <2>1 DEF ReadNotTorn, IndInv, procVars
  <2>6. KeyCoversEffect'
    BY <2>1 DEF KeyCoversEffect, IndInv, TypeOK, KeyspaceTypeOK, keyVars, ghostVars,
                IdemTicks
  <2>7. QED
    BY <2>2, <2>3, <2>4, <2>5, <2>6 DEF IndInv, KeysInv
<1>5. QED
  BY <1>1, <1>2, <1>3, <1>4 DEF Next

\* The keys of every poll agree with each other at every moment, and what a
\* request has read of its poll is still true or is about a deleted poll.
THEOREM Inductive == Spec => []IndInv
  BY InitInd, NextInd, PTL DEF Spec

-----------------------------------------------------------------------------
(* What follows from it *)

\* The published counts are always the number of recorded ballots.
THEOREM TallyCorrect == Spec => []TallyMatchesBallots
<1>1. IndInv => TallyMatchesBallots
  BY DEF IndInv
<1>2. QED
  BY <1>1, Inductive, PTL

\* A deleted poll holds no ballot, count or option, whatever late commands find.
THEOREM DeletedInert == Spec => []DeletedPollInert
<1>1. IndInv => DeletedPollInert
  BY DEF IndInv, TypeOK, PollKeys, DeletedPollInert
<1>2. QED
  BY <1>1, Inductive, PTL

\* A live poll is in each list that must show it.
THEOREM LiveListed == Spec => []LivePollListed
<1>1. IndInv => LivePollListed
  BY DEF IndInv
<1>2. QED
  BY <1>1, Inductive, PTL

\* An answer that shows counts shows them for exactly the poll's options.
THEOREM ReadsWhole == Spec => []ReadNotTorn
<1>1. IndInv => ReadNotTorn
  BY DEF IndInv
<1>2. QED
  BY <1>1, Inductive, PTL

\* A key that the scripts do not find was not used for an effect during a TTL.
LEMMA UnseenUnspent ==
  ASSUME IndInv, NEW self \in Procs, pc[self] # "idle",
         ~IdemSeen(req[self].user, req[self].key)
  PROVE  KeyUnspent(req[self])
<1>. DEFINE r == req[self]
<1>1. TypeOK /\ KeyCoversEffect
  BY DEF IndInv
<1>2. r.user \in Users /\ r.key \in Keys \cup {NoKey}
  BY <1>1, BusyRequest
<1>3. CASE r.key = NoKey
  BY <1>3 DEF KeyUnspent
<1>4. CASE r.key \in Keys /\ r.key # NoKey
  <2>1. ~(now <= idem[r.user][r.key])
    BY <1>4 DEF IdemSeen
  <2>2. \/ lastEffect[r.user][r.key] = 0
        \/ lastEffect[r.user][r.key] + IdemTicks <= idem[r.user][r.key]
    BY <1>1, <1>2, <1>4 DEF KeyCoversEffect
  <2>3. /\ now \in Nat /\ IdemTicks \in Nat
        /\ idem[r.user][r.key] \in Nat /\ lastEffect[r.user][r.key] \in Nat
    BY <1>1, <1>2, <1>4, ClockAssumption DEF TypeOK, KeyspaceTypeOK, IdemTicks
  <2>4. QED
    BY <2>1, <2>2, <2>3 DEF KeyUnspent
<1>5. QED
  BY <1>2, <1>3, <1>4

\* Two effects under one idempotency key lie more than a TTL apart.
THEOREM KeyedEffects == Spec => KeyedEffectsSpaced
<1>1. ASSUME IndInv, NEW self \in Procs, TakesEffect(self)
      PROVE  KeyUnspent(req[self])
  <2>. DEFINE r == req[self]
  <2>1. pc[self] # "idle"
    BY <1>1 DEF TakesEffect, VoteStep, UndoStep
  <2>2. ~IdemSeen(r.user, r.key)
    <3>1. CASE VoteStep(self)
      BY <1>1, <3>1
         DEF TakesEffect, VoteStep, VoteScript, VoteResult, Gate, keyVars
    <3>2. CASE UndoStep(self)
      BY <1>1, <3>2
         DEF TakesEffect, UndoStep, UndoScript, UndoResult, Gate, keyVars
    <3>3. QED
      BY <1>1, <3>1, <3>2 DEF TakesEffect
  <2>3. QED
    BY <1>1, <2>1, <2>2, UnseenUnspent
<1>2. IndInv => \A self \in Procs : TakesEffect(self) => KeyUnspent(req[self])
  BY <1>1
<1>3. QED
  BY <1>2, Inductive, PTL DEF KeyedEffectsSpaced

\* A poll is closed or deleted only by a request of its creator.
THEOREM OwnerEnds == Spec => OwnerEndsPoll
<1>1. ASSUME IndInv, Next, NEW p \in Polls, Live(p),
             ~Live(p)' \/ meta'[p].isClosed # meta[p].isClosed
      PROVE  \E self \in Procs : /\ pc[self] = "write"
                                 /\ req[self].poll = p
                                 /\ req[self].user = meta[p].createdBy
  <2>1. meta'[p] # meta[p] /\ PollKeys(p) /\ meta \in [Polls -> Meta]
    BY <1>1 DEF IndInv, TypeOK, KeyspaceTypeOK, Live
  <2>2. PICK self \in Procs : CloseSet(self) \/ DeleteKeys(self)
    <3>1. ASSUME NEW q \in Polls, NEW u \in Users, NEW opts, NEW e, NEW public,
                 Create(q, u, opts, e, public)
          PROVE  FALSE
      <4>1. q # p
        BY <1>1, <2>1, <3>1 DEF Create, PollKeys
      <4>2. meta'[p] = meta[p]
        BY <2>1, <3>1, <4>1 DEF Create, CreateTx
      <4>3. QED
        BY <2>1, <4>2
    <3>2. meta' # meta
      BY <2>1
    <3>3. ASSUME NEW self \in Procs,
                 Step(self) \/ Abort(self) \/ \E r \in Requests : Begin(self, r)
          PROVE  CloseSet(self) \/ DeleteKeys(self)
      BY <3>2, <3>3
         DEF Step, VoteStep, UndoStep, VoteScript, UndoScript, ApplyVote, ApplyUndo,
             ReadMeta, ReadOptions, ReadVotes, CheckKey, DropIndex, DropPublic,
             DropCreated, MarkStep, Finish, Abort, Begin, SRemIndex, SRemPublic,
             ZRemCreated, SetIdem, keyVars, pollVars
    <3>4. ~Tick
      BY <3>2 DEF Tick, keyVars, pollVars
    <3>5. QED
      BY <1>1, <3>1, <3>3, <3>4 DEF Next
  <2>3. pc[self] = "write" /\ RequestKnows(self)
    BY <1>1, <2>2 DEF CloseSet, DeleteKeys, IndInv
  <2>4. req[self].poll = p
    BY <2>1, <2>2 DEF CloseSet, DeleteKeys, SetClosed, DelPoll
  <2>5. QED
    BY <1>1, <2>3, <2>4 DEF RequestKnows
<1>2. IndInv /\ Next =>
        \A p \in Polls :
          Live(p) /\ (~Live(p)' \/ meta'[p].isClosed # meta[p].isClosed) =>
            \E self \in Procs : /\ pc[self] = "write"
                                /\ req[self].poll = p
                                /\ req[self].user = meta[p].createdBy
  BY <1>1
<1>3. QED
  BY <1>2, Inductive, PTL DEF OwnerEndsPoll, Spec

-----------------------------------------------------------------------------
(* What one step does to a poll that exists *)

\* HSET is_closed true keeps the other fields.
LEMMA ClosedMeta ==
  ASSUME NEW m \in Meta
  PROVE  LET c == [m EXCEPT !.present = TRUE, !.isClosed = TRUE] IN
         /\ c.isClosed /\ c.createdBy = m.createdBy
         /\ c.expiresAt = m.expiresAt /\ c.isPublic = m.isPublic
  BY DEF Meta

\* The metadata of a poll whose id is in use changes only by HSET and by DEL: it
\* keeps its fields and stays closed, or it is gone.
LEMMA MetaStep ==
  ASSUME IndInv, [Next]_vars, NEW p \in Polls, p \in usedIds
  PROVE  \/ /\ meta'[p].createdBy = meta[p].createdBy
            /\ meta'[p].expiresAt = meta[p].expiresAt
            /\ meta[p].isClosed => meta'[p].isClosed
         \/ meta'[p] = NoMeta
<1>1. meta \in [Polls -> Meta]
  BY DEF IndInv, TypeOK, KeyspaceTypeOK
<1>2. ASSUME NEW q \in Polls, NEW u \in Users, NEW opts, NEW e, NEW public,
             Create(q, u, opts, e, public)
      PROVE  meta'[p] = meta[p]
  <2>1. q # p
    BY <1>2 DEF Create
  <2>2. QED
    BY <1>1, <1>2, <2>1 DEF Create, CreateTx
<1>3. ASSUME NEW self \in Procs, CloseSet(self)
      PROVE  /\ meta'[p].createdBy = meta[p].createdBy
             /\ meta'[p].expiresAt = meta[p].expiresAt
             /\ meta[p].isClosed => meta'[p].isClosed
  <2>1. \/ meta'[p] = meta[p]
        \/ meta'[p] = [meta[p] EXCEPT !.present = TRUE, !.isClosed = TRUE]
    BY <1>1, <1>3 DEF CloseSet, SetClosed
  <2>2. QED
    BY <1>1, <2>1, ClosedMeta
<1>4. ASSUME NEW self \in Procs, DeleteKeys(self)
      PROVE  meta'[p] = meta[p] \/ meta'[p] = NoMeta
  BY <1>1, <1>4 DEF DeleteKeys, DelPoll
<1>5. ASSUME NEW self \in Procs,
             Step(self) \/ Abort(self) \/ \E r \in Requests : Begin(self, r),
             ~CloseSet(self), ~DeleteKeys(self)
      PROVE  meta' = meta
  BY <1>5
     DEF Step, VoteStep, UndoStep, VoteScript, UndoScript, ApplyVote, ApplyUndo,
         ReadMeta, ReadOptions, ReadVotes, CheckKey, DropIndex, DropPublic,
         DropCreated, MarkStep, Finish, Abort, Begin, SRemIndex, SRemPublic,
         ZRemCreated, SetIdem, keyVars, pollVars
<1>6. CASE Tick \/ UNCHANGED vars
  BY <1>6 DEF Tick, vars, keyVars, pollVars
<1>7. CASE \E self \in Procs :
             Step(self) \/ Abort(self) \/ \E r \in Requests : Begin(self, r)
  BY <1>3, <1>4, <1>5, <1>7
<1>8. QED
  BY <1>2, <1>6, <1>7 DEF Next

\* The ballots of a poll change only by a script that found it open, or with the
\* poll's end.
LEMMA BallotStep ==
  ASSUME IndInv, [Next]_vars, NEW p \in Polls, p \in usedIds, Live(p)',
         votes'[p] # votes[p] \/ voters'[p] # voters[p]
  PROVE  ~meta[p].isClosed /\ ~PastExpiry(meta[p])
<1>. USE DEF IndInv, TypeOK, KeyspaceTypeOK
<1>1. ASSUME NEW q \in Polls, NEW u \in Users, NEW opts, NEW e, NEW public,
             Create(q, u, opts, e, public)
      PROVE  FALSE
  <2>1. q # p
    BY <1>1 DEF Create
  <2>2. QED
    BY <1>1, <2>1 DEF Create, CreateTx
<1>2. ASSUME NEW self \in Procs, VoteStep(self)
      PROVE  ~meta[p].isClosed /\ ~PastExpiry(meta[p])
  <2>. DEFINE r == req[self]
  <2>1. VoteResult(r.poll, r.user, r.option, r.key) = "ok" /\ r.poll = p
    BY <1>2 DEF VoteStep, VoteScript, ApplyVote, keyVars, pollVars
  <2>2. QED
    BY <2>1 DEF VoteResult, Gate
<1>3. ASSUME NEW self \in Procs, UndoStep(self)
      PROVE  ~meta[p].isClosed /\ ~PastExpiry(meta[p])
  <2>. DEFINE r == req[self]
  <2>1. UndoResult(r.poll, r.user, r.key) = "ok" /\ r.poll = p
    BY <1>3 DEF UndoStep, UndoScript, ApplyUndo, keyVars, pollVars
  <2>2. QED
    BY <2>1 DEF UndoResult, Gate
<1>4. ASSUME NEW self \in Procs, DeleteKeys(self)
      PROVE  FALSE
  <2>1. req[self].poll # p
    BY <1>4 DEF DeleteKeys, DelPoll, NoMeta, Live
  <2>2. QED
    BY <1>4, <2>1 DEF DeleteKeys, DelPoll
<1>5. ASSUME NEW self \in Procs,
             Step(self) \/ Abort(self) \/ \E r \in Requests : Begin(self, r),
             ~VoteStep(self), ~UndoStep(self), ~DeleteKeys(self)
      PROVE  votes' = votes /\ voters' = voters
  BY <1>5
     DEF Step, ReadMeta, ReadOptions, ReadVotes, CheckKey, CloseSet, DropIndex,
         DropPublic, DropCreated, MarkStep, Finish, Abort, Begin, SetClosed,
         SRemIndex, SRemPublic, ZRemCreated, SetIdem, keyVars, pollVars
<1>6. ~(Tick \/ UNCHANGED vars)
  BY DEF Tick, vars, keyVars, pollVars
<1>7. QED
  BY <1>1, <1>2, <1>3, <1>4, <1>5, <1>6 DEF Next

\* A live poll's id is in use.
LEMMA LiveUsed ==
  ASSUME IndInv, NEW p \in Polls, Live(p)
  PROVE  p \in usedIds
  BY DEF IndInv, PollKeys

\* Once closed a poll never reopens and its ballots never change, until it is
\* deleted (ClosedIsFinal of RedisStore).
THEOREM ClosedStays == Spec => ClosedIsFinal
<1>1. ASSUME IndInv, Next, NEW p \in Polls, Live(p), meta[p].isClosed, Live(p)'
      PROVE  meta'[p].isClosed /\ votes'[p] = votes[p] /\ voters'[p] = voters[p]
  <2>1. p \in usedIds /\ meta[p] \in Meta
    BY <1>1, LiveUsed DEF IndInv, TypeOK, KeyspaceTypeOK
  <2>2. meta'[p].isClosed
    BY <1>1, <2>1, MetaStep DEF Live, NoMeta
  <2>3. QED
    BY <1>1, <2>1, <2>2, BallotStep
<1>2. IndInv /\ Next =>
        \A p \in Polls : Live(p) /\ meta[p].isClosed /\ Live(p)' =>
          meta'[p].isClosed /\ votes'[p] = votes[p] /\ voters'[p] = voters[p]
  BY <1>1
<1>3. QED
  BY <1>2, Inductive, PTL DEF ClosedIsFinal, Spec

-----------------------------------------------------------------------------
(* Ballots stop with the expiry *)

\* A live poll has an expiry: 0 would be a missing field, which the scripts take
\* for a poll that never expires.
ExpirySet == \A p \in Polls : Live(p) => meta[p].expiresAt # 0

\* An instant a lead after the first one falls in a second that is not 0.
LEMMA ExpiryPositive ==
  ASSUME NEW e \in Nat, NEW t \in Nat \ {0}, e >= t + MinLeadTicks
  PROVE  Seconds(e) # 0
<1>1. TicksPerSecond \in Nat \ {0} /\ e >= TicksPerSecond
  BY ClockAssumption, ExpiryAssumption
<1>2. e \div TicksPerSecond # 0
  BY <1>1
<1>3. QED
  BY <1>2 DEF Seconds

LEMMA ExpiryStep ==
  ASSUME IndInv, ExpirySet, [Next]_vars
  PROVE  ExpirySet'
<1>. SUFFICES ASSUME NEW p \in Polls, Live(p)'
              PROVE  meta'[p].expiresAt # 0
  BY DEF ExpirySet
<1>1. CASE p \in usedIds
  <2>1. meta[p] \in Meta
    BY DEF IndInv, TypeOK, KeyspaceTypeOK
  <2>2. meta'[p].createdBy = meta[p].createdBy /\ meta'[p].expiresAt = meta[p].expiresAt
    BY <1>1, <2>1, MetaStep DEF Live, NoMeta
  <2>3. QED
    BY <2>2 DEF ExpirySet, Live
<1>2. CASE p \notin usedIds
  <2>1. p \in usedIds'
    BY NextInd DEF IndInv, PollKeys
  <2>2. PICK q \in Polls, u \in Users, opts \in OptionLists, e \in ExpiryTicks,
             public \in Visibility : Create(q, u, opts, e, public)
    <3>1. ASSUME NEW self \in Procs,
                 Step(self) \/ Abort(self) \/ \E r \in Requests : Begin(self, r)
          PROVE  usedIds' = usedIds
      BY <3>1
         DEF Step, VoteStep, UndoStep, ReadMeta, ReadOptions, ReadVotes, CheckKey,
             CloseSet, DeleteKeys, DropIndex, DropPublic, DropCreated, MarkStep,
             Finish, Abort, Begin, ghostVars
    <3>2. ~(Tick \/ UNCHANGED vars)
      BY <1>2, <2>1 DEF Tick, vars, ghostVars
    <3>3. QED
      BY <1>2, <2>1, <3>1, <3>2 DEF Next
  <2>3. q = p
    BY <1>2, <2>1, <2>2 DEF Create
  <2>4. meta'[p].expiresAt = Seconds(e)
    BY <2>2, <2>3 DEF Create, CreateTx, IndInv, TypeOK, KeyspaceTypeOK
  <2>5. Seconds(e) # 0
    BY <2>2, ExpiryAssumption, ExpiryPositive
       DEF Create, IndInv, TypeOK, KeyspaceTypeOK
  <2>6. QED
    BY <2>4, <2>5
<1>3. QED
  BY <1>1, <1>2

LEMMA ExpiryAlways == Spec => []ExpirySet
<1>1. Init => ExpirySet
  BY DEF Init, KeyspaceInit, ExpirySet, Live, NoMeta
<1>2. IndInv /\ ExpirySet /\ [Next]_vars => ExpirySet'
  BY ExpiryStep
<1>3. QED
  BY <1>1, <1>2, Inductive, PTL DEF Spec

\* Ballots of a live poll change only before the second that follows its stored
\* expiry second has begun (VotesStopWithinASecond of RedisStore).
THEOREM VotesStop == Spec => VotesStopWithinASecond
<1>1. ASSUME IndInv, ExpirySet, Next, NEW p \in Polls, Live(p), Live(p)',
             voters'[p] # voters[p]
      PROVE  now < (meta[p].expiresAt + 1) * TicksPerSecond
  <2>1. p \in usedIds /\ meta[p].expiresAt \in Nat /\ now \in Nat
    BY <1>1, LiveUsed DEF IndInv, TypeOK, KeyspaceTypeOK, Meta
  <2>2. ~PastExpiry(meta[p]) /\ meta[p].expiresAt # 0
    BY <1>1, <2>1, BallotStep DEF ExpirySet
  <2>3. ~(now \div TicksPerSecond > meta[p].expiresAt)
    BY <2>2 DEF PastExpiry, Seconds
  <2>4. TicksPerSecond \in Nat \ {0}
    BY ClockAssumption
  <2>5. QED
    BY <2>1, <2>3, <2>4
<1>2. IndInv /\ ExpirySet /\ Next =>
        \A p \in Polls : Live(p) /\ Live(p)' /\ voters'[p] # voters[p] =>
          now < (meta[p].expiresAt + 1) * TicksPerSecond
  BY <1>1
<1>3. QED
  BY <1>2, Inductive, ExpiryAlways, PTL DEF VotesStopWithinASecond, Spec

-----------------------------------------------------------------------------
(* Retries *)

\* A vote or undo is its script and then the reads of its answer, never the read
\* that checks an owner.
ScriptedStages ==
  \A self \in Procs : req[self].op \in {"vote", "undo"} =>
    \/ pc[self] \in {"idle", "script", "done"}
    \/ pc[self] \in Reads /\ answering[self]

LEMMA StagesStep ==
  ASSUME TypeOK, ScriptedStages, [Next]_vars
  PROVE  ScriptedStages'
<1>. DEFINE StageOK(i) ==
       req[i].op \in {"vote", "undo"} =>
         \/ pc[i] \in {"idle", "script", "done"}
         \/ pc[i] \in Reads /\ answering[i]
<1>1. /\ pc \in [Procs -> Labels] /\ answering \in [Procs -> BOOLEAN]
      /\ req \in [Procs -> Requests \cup {NoRequest}]
  BY DEF TypeOK
<1>2. \A i \in Procs : StageOK(i)
  BY DEF ScriptedStages
<1>3. CASE UNCHANGED procVars
  BY <1>2, <1>3 DEF ScriptedStages, procVars
<1>4. ASSUME NEW self \in Procs,
             Step(self) \/ Abort(self) \/ \E r \in Requests : Begin(self, r)
      PROVE  ScriptedStages'
  <2>1. ASSUME NEW i \in Procs, i # self
        PROVE  pc'[i] = pc[i] /\ req'[i] = req[i] /\ answering'[i] = answering[i]
    <3>1. CASE \E r \in Requests : Begin(self, r)
      BY <1>1, <2>1, <3>1 DEF Begin, Goto, StartRead
    <3>2. CASE Finish(self)
      BY <1>1, <2>1, <3>2 DEF Finish, Goto, StartRead
    <3>3. CASE (Step(self) /\ ~Finish(self)) \/ Abort(self)
      <4>1. Progresses(self)
        BY <3>3, StepsProgress DEF Step
      <4>2. QED
        BY <1>1, <2>1, <4>1 DEF Progresses
    <3>4. QED
      BY <1>4, <3>1, <3>2, <3>3
  <2>2. StageOK(self)'
    <3>1. CASE \E r \in Requests : Begin(self, r)
      BY <1>1, <3>1 DEF Begin, Goto
    <3>2. CASE Finish(self) \/ Abort(self)
      BY <1>1, <3>2 DEF Finish, Abort, Answer, Goto
    <3>3. CASE VoteStep(self) \/ UndoStep(self)
      BY <1>1, <1>2, <3>3
         DEF VoteStep, UndoStep, ScriptAnswered, ScriptReturns, StartRead, Answer,
             Goto, Reads
    <3>4. CASE ReadMeta(self) \/ ReadOptions(self) \/ ReadVotes(self)
      BY <1>1, <1>2, <3>4
         DEF ReadMeta, ReadOptions, ReadVotes, AnswerPoll, Answer, Goto, Reads
    <3>5. CASE \/ CheckKey(self) \/ CloseSet(self) \/ DeleteKeys(self)
               \/ DropIndex(self) \/ DropPublic(self) \/ DropCreated(self)
               \/ MarkStep(self)
      <4>1. req[self].op \notin {"vote", "undo"}
        BY <1>2, <3>5
           DEF CheckKey, CloseSet, DeleteKeys, DropIndex, DropPublic, DropCreated,
               MarkStep, Reads
      <4>2. req' = req
        BY <3>5
           DEF CheckKey, CloseSet, DeleteKeys, DropIndex, DropPublic, DropCreated,
               MarkStep
      <4>3. QED
        BY <4>1, <4>2
    <3>6. QED
      BY <1>4, <3>1, <3>2, <3>3, <3>4, <3>5 DEF Step
  <2>3. \A i \in Procs : StageOK(i)'
    BY <1>2, <2>1, <2>2
  <2>4. QED
    BY <2>3 DEF ScriptedStages
<1>5. QED
  BY <1>3, <1>4 DEF Next, Create, Tick, vars

LEMMA StagesAlways == Spec => []ScriptedStages
<1>1. Init => ScriptedStages
  BY DEF Init, ScriptedStages
<1>2. QED
  BY <1>1, StagesStep, TypeCorrect, PTL DEF Spec

\* A vote or undo that took effect under its key is refused during the TTL only
\* when its poll is deleted, by the script or by the read that follows it
\* (RetryNotRefused of RedisStore).
THEOREM RetriesAccepted == Spec => RetryNotRefused
<1>. DEFINE Refused(self) ==
       /\ req[self].op \in {"vote", "undo"} /\ ~KeyUnspent(req[self])
       /\ pc[self] # "done" /\ pc'[self] = "done"
     Excused(self) ==
       \/ reply'[self] \in {"ok", "error"}
       \/ reply'[self] = "notfound" /\ ~Live(req[self].poll)
<1>1. ASSUME IndInv, ScriptedStages, Next, NEW self \in Procs, Refused(self)
      PROVE  Excused(self)
  <2>. DEFINE r == req[self]
  <2>1. /\ TypeOK
        /\ pc \in [Procs -> Labels] /\ reply \in [Procs -> Replies]
    BY <1>1 DEF IndInv, TypeOK
  <2>2. Step(self) \/ Abort(self)
    <3>1. ASSUME NEW j \in Procs, j # self, Step(j) \/ Abort(j), ~Finish(j)
          PROVE  FALSE
      BY <1>1, <2>1, <3>1, StepsProgress DEF Step, Progresses
    <3>2. ASSUME NEW j \in Procs, Finish(j) \/ \E q \in Requests : Begin(j, q)
          PROVE  FALSE
      BY <1>1, <2>1, <3>2 DEF Finish, Begin, Goto
    <3>3. ~(Tick \/ \E p \in Polls, u \in Users, opts \in OptionLists,
                       e \in ExpiryTicks, public \in Visibility :
                       Create(p, u, opts, e, public))
      BY <1>1 DEF Tick, Create, procVars
    <3>4. QED
      BY <1>1, <3>1, <3>2, <3>3 DEF Next
  <2>3. pc[self] = "script" \/ (pc[self] \in Reads /\ answering[self])
    BY <1>1, <2>2 DEF ScriptedStages, Step, VoteStep, UndoStep, ReadMeta, ReadOptions,
       ReadVotes, CheckKey, CloseSet, DeleteKeys, DropIndex, DropPublic, DropCreated,
       MarkStep, Finish, Abort
  <2>4. CASE Abort(self)
    BY <2>1, <2>4 DEF Abort, Answer
  <2>5. CASE VoteStep(self) \/ UndoStep(self)
    <3>1. ~IdemSeen(r.user, r.key)
      <4>1. CASE VoteStep(self)
        BY <1>1, <2>1, <4>1
           DEF VoteStep, ScriptAnswered, ScriptReturns, Goto, VoteResult, Gate
      <4>2. CASE UndoStep(self)
        BY <1>1, <2>1, <4>2
           DEF UndoStep, ScriptAnswered, ScriptReturns, Goto, UndoResult, Gate
      <4>3. QED
        BY <2>5, <4>1, <4>2
    <3>2. pc[self] # "idle"
      BY <2>5 DEF VoteStep, UndoStep
    <3>3. QED
      BY <1>1, <3>1, <3>2, UnseenUnspent
  <2>6. CASE ReadMeta(self)
    <3>1. pc[self] # "idle"
      BY <2>6 DEF ReadMeta
    <3>2. r.poll \in Polls
      BY <2>1, <3>1, BusyRequest
    <3>3. PollKeys(r.poll)
      BY <1>1, <3>2 DEF IndInv
    <3>4. ~meta[r.poll].present /\ reply'[self] = "notfound"
      BY <1>1, <2>1, <2>6 DEF ReadMeta, Answer, Goto
    <3>5. QED
      BY <3>3, <3>4 DEF PollKeys
  <2>7. CASE ReadVotes(self)
    <3>1. answering[self]
      BY <2>3, <2>7 DEF ReadVotes, Reads
    <3>2. QED
      BY <2>1, <2>7, <3>1 DEF ReadVotes, AnswerPoll
  <2>8. CASE ReadOptions(self)
    BY <1>1, <2>1, <2>8 DEF ReadOptions, Goto
  <2>9. QED
    BY <2>2, <2>3, <2>4, <2>5, <2>6, <2>7, <2>8
       DEF Step, CheckKey, CloseSet, DeleteKeys, DropIndex, DropPublic, DropCreated,
           MarkStep, Finish, Reads
<1>2. IndInv /\ ScriptedStages /\ Next =>
        \A self \in Procs : Refused(self) => Excused(self)
  BY <1>1
<1>3. IndInv /\ ScriptedStages /\ UNCHANGED vars =>
        \A self \in Procs : ~Refused(self)
  BY DEF vars, procVars
<1>4. QED
  BY <1>2, <1>3, Inductive, StagesAlways, PTL DEF RetryNotRefused, Spec

-----------------------------------------------------------------------------
(* What has been brought about lasts *)

LEMMA UsedStep ==
  ASSUME [Next]_vars
  PROVE  usedIds \subseteq usedIds'
<1>1. ASSUME NEW self \in Procs,
             Step(self) \/ Abort(self) \/ \E r \in Requests : Begin(self, r)
      PROVE  usedIds' = usedIds
  BY <1>1
     DEF Step, VoteStep, UndoStep, ReadMeta, ReadOptions, ReadVotes, CheckKey,
         CloseSet, DeleteKeys, DropIndex, DropPublic, DropCreated, MarkStep,
         Finish, Abort, Begin, ghostVars
<1>2. QED
  BY <1>1 DEF Next, Create, Tick, vars, ghostVars

\* A poll whose id is in use enters no list again.
LEMMA ListStep ==
  ASSUME IndInv, [Next]_vars, NEW p \in Polls, p \in usedIds
  PROVE  /\ p \notin pollsIndex => p \notin pollsIndex'
         /\ p \notin publicIndex => p \notin publicIndex'
         /\ \A u \in Users : p \notin createdPolls[u] => p \notin createdPolls'[u]
<1>1. createdPolls \in [Users -> SUBSET Polls]
  BY DEF IndInv, TypeOK, KeyspaceTypeOK
<1>2. ASSUME NEW q \in Polls, NEW u \in Users, NEW opts, NEW e, NEW public,
             Create(q, u, opts, e, public)
      PROVE  /\ p \notin pollsIndex => p \notin pollsIndex'
             /\ p \notin publicIndex => p \notin publicIndex'
             /\ \A v \in Users : p \notin createdPolls[v] => p \notin createdPolls'[v]
  <2>1. q # p
    BY <1>2 DEF Create
  <2>2. QED
    BY <1>1, <1>2, <2>1 DEF Create, CreateTx
<1>3. ASSUME NEW self \in Procs, DropIndex(self) \/ DropPublic(self)
      PROVE  /\ pollsIndex' \subseteq pollsIndex /\ publicIndex' \subseteq publicIndex
             /\ createdPolls' = createdPolls
  BY <1>3 DEF DropIndex, DropPublic, SRemIndex, SRemPublic
<1>4. ASSUME NEW self \in Procs, DropCreated(self)
      PROVE  /\ pollsIndex' = pollsIndex /\ publicIndex' = publicIndex
             /\ \A u \in Users : createdPolls'[u] \subseteq createdPolls[u]
  BY <1>1, <1>4 DEF DropCreated, ZRemCreated
<1>5. ASSUME NEW self \in Procs,
             Step(self) \/ Abort(self) \/ \E r \in Requests : Begin(self, r),
             ~DropIndex(self), ~DropPublic(self), ~DropCreated(self)
      PROVE  UNCHANGED indexVars
  BY <1>5
     DEF Step, VoteStep, UndoStep, VoteScript, UndoScript, ApplyVote, ApplyUndo,
         ReadMeta, ReadOptions, ReadVotes, CheckKey, CloseSet, DeleteKeys, MarkStep,
         Finish, Abort, Begin, SetClosed, DelPoll, SetIdem, keyVars
<1>6. CASE Tick \/ UNCHANGED vars
  BY <1>6 DEF Tick, vars, keyVars, indexVars
<1>7. CASE \E self \in Procs :
             Step(self) \/ Abort(self) \/ \E r \in Requests : Begin(self, r)
  BY <1>3, <1>4, <1>5, <1>7 DEF indexVars
<1>8. QED
  BY <1>2, <1>6, <1>7 DEF Next

\* An effect that was recorded under a key is never forgotten.
LEMMA EffectStep ==
  ASSUME IndInv, [Next]_vars, NEW u \in Users, NEW k \in Keys \cup {NoKey}, k # NoKey,
         lastEffect[u][k] # 0
  PROVE  lastEffect'[u][k] # 0
<1>1. lastEffect \in [Users -> [Keys -> Nat]] /\ now # 0
  BY DEF IndInv, TypeOK, KeyspaceTypeOK
<1>2. ASSUME NEW self \in Procs, VoteStep(self) \/ UndoStep(self)
      PROVE  lastEffect'[u][k] # 0
  BY <1>1, <1>2 DEF VoteStep, UndoStep, RecordEffect
<1>3. ASSUME NEW self \in Procs,
             Step(self) \/ Abort(self) \/ \E r \in Requests : Begin(self, r),
             ~VoteStep(self), ~UndoStep(self)
      PROVE  lastEffect' = lastEffect
  BY <1>3
     DEF Step, ReadMeta, ReadOptions, ReadVotes, CheckKey, CloseSet, DeleteKeys,
         DropIndex, DropPublic, DropCreated, MarkStep, Finish, Abort, Begin, ghostVars
<1>4. QED
  BY <1>2, <1>3 DEF Next, Create, Tick, vars, ghostVars

\* What a request has brought about no step of another undoes.
LEMMA AchievedStays ==
  ASSUME IndInv, [Next]_vars, NEW r \in Requests, Achieved(r)
  PROVE  Achieved(r)'
<1>1. r.poll \in Polls /\ r.user \in Users /\ r.key \in Keys \cup {NoKey}
  BY DEF Requests
<1>2. ASSUME Ended(r.poll)
      PROVE  Ended(r.poll)'
  BY <1>1, <1>2, UsedStep, MetaStep DEF Ended, Live, NoMeta
<1>3. ASSUME Gone(r.poll, r.user)
      PROVE  Gone(r.poll, r.user)'
  BY <1>1, <1>3, UsedStep, MetaStep, ListStep DEF Gone, Live, NoMeta
<1>4. r.key # NoKey /\ lastEffect[r.user][r.key] # 0 => lastEffect'[r.user][r.key] # 0
  BY <1>1, EffectStep
<1>5. QED
  BY <1>2, <1>3, <1>4 DEF Achieved

\* A key stays with the request it was given to.
LEMMA UseStep ==
  ASSUME KeysUnique, TypeOK, [Next]_vars, NEW u \in Users, NEW k \in Keys,
         keyUse[u][k] # NoRequest
  PROVE  keyUse'[u][k] = keyUse[u][k]
<1>1. ASSUME NEW self \in Procs, NEW r \in Requests, Begin(self, r)
      PROVE  keyUse'[u][k] = keyUse[u][k]
  BY <1>1 DEF Begin, KeyFree, TypeOK, Requests
<1>2. ASSUME NEW self \in Procs, Step(self) \/ Abort(self)
      PROVE  keyUse' = keyUse
  BY <1>2
     DEF Step, VoteStep, UndoStep, ReadMeta, ReadOptions, ReadVotes, CheckKey,
         CloseSet, DeleteKeys, DropIndex, DropPublic, DropCreated, MarkStep,
         Finish, Abort, ghostVars
<1>3. QED
  BY <1>1, <1>2 DEF Next, Create, Tick, vars, ghostVars

-----------------------------------------------------------------------------
(* The inductive invariant of the answers *)

\* What a request has come to stays true while others take their steps.
LEMMA WorksStable ==
  ASSUME KeysUnique, AnswerInv, [Next]_vars, NEW j \in Procs, pc[j] # "idle",
         pc'[j] = pc[j], req'[j] = req[j], answering'[j] = answering[j],
         view'[j] = view[j], reply'[j] = reply[j]
  PROVE  RequestWorks(j)'
<1>1. TypeOK /\ RequestKnows(j) /\ RequestWorks(j)
  BY DEF AnswerInv, IndInv
<1>2. PICK r \in Requests : r = req[j]
  BY <1>1, BusyRequest
<1>3. r.poll \in Polls /\ r.user \in Users /\ r.key \in Keys \cup {NoKey}
  BY DEF Requests
<1>4. Achieved(r) => Achieved(r)'
  BY AchievedStays DEF AnswerInv
<1>5. r.key # NoKey => keyUse'[r.user][r.key] = r
  <2>1. r # NoRequest
    BY OpsAssumption DEF Requests, NoRequest, AllOps
  <2>2. QED
    BY <1>1, <1>2, <1>3, <2>1, UseStep DEF RequestWorks
<1>6. pc[j] \in Drops =>
        /\ r.poll \notin pollsIndex => r.poll \notin pollsIndex'
        /\ r.poll \notin publicIndex => r.poll \notin publicIndex'
  BY <1>1, <1>2, <1>3, ListStep DEF RequestKnows, Drops, AnswerInv
<1>7. QED
  BY <1>1, <1>2, <1>4, <1>5, <1>6
     DEF RequestWorks, Reads, Drops, Achieved, Ended, Gone, Live

\* A key that is found marked was marked for the request that carries it.
LEMMA SeenAchieved ==
  ASSUME AnswerInv, NEW self \in Procs, pc[self] # "idle",
         NEW r \in Requests, r = req[self], IdemSeen(r.user, r.key)
  PROVE  r.key # NoKey /\ Achieved(r)
<1>1. /\ r.user \in Users /\ r.key \in Keys \cup {NoKey}
      /\ r.key # NoKey /\ now <= idem[r.user][r.key]
  BY DEF Requests, IdemSeen
<1>2. now \in Nat \ {0} /\ idem[r.user][r.key] \in Nat
  BY <1>1 DEF AnswerInv, IndInv, TypeOK, KeyspaceTypeOK
<1>3. idem[r.user][r.key] # 0
  BY <1>1, <1>2
<1>4. keyUse[r.user][r.key] = r
  BY <1>1 DEF AnswerInv, RequestWorks
<1>5. QED
  BY <1>1, <1>3, <1>4 DEF AnswerInv, MarksTellTruth, Achieved, Ended, Gone, Live

\* What the request that takes the step has come to afterwards.
LEMMA StepWorks ==
  ASSUME KeysUnique, AnswerInv, NEW self \in Procs,
         Step(self) \/ Abort(self), ~Finish(self)
  PROVE  RequestWorks(self)'
<1>1. pc[self] # "idle" /\ Progresses(self) /\ TypeOK
  BY StepsProgress DEF Step, AnswerInv, IndInv
<1>2. RequestKnows(self) /\ RequestWorks(self)
  BY <1>1 DEF AnswerInv, IndInv
<1>3. PICK r \in Requests : r = req[self] /\ r = req'[self]
  BY <1>1, BusyRequest DEF Progresses
<1>. DEFINE p == r.poll
<1>4. p \in Polls /\ r.user \in Users /\ r.key \in Keys \cup {NoKey}
  BY DEF Requests
<1>5. [Next]_vars
  BY DEF Next
<1>6. Achieved(r) => Achieved(r)'
  BY <1>5, AchievedStays DEF AnswerInv
<1>7. keyUse' = keyUse /\ (r.key # NoKey => keyUse'[r.user][r.key] = r)
  BY <1>1, <1>2, <1>3 DEF RequestWorks, Progresses
<1>8. /\ p \in usedIds /\ p \notin pollsIndex => p \notin pollsIndex'
      /\ p \in usedIds /\ p \notin publicIndex => p \notin publicIndex'
  BY <1>4, <1>5, ListStep DEF AnswerInv
\* It is enough to look at where the step leads.
<1>9. SUFFICES
        /\ pc'[self] \in {"checkKey", "write", "markKey"} => r.op \in {"close", "delete"}
        /\ pc'[self] \in Drops => r.op = "delete"
        /\ pc'[self] \in {"dropPublic", "dropCreated"} => p \notin pollsIndex'
        /\ pc'[self] = "dropCreated" => p \notin publicIndex'
        /\ pc'[self] = "markKey" => Achieved(r)'
        /\ pc'[self] \in Reads /\ answering'[self] => r.op # "delete" /\ Achieved(r)'
        /\ pc'[self] \in Reads /\ ~answering'[self] => r.op \in {"close", "delete"}
        /\ pc'[self] \in Reads \ {"readMeta"} /\ answering'[self] /\ r.op = "close" =>
             view'[self].meta.isClosed
        /\ pc'[self] = "done" /\ reply'[self] = "ok" =>
             IF r.op = "close" THEN view'[self].meta.isClosed ELSE Achieved(r)'
  BY <1>3, <1>7 DEF RequestWorks, Achieved, Ended, Gone, Live, Reads, Drops
<1>. USE DEF TypeOK, Goto, Answer, AnswerPoll, StartRead, Advance, Reads, Drops
<1>10. CASE VoteStep(self) \/ UndoStep(self)
  <2>1. pc[self] = "script" /\ r.op \in {"vote", "undo"}
    BY <1>3, <1>10 DEF VoteStep, UndoStep
  <2>2. PICK result : /\ RecordEffect(r, result) /\ ScriptAnswered(self, result)
                      /\ result = "noop" => IdemSeen(r.user, r.key)
    BY <1>3, <1>10 DEF VoteStep, UndoStep, VoteResult, UndoResult, Gate
  <2>3. CASE pc'[self] = "readMeta"
    <3>1. result \in {"ok", "noop"} /\ answering'[self]
      BY <1>1, <2>1, <2>2, <2>3 DEF ScriptAnswered, ScriptReturns
    <3>2. CASE result = "ok"
      <4>1. now # 0 /\ lastEffect \in [Users -> [Keys -> Nat]]
        BY <1>1 DEF KeyspaceTypeOK
      <4>2. r.key # NoKey => lastEffect'[r.user][r.key] # 0
        BY <1>4, <2>2, <3>2, <4>1 DEF RecordEffect
      <4>3. Achieved(r)'
        BY <2>1, <4>2 DEF Achieved
      <4>4. QED
        BY <2>1, <2>3, <3>1, <4>3
    <3>3. CASE result = "noop"
      <4>1. Achieved(r)
        BY <1>1, <1>3, <2>2, <3>3, SeenAchieved
      <4>2. QED
        BY <1>6, <2>1, <2>3, <3>1, <4>1
    <3>4. QED
      BY <3>1, <3>2, <3>3
  <2>4. CASE pc'[self] # "readMeta"
    BY <1>1, <2>1, <2>2, <2>4 DEF ScriptAnswered, ScriptReturns
  <2>5. QED
    BY <2>3, <2>4
<1>11. CASE ReadMeta(self)
  <2>1. CASE ~meta[p].present
    BY <1>1, <1>3, <1>11, <2>1 DEF ReadMeta
  <2>2. CASE meta[p].present
    <3>1. pc[self] = "readMeta" /\ pc'[self] = "readOptions" /\ answering' = answering
      BY <1>1, <1>3, <1>11, <2>2 DEF ReadMeta
    <3>2. view'[self].meta = meta[p]
      BY <1>1, <1>3, <1>4, <1>11, <2>2 DEF ReadMeta, View
    <3>3. answering[self] /\ r.op = "close" => meta[p].isClosed
      <4>1. PollKeys(p)
        BY <1>4 DEF AnswerInv, IndInv
      <4>2. QED
        BY <1>2, <1>3, <2>2, <3>1, <4>1 DEF RequestWorks, Achieved, Ended, PollKeys
    <3>4. QED
      BY <1>2, <1>3, <1>6, <3>1, <3>2, <3>3 DEF RequestWorks
  <2>3. QED
    BY <2>1, <2>2
<1>12. CASE ReadOptions(self)
  <2>1. pc[self] = "readOptions" /\ pc'[self] = "readVotes" /\ answering' = answering
    BY <1>1, <1>12 DEF ReadOptions
  <2>2. view'[self].meta = view[self].meta
    BY <1>1, <1>12 DEF ReadOptions, View
  <2>3. QED
    BY <1>2, <1>3, <1>6, <2>1, <2>2 DEF RequestWorks
<1>13. CASE ReadVotes(self)
  <2>. DEFINE v == PollRead(view[self], voteFields[p])
  <2>1. pc[self] = "readVotes" /\ answering' = answering
    BY <1>13 DEF ReadVotes
  <2>2. view[self].meta.isClosed => v.meta.isClosed
    BY <1>1 DEF PollRead, ReadsClosed, View, Meta
  <2>3. CASE answering[self]
    <3>1. pc'[self] = "done" /\ view'[self] = v
      BY <1>1, <1>3, <1>13, <2>3 DEF ReadVotes
    <3>2. QED
      BY <1>2, <1>3, <1>6, <2>1, <2>2, <2>3, <3>1 DEF RequestWorks
  <2>4. CASE ~answering[self]
    <3>1. r.op \in {"close", "delete"} /\ AfterCheck(self, v)
      BY <1>2, <1>3, <1>13, <2>1, <2>4 DEF ReadVotes, RequestWorks
    <3>2. CASE r.op = "close" /\ v.meta.isClosed
      BY <1>1, <1>3, <3>1, <3>2 DEF AfterCheck
    <3>3. CASE ~(r.op = "close" /\ v.meta.isClosed)
      BY <1>1, <1>3, <3>1, <3>3 DEF AfterCheck
    <3>4. QED
      BY <3>2, <3>3
  <2>5. QED
    BY <2>3, <2>4
<1>14. CASE CheckKey(self)
  <2>1. pc[self] = "checkKey" /\ r.op \in {"close", "delete"}
    BY <1>2, <1>3, <1>14 DEF CheckKey, RequestWorks
  <2>2. CASE IdemSeen(r.user, r.key)
    <3>1. Achieved(r)'
      BY <1>1, <1>3, <1>6, <2>2, SeenAchieved
    <3>2. QED
      BY <1>1, <1>3, <1>14, <2>1, <2>2, <3>1 DEF CheckKey, KeyChecked
  <2>3. CASE ~IdemSeen(r.user, r.key)
    BY <1>1, <1>3, <1>14, <2>1, <2>3 DEF CheckKey, KeyChecked
  <2>4. QED
    BY <2>2, <2>3
<1>15. CASE CloseSet(self)
  <2>1. pc[self] = "write" /\ r.op = "close" /\ SetClosed(p) /\ usedIds' = usedIds
    BY <1>3, <1>15 DEF CloseSet, ghostVars
  <2>2. Ended(p)'
    <3>1. p \in usedIds /\ meta \in [Polls -> Meta]
      BY <1>1, <1>2, <1>3, <2>1 DEF RequestKnows, KeyspaceTypeOK
    <3>2. meta'[p] = [meta[p] EXCEPT !.present = TRUE, !.isClosed = TRUE]
      BY <1>4, <2>1, <3>1 DEF SetClosed
    <3>3. QED
      BY <1>4, <2>1, <3>1, <3>2, ClosedMeta DEF Ended
  <2>3. Achieved(r)'
    BY <2>1, <2>2 DEF Achieved
  <2>4. pc'[self] \in {"write", "markKey", "readMeta"} /\ answering'[self]
    BY <1>1, <1>15, <2>1 DEF CloseSet, AfterClose
  <2>5. QED
    BY <2>1, <2>3, <2>4
<1>16. CASE DeleteKeys(self)
  BY <1>1, <1>3, <1>16 DEF DeleteKeys
<1>17. CASE DropIndex(self)
  <2>1. pc[self] = "dropIndex" /\ pc'[self] \in {"dropIndex", "dropPublic"}
        /\ p \notin pollsIndex'
    BY <1>1, <1>3, <1>17 DEF DropIndex, SRemIndex
  <2>2. QED
    BY <1>2, <1>3, <2>1 DEF RequestWorks
<1>18. CASE DropPublic(self)
  <2>1. /\ pc[self] = "dropPublic" /\ pc'[self] \in {"dropPublic", "dropCreated"}
        /\ p \notin publicIndex'
    BY <1>1, <1>3, <1>18 DEF DropPublic, SRemPublic
  <2>2. QED
    BY <1>2, <1>3, <1>8, <2>1 DEF RequestWorks, RequestKnows
<1>19. CASE DropCreated(self)
  <2>1. /\ pc[self] = "dropCreated" /\ r.op = "delete" /\ ZRemCreated(p, r.user)
        /\ p \notin pollsIndex /\ p \notin publicIndex /\ p \in usedIds /\ ~Live(p)
    BY <1>2, <1>3, <1>19 DEF DropCreated, RequestWorks, RequestKnows
  <2>2. Gone(p, r.user)'
    BY <1>1, <1>4, <1>5, <2>1, UsedStep DEF Gone, Live, ZRemCreated, pollVars, KeyspaceTypeOK
  <2>3. Achieved(r)'
    BY <2>1, <2>2 DEF Achieved
  <2>4. pc'[self] \in {"done", "markKey", "dropCreated"}
    BY <1>1, <1>19, <2>1 DEF DropCreated
  <2>5. QED
    BY <1>8, <2>1, <2>3, <2>4
<1>20. CASE MarkStep(self)
  <2>1. pc[self] = "markKey" /\ r.op \in {"close", "delete"} /\ Achieved(r)'
    BY <1>2, <1>3, <1>6, <1>20 DEF MarkStep, RequestWorks
  <2>2. QED
    BY <1>1, <1>3, <1>20, <2>1 DEF MarkStep
<1>21. CASE Abort(self)
  BY <1>1, <1>21 DEF Abort
<1>22. QED
  BY <1>10, <1>11, <1>12, <1>13, <1>14, <1>15, <1>16, <1>17, <1>18, <1>19, <1>20,
     <1>21 DEF Step

\* A request begins with nothing brought about.
LEMMA BeginWorks ==
  ASSUME KeysUnique, AnswerInv, NEW self \in Procs, NEW r \in Requests, Begin(self, r)
  PROVE  RequestWorks(self)'
<1>1. TypeOK /\ r.user \in Users /\ r.key \in Keys \cup {NoKey} /\ r.op \in AllOps
  BY OpsAssumption DEF AnswerInv, IndInv, Requests
<1>2. /\ req'[self] = r /\ answering'[self] = (r.op = "get")
      /\ pc'[self] = IF r.op \in {"vote", "undo"} THEN "script" ELSE "readMeta"
  BY <1>1 DEF Begin, Goto, StartRead, TypeOK
<1>3. r.key # NoKey => keyUse'[r.user][r.key] = r
  BY <1>1 DEF Begin, TypeOK
<1>4. QED
  BY <1>1, <1>2, <1>3 DEF RequestWorks, Reads, Drops, Achieved, AllOps

\* A key is marked by the request it was given to, when that request has been
\* brought about.
LEMMA MarksStep ==
  ASSUME KeysUnique, AnswerInv, [Next]_vars
  PROVE  MarksTellTruth'
<1>1. TypeOK
  BY DEF AnswerInv, IndInv
<1>2. SUFFICES ASSUME NEW u \in Users, NEW k \in Keys, idem'[u][k] # 0
               PROVE  \E r \in Requests : keyUse'[u][k] = r /\ Achieved(r)'
  <2>1. NoRequest \notin Requests
    BY OpsAssumption DEF Requests, NoRequest, AllOps
  <2>2. QED
    BY <1>2, <2>1 DEF MarksTellTruth, Achieved, Ended, Gone, Live
<1>3. CASE idem'[u][k] = idem[u][k]
  <2>1. PICK r \in Requests : r = keyUse[u][k]
    BY <1>1, <1>2, <1>3 DEF AnswerInv, MarksTellTruth, TypeOK
  <2>2. r # NoRequest /\ Achieved(r)
    BY <1>2, <1>3, <2>1 DEF AnswerInv, MarksTellTruth, Achieved, Ended, Gone, Live
  <2>3. keyUse'[u][k] = r
    BY <1>1, <2>1, <2>2, UseStep
  <2>4. Achieved(r)'
    BY <2>2, AchievedStays DEF AnswerInv
  <2>5. QED
    BY <2>3, <2>4
<1>4. CASE idem'[u][k] # idem[u][k]
  <2>1. PICK self \in Procs : VoteStep(self) \/ UndoStep(self) \/ MarkStep(self)
    <3>1. idem' # idem
      BY <1>4
    <3>2. ASSUME NEW self \in Procs,
                 Step(self) \/ Abort(self) \/ \E r \in Requests : Begin(self, r),
                 ~VoteStep(self), ~UndoStep(self), ~MarkStep(self)
          PROVE  FALSE
      BY <3>1, <3>2
         DEF Step, ReadMeta, ReadOptions, ReadVotes, CheckKey, CloseSet, DeleteKeys,
             DropIndex, DropPublic, DropCreated, Finish, Abort, Begin, SetClosed,
             DelPoll, SRemIndex, SRemPublic, ZRemCreated, keyVars
    <3>3. QED
      BY <3>1, <3>2 DEF Next, Create, CreateTx, Tick, vars, keyVars
  <2>2. pc[self] # "idle"
    BY <2>1 DEF VoteStep, UndoStep, MarkStep
  <2>3. PICK r \in Requests : r = req[self]
    BY <1>1, <2>2, BusyRequest
  <2>4. r.user \in Users /\ r.key \in Keys \cup {NoKey} /\ RequestWorks(self)
    BY <2>2 DEF Requests, AnswerInv
  <2>5. keyUse' = keyUse
    BY <2>1 DEF VoteStep, UndoStep, MarkStep, ghostVars
  <2>6. MarkKey(r.user, r.key)
    BY <1>4, <2>1, <2>3
       DEF VoteStep, UndoStep, MarkStep, VoteScript, UndoScript, ApplyVote, ApplyUndo,
           SetIdem, keyVars
  <2>7. r.user = u /\ r.key = k /\ r.key # NoKey
    BY <1>1, <1>4, <2>4, <2>6 DEF MarkKey, TypeOK, KeyspaceTypeOK
  <2>8. keyUse'[u][k] = r
    BY <2>3, <2>4, <2>5, <2>7 DEF RequestWorks
  <2>9. Achieved(r)'
    <3>1. CASE MarkStep(self)
      <4>1. Achieved(r)
        BY <2>3, <2>4, <3>1
           DEF MarkStep, RequestWorks, Achieved, Ended, Gone, Live
      <4>2. QED
        BY <4>1, AchievedStays DEF AnswerInv
    <3>2. CASE VoteStep(self) \/ UndoStep(self)
      <4>1. r.op \in {"vote", "undo"} /\ RecordEffect(r, "ok")
        BY <1>4, <2>3, <3>2
           DEF VoteStep, UndoStep, VoteScript, UndoScript, keyVars
      <4>2. now # 0 /\ lastEffect \in [Users -> [Keys -> Nat]]
        BY <1>1 DEF TypeOK, KeyspaceTypeOK
      <4>3. lastEffect'[r.user][r.key] # 0
        BY <2>4, <2>7, <4>1, <4>2 DEF RecordEffect
      <4>4. QED
        BY <4>1, <4>3 DEF Achieved
    <3>3. QED
      BY <2>1, <3>1, <3>2
  <2>10. QED
    BY <2>8, <2>9
<1>5. QED
  BY <1>3, <1>4

LEMMA AnswerNext ==
  ASSUME KeysUnique, AnswerInv, [Next]_vars
  PROVE  AnswerInv'
<1>1. IndInv /\ TypeOK
  BY DEF AnswerInv, IndInv
<1>2. IndInv' /\ MarksTellTruth'
  BY <1>1, NextInd, MarksStep
<1>3. ASSUME NEW j \in Procs, pc'[j] # "idle"
      PROVE  RequestWorks(j)'
  <2>1. CASE \E self \in Procs : (Step(self) \/ Abort(self)) /\ ~Finish(self)
    <3>1. PICK self \in Procs : (Step(self) \/ Abort(self)) /\ ~Finish(self)
      BY <2>1
    <3>2. CASE j = self
      BY <3>1, <3>2, StepWorks
    <3>3. CASE j # self
      <4>1. /\ pc'[j] = pc[j] /\ req'[j] = req[j] /\ answering'[j] = answering[j]
            /\ view'[j] = view[j] /\ reply'[j] = reply[j]
        <5>1. Progresses(self)
          BY <1>1, <3>1, StepsProgress DEF Step
        <5>2. QED
          BY <1>1, <3>3, <5>1 DEF Progresses, TypeOK
      <4>2. QED
        BY <1>3, <4>1, WorksStable
    <3>4. QED
      BY <3>2, <3>3
  <2>2. CASE \E self \in Procs : Finish(self) \/ \E r \in Requests : Begin(self, r)
    <3>1. PICK self \in Procs : Finish(self) \/ \E r \in Requests : Begin(self, r)
      BY <2>2
    <3>2. CASE j = self
      <4>1. ~Finish(self)
        BY <1>1, <1>3, <3>2 DEF Finish, Goto, TypeOK
      <4>2. QED
        BY <3>1, <3>2, <4>1, BeginWorks
    <3>3. CASE j # self
      <4>1. /\ pc'[j] = pc[j] /\ req'[j] = req[j] /\ answering'[j] = answering[j]
            /\ view'[j] = view[j] /\ reply'[j] = reply[j]
        BY <1>1, <3>1, <3>3 DEF Finish, Begin, Goto, StartRead, TypeOK
      <4>2. QED
        BY <1>3, <4>1, WorksStable
    <3>4. QED
      BY <3>2, <3>3
  <2>3. CASE UNCHANGED procVars
    BY <1>3, <2>3, WorksStable DEF procVars
  <2>4. QED
    BY <2>1, <2>2, <2>3 DEF Next, Create, Tick, vars
<1>4. QED
  BY <1>2, <1>3 DEF AnswerInv

\* With keys given to one request each, the marks and the requests under way
\* tell what has been brought about, for any number of them, failures included.
THEOREM AnswersInductive == ASSUME KeysUnique PROVE Spec => []AnswerInv
<1>1. Init => AnswerInv
  <2>1. Init => \A u \in Users, k \in Keys : idem[u][k] = 0
    BY DEF Init, KeyspaceInit
  <2>2. Init => \A self \in Procs : pc[self] = "idle"
    BY DEF Init
  <2>3. QED
    BY <2>1, <2>2, InitInd DEF AnswerInv, MarksTellTruth
<1>2. AnswerInv /\ [Next]_vars => AnswerInv'
  BY AnswerNext
<1>3. QED
  BY <1>1, <1>2, PTL DEF Spec

\* A ClosePoll that succeeds answers with a closed poll, on every path
\* (CloseAnswerClosed of RedisStore).
THEOREM CloseAnswers == ASSUME KeysUnique PROVE Spec => []CloseAnswerClosed
<1>1. AnswerInv => CloseAnswerClosed
  BY DEF AnswerInv, RequestWorks, CloseAnswerClosed, Answered
<1>2. QED
  BY <1>1, AnswersInductive, PTL

\* A DeletePoll that answers true has left nothing of the poll in any list
\* (DeleteAnswerTruthful of RedisStore).
THEOREM DeleteAnswers == ASSUME KeysUnique PROVE Spec => []DeleteAnswerTruthful
<1>1. AnswerInv => DeleteAnswerTruthful
  BY DEF AnswerInv, RequestWorks, DeleteAnswerTruthful, Answered, Achieved, Gone
<1>2. QED
  BY <1>1, AnswersInductive, PTL

\* A vote answered with success under a key of its own has taken effect, by this
\* attempt or by one whose answer was lost (VoteAnswerCounted of RedisStore).
THEOREM VoteAnswers == ASSUME KeysUnique PROVE Spec => []VoteAnswerCounted
<1>1. AnswerInv => VoteAnswerCounted
  BY DEF AnswerInv, RequestWorks, VoteAnswerCounted, Answered, Achieved
<1>2. QED
  BY <1>1, AnswersInductive, PTL
===============================================================================
