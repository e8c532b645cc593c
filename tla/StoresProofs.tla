------------------------ MODULE StoresProofs ------------------------
(***************************************************************************)
(* Both stores implement VotingSpec, and given the same requests one at a  *)
(* time they give the same answers, hold the same polls and list them      *)
(* alike.                                                                  *)
(*                                                                         *)
(* RedisStore: every command of every request is one step of the abstract  *)
(* service, or changes nothing a client can see.                           *)
(*                                                                         *)
(*   the vote script          Cast, when its result is "ok"                *)
(*   the undo script          Retract, when its result is "ok"             *)
(*   the MULTI/EXEC block     Create                                       *)
(*   HSET is_closed           Close; nothing on a poll closed or deleted   *)
(*   DEL of the four keys     Delete; nothing on a poll already deleted    *)
(*   every other command      nothing                                      *)
(*                                                                         *)
(* MemoryStore: each method is the step of its name, where any user closes *)
(* and deletes, or does nothing.                                           *)
(*                                                                         *)
(* StoreParity: ParityInv says how far the memory store is ahead of Redis  *)
(* at each command of the one request under way, so that the stores agree  *)
(* when it is done.                                                        *)
(***************************************************************************)
EXTENDS StoreParity, RedisStoreProofs

-----------------------------------------------------------------------------
(* The refinement mapping, poll by poll *)

StatusMap == [p \in Polls |-> Status(p)]

OwnerMap == [p \in Polls |-> meta[p].createdBy]

BallotMap == [p \in Polls |-> [u \in Users |-> Ballot(p, u)]]

LEMMA MappedVars == Voting!vars = <<StatusMap, OwnerMap, BallotMap, votes>>
  BY DEF Voting!vars, StatusMap, OwnerMap, BallotMap

\* The mapped values of poll p are the same after the step.
SamePoll(p) ==
  /\ Status(p)' = Status(p)
  /\ meta'[p].createdBy = meta[p].createdBy
  /\ \A u \in Users : Ballot(p, u)' = Ballot(p, u)

\* A client sees nothing of a step that keeps what these keys say.
LEMMA Unseen ==
  ASSUME KeyspaceTypeOK, votes' = votes, \A p \in Polls : SamePoll(p)
  PROVE  UNCHANGED Voting!vars
<1>1. StatusMap' = StatusMap /\ OwnerMap' = OwnerMap
  BY DEF SamePoll, StatusMap, OwnerMap
<1>2. BallotMap' = BallotMap
  BY DEF SamePoll, BallotMap
<1>3. QED
  BY <1>1, <1>2 DEF Voting!vars, StatusMap, OwnerMap, BallotMap

LEMMA UnseenKeys ==
  ASSUME KeyspaceTypeOK, UNCHANGED <<meta, votes, voters, userVotes, usedIds>>
  PROVE  UNCHANGED Voting!vars
<1>1. \A p \in Polls : SamePoll(p)
  BY DEF SamePoll, Status, Live, Ballot
<1>2. QED
  BY <1>1, Unseen

\* VotingSpec counts with the same Cardinality.
LEMMA SameCardinality == \A S : Voting!Cardinality(S) = Cardinality(S)
  BY DEF Voting!Cardinality, Cardinality

\* The users of a set who chose o, and the ballots of all users as VotingSpec sees
\* them: a user who has not voted has NoOption.
Choosers(voted, chosen, o) == {u \in voted : chosen[u] = o}
AllBallots(voted, chosen) ==
  [u \in Users |-> IF u \in voted THEN chosen[u] ELSE NoOption]

\* Counts that match the voters' choices are the tally of these ballots.
LEMMA TallyOf ==
  ASSUME NEW voted \in SUBSET Users, NEW chosen, NEW counts \in [Options -> Nat],
         \A o \in Options : counts[o] = Cardinality(Choosers(voted, chosen, o))
  PROVE  counts = Voting!Tally(AllBallots(voted, chosen))
<1>. DEFINE b == AllBallots(voted, chosen)
<1>1. ASSUME NEW o \in Options
      PROVE  {u \in Users : b[u] = o} = Choosers(voted, chosen, o)
  BY Sentinels DEF AllBallots, Choosers
<1>2. \A o \in Options : counts[o] = Cardinality({u \in Users : b[u] = o})
  BY <1>1
<1>3. QED
  BY <1>2, SameCardinality DEF Voting!Tally

\* One user's ballot of one poll changes, and the counts follow.
LEMMA BallotSet ==
  ASSUME KeyspaceTypeOK, KeyspaceTypeOK', TallyMatchesBallots',
         NEW p \in Polls, NEW u \in Users, NEW b \in Options \cup {NoOption},
         Ballot(p, u)' = b,
         \A q \in Polls, v \in Users :
           ~(q = p /\ v = u) => Ballot(q, v)' = Ballot(q, v),
         \A q \in Polls \ {p} : votes'[q] = votes[q]
  PROVE  /\ BallotMap' = [BallotMap EXCEPT ![p][u] = b]
         /\ votes' = [votes EXCEPT ![p] = Voting!Tally(BallotMap'[p])]
<1>1. ASSUME NEW q \in Polls
      PROVE  BallotMap'[q] = [BallotMap EXCEPT ![p][u] = b][q]
  <2>1. CASE q = p
    BY <2>1 DEF BallotMap
  <2>2. CASE q # p
    BY <2>2 DEF BallotMap
  <2>3. QED
    BY <2>1, <2>2
<1>2. BallotMap' = [BallotMap EXCEPT ![p][u] = b]
  BY <1>1 DEF BallotMap
<1>3. votes'[p] = Voting!Tally(BallotMap'[p])
  <2>. DEFINE chosen == [v \in Users |-> userVotes'[v][p]]
  <2>1. voters'[p] \in SUBSET Users /\ votes'[p] \in [Options -> Nat]
    BY DEF KeyspaceTypeOK
  <2>2. ASSUME NEW o \in Options
        PROVE  votes'[p][o] = Cardinality(Choosers(voters'[p], chosen, o))
    <3>1. Choosers(voters'[p], chosen, o) = Ballots(p, o)'
      BY <2>1 DEF Ballots, Choosers
    <3>2. QED
      BY <3>1 DEF TallyMatchesBallots
  <2>. HIDE DEF chosen
  <2>3. votes'[p] = Voting!Tally(AllBallots(voters'[p], chosen))
    BY <2>1, <2>2, TallyOf
  <2>4. BallotMap'[p] = AllBallots(voters'[p], chosen)
    BY DEF BallotMap, Ballot, AllBallots, chosen
  <2>5. QED
    BY <2>3, <2>4
<1>4. votes' = [votes EXCEPT ![p] = Voting!Tally(BallotMap'[p])]
  BY <1>3 DEF KeyspaceTypeOK
<1>5. QED
  BY <1>2, <1>4

\* The empty database is the service before any poll.
LEMMA InitMapped == Init => Voting!Init
<1>. SUFFICES ASSUME Init
              PROVE  Voting!Init
  OBVIOUS
<1>1. \A p \in Polls : Status(p) = "none" /\ meta[p].createdBy = NoUser
  BY DEF Init, KeyspaceInit, Status, NoMeta
<1>2. \A p \in Polls, u \in Users : Ballot(p, u) = NoOption
  BY DEF Init, KeyspaceInit, Ballot
<1>3. votes = [p \in Polls |-> [o \in Options |-> 0]]
  BY DEF Init, KeyspaceInit, NoVotes
<1>4. QED
  BY <1>1, <1>2, <1>3 DEF Voting!Init, Voting!NoBallots

-----------------------------------------------------------------------------
(* The commands *)

\* A vote that takes effect casts the ballot; any other vote changes nothing.
LEMMA VoteMapped ==
  ASSUME KeyspaceTypeOK, KeyspaceTypeOK', KeysInv, KeysInv', usedIds' = usedIds,
         NEW p \in Polls, NEW u \in Users, NEW o \in Options,
         NEW k \in Keys \cup {NoKey}, VoteScript(p, u, o, k)
  PROVE  Voting!Cast(p, u, o) \/ UNCHANGED Voting!vars
<1>1. CASE VoteResult(p, u, o, k) = "ok" /\ ApplyVote(p, u, o, k)
  <2>1. u \notin voters[p] /\ meta[p].present /\ ~meta[p].isClosed
    BY <1>1 DEF VoteResult, Gate
  <2>2. p \in usedIds /\ Live(p)
    BY <2>1 DEF KeysInv, PollKeys
  <2>3. Status(p) = "open" /\ Ballot(p, u) = NoOption
    BY <2>1, <2>2 DEF Status, Ballot
  <2>4. /\ meta' = meta
        /\ \A q \in Polls \ {p} : votes'[q] = votes[q]
        /\ \A q \in Polls, v \in Users :
             Ballot(q, v)' = IF q = p /\ v = u THEN o ELSE Ballot(q, v)
    BY <1>1 DEF ApplyVote, Ballot, KeyspaceTypeOK
  <2>5. /\ BallotMap' = [BallotMap EXCEPT ![p][u] = o]
        /\ votes' = [votes EXCEPT ![p] = Voting!Tally(BallotMap'[p])]
    BY <2>4, BallotSet DEF KeysInv
  <2>6. StatusMap' = StatusMap /\ OwnerMap' = OwnerMap
    BY <2>4 DEF StatusMap, OwnerMap, Status, Live
  <2>7. Voting!Cast(p, u, o)
    BY <2>3, <2>5, <2>6
       DEF Voting!Cast, Voting!SetBallot, StatusMap, OwnerMap, BallotMap
  <2>8. QED
    BY <2>7
<1>2. CASE UNCHANGED keyVars
  BY <1>2, UnseenKeys DEF keyVars, pollVars
<1>3. QED
  BY <1>1, <1>2 DEF VoteScript

\* An undo that takes effect retracts the ballot; any other undo changes nothing.
LEMMA UndoMapped ==
  ASSUME KeyspaceTypeOK, KeyspaceTypeOK', KeysInv, KeysInv', usedIds' = usedIds,
         NEW p \in Polls, NEW u \in Users, NEW k \in Keys \cup {NoKey},
         UndoScript(p, u, k)
  PROVE  Voting!Retract(p, u) \/ UNCHANGED Voting!vars
<1>1. CASE UndoResult(p, u, k) = "ok" /\ ApplyUndo(p, u, k)
  <2>1. /\ u \in voters[p] /\ userVotes[u][p] # NoOption
        /\ meta[p].present /\ ~meta[p].isClosed
    BY <1>1 DEF UndoResult, Gate
  <2>2. p \in usedIds /\ Live(p)
    BY <2>1 DEF KeysInv, PollKeys
  <2>3. Status(p) = "open" /\ Ballot(p, u) # NoOption
    BY <2>1, <2>2 DEF Status, Ballot
  <2>4. /\ meta' = meta
        /\ \A q \in Polls \ {p} : votes'[q] = votes[q]
        /\ \A q \in Polls, v \in Users :
             Ballot(q, v)' = IF q = p /\ v = u THEN NoOption ELSE Ballot(q, v)
    BY <1>1 DEF ApplyUndo, Ballot, KeyspaceTypeOK
  <2>5. /\ BallotMap' = [BallotMap EXCEPT ![p][u] = NoOption]
        /\ votes' = [votes EXCEPT ![p] = Voting!Tally(BallotMap'[p])]
    BY <2>4, BallotSet DEF KeysInv
  <2>6. StatusMap' = StatusMap /\ OwnerMap' = OwnerMap
    BY <2>4 DEF StatusMap, OwnerMap, Status, Live
  <2>7. Voting!Retract(p, u)
    BY <2>3, <2>5, <2>6
       DEF Voting!Retract, Voting!SetBallot, StatusMap, OwnerMap, BallotMap
  <2>8. QED
    BY <2>7
<1>2. CASE UNCHANGED keyVars
  BY <1>2, UnseenKeys DEF keyVars, pollVars
<1>3. QED
  BY <1>1, <1>2 DEF UndoScript

\* A poll id that was never used becomes an open poll without ballots.
LEMMA CreateMapped ==
  ASSUME KeyspaceTypeOK, KeyspaceTypeOK', KeysInv, KeysInv',
         NEW p \in Polls, NEW u \in Users, NEW opts \in SUBSET Options,
         NEW e, NEW public \in BOOLEAN,
         p \notin usedIds, CreateTx(p, u, opts, e, public),
         usedIds' = usedIds \cup {p}
  PROVE  Voting!Create(p, u)
<1>1. Status(p) = "none" /\ voters[p] = {} /\ voters'[p] = {}
  BY DEF Status, KeysInv, PollKeys, CreateTx, KeyspaceTypeOK
<1>2. /\ meta'[p].createdBy = u /\ ~meta'[p].isClosed
      /\ \A q \in Polls \ {p} : meta'[q] = meta[q]
  BY DEF CreateTx, KeyspaceTypeOK
<1>3. StatusMap' = [StatusMap EXCEPT ![p] = "open"]
  BY <1>2, Sentinels DEF StatusMap, Status, Live
<1>4. OwnerMap' = [OwnerMap EXCEPT ![p] = u]
  BY <1>2 DEF OwnerMap
<1>5. BallotMap' = BallotMap
  BY <1>1 DEF BallotMap, Ballot, CreateTx, KeyspaceTypeOK
<1>6. votes' = votes
  <2>1. \A o \in Options : votes[p][o] = 0
    <3>1. \A o \in Options : Ballots(p, o) = {}
      BY <1>1 DEF Ballots
    <3>2. QED
      BY <3>1, FS_EmptySet DEF KeysInv, TallyMatchesBallots
  <2>2. votes[p] = [o \in Options |-> IF o \in opts THEN 0 ELSE votes[p][o]]
    BY <2>1 DEF KeyspaceTypeOK
  <2>3. QED
    BY <2>2 DEF CreateTx, KeyspaceTypeOK
<1>7. QED
  BY <1>1, <1>3, <1>4, <1>5, <1>6 DEF Voting!Create, StatusMap, OwnerMap, BallotMap

\* The owner's HSET closes an open poll; on one that was closed or deleted in the
\* meantime it changes nothing a client can see.
LEMMA CloseMapped ==
  ASSUME KeyspaceTypeOK, KeysInv, NEW p \in Polls, NEW u \in Users,
         Live(p) => meta[p].createdBy = u,
         SetClosed(p), usedIds' = usedIds
  PROVE  Voting!Close(p, u) \/ UNCHANGED Voting!vars
<1>1. ASSUME NEW q \in Polls
      PROVE  /\ meta'[q].createdBy = meta[q].createdBy
             /\ q # p => meta'[q] = meta[q]
             /\ q = p => meta'[q].isClosed
  <2>1. meta[q] \in Meta
    BY DEF KeyspaceTypeOK
  <2>2. meta'[q] = IF q = p THEN [meta[q] EXCEPT !.present = TRUE, !.isClosed = TRUE]
                            ELSE meta[q]
    BY DEF SetClosed, KeyspaceTypeOK
  <2>3. QED
    BY <2>1, <2>2 DEF Meta
<1>2. OwnerMap' = OwnerMap
  BY <1>1 DEF OwnerMap
<1>3. BallotMap' = BallotMap /\ votes' = votes
  BY DEF SetClosed, BallotMap, Ballot
<1>4. CASE Status(p) = "open"
  <2>1. Live(p) /\ p \in usedIds /\ meta[p].createdBy = u
    BY <1>4 DEF Status
  <2>2. StatusMap' = [StatusMap EXCEPT ![p] = "closed"]
    BY <1>1, <2>1 DEF StatusMap, Status, Live
  <2>3. QED
    BY <1>2, <1>3, <1>4, <2>1, <2>2 DEF Voting!Close, StatusMap, OwnerMap, BallotMap
<1>5. CASE Status(p) # "open"
  <2>1. StatusMap' = StatusMap
    BY <1>1, <1>5 DEF StatusMap, Status, Live
  <2>2. QED
    BY <1>2, <1>3, <2>1, MappedVars DEF StatusMap, OwnerMap, BallotMap, Voting!vars
<1>6. QED
  BY <1>4, <1>5

\* DEL by the owner deletes the poll; on a poll already deleted it removes at
\* most a hash that a late HSET brought back, which no client can tell.
LEMMA DeleteMapped ==
  ASSUME KeyspaceTypeOK, KeysInv, NEW p \in Polls, NEW u \in Users, p \in usedIds,
         Live(p) => meta[p].createdBy = u,
         DelPoll(p), usedIds' = usedIds
  PROVE  Voting!Delete(p, u) \/ UNCHANGED Voting!vars
<1>1. /\ meta'[p].createdBy = NoUser
      /\ \A q \in Polls \ {p} : meta'[q] = meta[q]
  BY DEF DelPoll, NoMeta, KeyspaceTypeOK
<1>2. StatusMap' = [StatusMap EXCEPT ![p] = "deleted"]
  BY <1>1 DEF StatusMap, Status, Live
<1>3. OwnerMap' = [OwnerMap EXCEPT ![p] = NoUser]
  BY <1>1 DEF OwnerMap
<1>4. BallotMap' = [BallotMap EXCEPT ![p] = Voting!NoBallots]
  BY DEF BallotMap, Ballot, DelPoll, KeyspaceTypeOK, Voting!NoBallots
<1>5. votes' = [votes EXCEPT ![p] = [o \in Options |-> 0]]
  BY DEF DelPoll, NoVotes
<1>6. CASE Live(p)
  <2>1. Status(p) \in {"open", "closed"} /\ meta[p].createdBy = u
    BY <1>6 DEF Status
  <2>2. QED
    BY <1>2, <1>3, <1>4, <1>5, <2>1
       DEF Voting!Delete, StatusMap, OwnerMap, BallotMap
<1>7. CASE ~Live(p)
  <2>1. Status(p) = "deleted" /\ meta[p].createdBy = NoUser /\ voters[p] = {}
    BY <1>7 DEF Status, Live, KeysInv, PollKeys
  <2>2. BallotMap[p] = Voting!NoBallots
    BY <2>1 DEF BallotMap, Ballot, Voting!NoBallots
  <2>3. votes[p] = [o \in Options |-> 0]
    <3>1. \A o \in Options : Ballots(p, o) = {}
      BY <2>1 DEF Ballots
    <3>2. \A o \in Options : votes[p][o] = 0
      BY <3>1, FS_EmptySet DEF KeysInv, TallyMatchesBallots
    <3>3. QED
      BY <3>2 DEF KeyspaceTypeOK
  <2>4. StatusMap' = StatusMap /\ OwnerMap' = OwnerMap
    BY <1>2, <1>3, <2>1 DEF StatusMap, OwnerMap
  <2>5. BallotMap' = BallotMap /\ votes' = votes
    BY <1>4, <1>5, <2>2, <2>3 DEF BallotMap, KeyspaceTypeOK
  <2>6. QED
    BY <2>4, <2>5 DEF Voting!vars, StatusMap, OwnerMap, BallotMap
<1>8. QED
  BY <1>6, <1>7

-----------------------------------------------------------------------------
(* The requests *)

\* A step of a request under way is the step of its one visible command.
LEMMA StepMapped ==
  ASSUME IndInv, NEW self \in Procs, Step(self) \/ Abort(self), ~Finish(self)
  PROVE  [Voting!Next]_Voting!vars
<1>. DEFINE r == req[self]
<1>1. pc[self] # "idle" /\ Progresses(self)
  BY StepsProgress DEF Step, IndInv
<1>2. /\ r.poll \in Polls /\ r.user \in Users /\ r.key \in Keys \cup {NoKey}
      /\ r.op = "vote" => r.option \in Options
  BY <1>1, BusyRequest DEF IndInv
<1>3. KeyspaceTypeOK /\ KeysInv /\ RequestKnows(self) /\ usedIds' = usedIds
  BY <1>1 DEF IndInv, TypeOK, KeysInv, Progresses
<1>4. KeyspaceTypeOK' /\ KeysInv'
  BY StepTypes, StepKeys DEF IndInv, TypeOK
<1>5. CASE VoteStep(self)
  <2>1. r.option \in Options /\ VoteScript(r.poll, r.user, r.option, r.key)
    BY <1>2, <1>5 DEF VoteStep
  <2>2. Voting!Cast(r.poll, r.user, r.option) \/ UNCHANGED Voting!vars
    BY <1>2, <1>3, <1>4, <2>1, VoteMapped
  <2>3. QED
    BY <1>2, <2>1, <2>2 DEF Voting!Next
<1>6. CASE UndoStep(self)
  <2>1. Voting!Retract(r.poll, r.user) \/ UNCHANGED Voting!vars
    BY <1>2, <1>3, <1>4, <1>6, UndoMapped DEF UndoStep
  <2>2. QED
    BY <1>2, <2>1 DEF Voting!Next
<1>7. CASE CloseSet(self)
  <2>1. Live(r.poll) => meta[r.poll].createdBy = r.user
    BY <1>3, <1>7 DEF CloseSet, RequestKnows
  <2>2. Voting!Close(r.poll, r.user) \/ UNCHANGED Voting!vars
    BY <1>2, <1>3, <1>7, <2>1, CloseMapped DEF CloseSet
  <2>3. QED
    BY <1>2, <2>2 DEF Voting!Next
<1>8. CASE DeleteKeys(self)
  <2>1. PICK p \in Polls, u \in Users : p = r.poll /\ u = r.user
    BY <1>2
  <2>2. p \in usedIds /\ DelPoll(p) /\ (Live(p) => meta[p].createdBy = u)
    BY <1>3, <1>8, <2>1 DEF DeleteKeys, RequestKnows
  <2>3. Voting!Delete(p, u) \/ UNCHANGED Voting!vars
    BY <1>3, <2>2, DeleteMapped
  <2>4. QED
    BY <2>3 DEF Voting!Next
<1>9. CASE ~(VoteStep(self) \/ UndoStep(self) \/ CloseSet(self) \/ DeleteKeys(self))
  <2>1. UNCHANGED <<meta, votes, voters, userVotes>>
    BY <1>9
       DEF Step, ReadMeta, ReadOptions, ReadVotes, CheckKey, DropIndex, DropPublic,
           DropCreated, MarkStep, Abort, SRemIndex, SRemPublic, ZRemCreated, SetIdem,
           keyVars, pollVars
  <2>2. QED
    BY <1>3, <2>1, UnseenKeys
<1>10. QED
  BY <1>5, <1>6, <1>7, <1>8, <1>9

\* Every command is a step of VotingSpec or changes nothing a client can see.
LEMMA NextMapped ==
  ASSUME IndInv, [Next]_vars
  PROVE  [Voting!Next]_Voting!vars
<1>1. KeyspaceTypeOK /\ KeysInv /\ KeyspaceTypeOK' /\ KeysInv'
  BY NextInd DEF IndInv, TypeOK, KeysInv
<1>2. CASE \E self \in Procs : ~Finish(self) /\ (Step(self) \/ Abort(self))
  BY <1>2, StepMapped
<1>3. CASE \E p \in Polls, u \in Users, opts \in OptionLists, e \in ExpiryTicks,
              public \in Visibility : Create(p, u, opts, e, public)
  <2>1. PICK p \in Polls, u \in Users, opts \in OptionLists, e \in ExpiryTicks,
             public \in Visibility : Create(p, u, opts, e, public)
    BY <1>3
  <2>2. opts \in SUBSET Options /\ public \in BOOLEAN
    BY OptionListsAssumption, ModeAssumption
  <2>3. Voting!Create(p, u)
    BY <1>1, <2>1, <2>2, CreateMapped DEF Create
  <2>4. QED
    BY <2>3 DEF Voting!Next
<1>4. CASE \/ \E self \in Procs : Finish(self) \/ \E r \in Requests : Begin(self, r)
           \/ Tick \/ UNCHANGED vars
  <2>1. UNCHANGED <<meta, votes, voters, userVotes, usedIds>>
    BY <1>4 DEF Finish, Begin, Tick, vars, keyVars, pollVars, ghostVars
  <2>2. QED
    BY <1>1, <2>1, UnseenKeys
<1>5. QED
  BY <1>2, <1>3, <1>4 DEF Next

\* The store, with its scripts, its transactions and its requests of several
\* commands that interleave, fail and are sent twice, implements the service in
\* which every operation is one step (ImplementsVoting of RedisStore).
THEOREM StoreImplementsVoting == Spec => ImplementsVoting
<1>1. Init => Voting!Init
  BY InitMapped
<1>2. IndInv /\ [Next]_vars => [Voting!Next]_Voting!vars
  BY NextMapped
<1>3. QED
  BY <1>1, <1>2, Inductive, PTL DEF Spec, ImplementsVoting, Voting!Spec

-----------------------------------------------------------------------------
(* The memory store: its maps *)

\* The maps that a module counts with have the Cardinality of the others.
LEMMA MemCardinality ==
  /\ \A S : Mem!Cardinality(S) = Cardinality(S)
  /\ \A S : Mem!Voting!Cardinality(S) = Cardinality(S)
BY DEF Mem!Cardinality, Mem!Voting!Cardinality, Cardinality

\* The users who chose o.
Chose(b, o) == {u \in Users : b[u] = o}

\* A new ballot counts once, for its option.
LEMMA BallotAdded ==
  ASSUME NEW b \in [Users -> Options \cup {NoOption}], NEW u \in Users, NEW o \in Options,
         b[u] = NoOption, NEW x \in Options
  PROVE  /\ Cardinality(Chose(b, x)) \in Nat
         /\ x = o => Cardinality(Chose([b EXCEPT ![u] = o], x)) = Cardinality(Chose(b, x)) + 1
         /\ x # o => Cardinality(Chose([b EXCEPT ![u] = o], x)) = Cardinality(Chose(b, x))
<1> DEFINE c == [b EXCEPT ![u] = o]
<1>1. IsFiniteSet(Chose(b, x))
  BY UsersFinite, FS_Subset DEF Chose
<1>2. u \notin Chose(b, x)
  BY Sentinels DEF Chose
<1>3. Chose(c, x) = IF x = o THEN Chose(b, x) \cup {u} ELSE Chose(b, x)
  BY Sentinels DEF Chose
<1> QED
  BY <1>1, <1>2, <1>3, FS_AddElement, FS_CardinalityType

\* A ballot taken back no longer counts.
LEMMA BallotTaken ==
  ASSUME NEW b \in [Users -> Options \cup {NoOption}], NEW u \in Users, b[u] \in Options,
         NEW x \in Options
  PROVE  /\ Cardinality(Chose(b, x)) \in Nat
         /\ x = b[u] => Cardinality(Chose(b, x)) # 0
         /\ Cardinality(Chose([b EXCEPT ![u] = NoOption], x)) =
              IF x = b[u] THEN Cardinality(Chose(b, x)) - 1 ELSE Cardinality(Chose(b, x))
<1> DEFINE c == [b EXCEPT ![u] = NoOption]
<1>1. IsFiniteSet(Chose(b, x))
  BY UsersFinite, FS_Subset DEF Chose
<1>2. x = b[u] => u \in Chose(b, x)
  BY DEF Chose
<1>3. Chose(c, x) = IF x = b[u] THEN Chose(b, x) \ {u} ELSE Chose(b, x)
  BY Sentinels DEF Chose
<1>4. x = b[u] => Cardinality(Chose(b, x)) # 0
  BY <1>1, <1>2, FS_EmptySet
<1> QED
  BY <1>1, <1>2, <1>3, <1>4, FS_RemoveElement, FS_CardinalityType

\* The records of the polls map.
MemPoll == [present: BOOLEAN, createdBy: Users \cup {NoUser}, isClosed: BOOLEAN,
            expiresAt: Nat, options: SUBSET Options, isPublic: BOOLEAN, createdAt: Nat]

LEMMA MemPollTypes ==
  /\ Mem!NoPoll \in MemPoll /\ ~Mem!NoPoll.present /\ Mem!NoPoll.options = {}
  /\ \A m \in MemPoll : /\ [m EXCEPT !.isClosed = TRUE] \in MemPoll
                        /\ [m EXCEPT !.isClosed = TRUE].present = m.present
                        /\ [m EXCEPT !.isClosed = TRUE].createdBy = m.createdBy
                        /\ [m EXCEPT !.isClosed = TRUE].options = m.options
<1>1. Mem!NoPoll \in MemPoll /\ ~Mem!NoPoll.present /\ Mem!NoPoll.options = {}
  BY DEF Mem!NoPoll, MemPoll
<1>2. ASSUME NEW m \in MemPoll
      PROVE  /\ [m EXCEPT !.isClosed = TRUE] \in MemPoll
             /\ [m EXCEPT !.isClosed = TRUE].present = m.present
             /\ [m EXCEPT !.isClosed = TRUE].createdBy = m.createdBy
             /\ [m EXCEPT !.isClosed = TRUE].options = m.options
  BY DEF MemPoll
<1> QED
  BY <1>1, <1>2

\* What the maps hold of a poll that a method does not touch stays as it was.
MapsKept(p) ==
  /\ memPolls'[p] = memPolls[p] /\ memCounts'[p] = memCounts[p]
  /\ memBallots'[p] = memBallots[p]
  /\ \A u \in Users : p \in memCreated'[u] <=> p \in memCreated[u]

LEMMA KeptMaps ==
  ASSUME NEW p, Mem!PollMaps(p), MapsKept(p), usedIds \subseteq usedIds'
  PROVE  Mem!PollMaps(p)'
BY DEF Mem!PollMaps, MapsKept

LEMMA MemStart == Mem!Init => Mem!MapsInv
<1> SUFFICES ASSUME Mem!Init PROVE Mem!MapsInv
  OBVIOUS
<1> USE DEF Mem!Init, Mem!StoreInit, Mem!NoCounts, Mem!NoBallots
<1>1. Mem!TypeOK
  BY MemPollTypes DEF Mem!TypeOK, MemPoll
<1>2. ASSUME NEW p \in Polls PROVE Mem!PollMaps(p)
  <2>1. \A o \in Options : Cardinality({u \in Users : memBallots[p][u] = o}) = 0
    <3>1. \A o \in Options : {u \in Users : memBallots[p][u] = o} = {}
      BY Sentinels
    <3> QED
      BY <3>1, FS_EmptySet
  <2> QED
    BY <2>1, MemPollTypes, MemCardinality DEF Mem!PollMaps
<1> QED
  BY <1>1, <1>2 DEF Mem!MapsInv

\* A vote that is accepted is counted once, for an option of its poll.
LEMMA MemVoteKeeps ==
  ASSUME Mem!MapsInv, Mem!TypeOK, NEW p \in Polls, NEW u \in Users, NEW o \in Options,
         Mem!Vote(p, u, o), now' = now
  PROVE  Mem!MapsInv'
<1> USE DEF Mem!TypeOK
<1>1. CASE Mem!VoteAnswer(p, u, o) = "ok"
  <2>1. /\ memPolls[p].present /\ memBallots[p][u] = NoOption /\ o \in memPolls[p].options
        /\ memBallots' = [memBallots EXCEPT ![p][u] = o]
        /\ memCounts' = [memCounts EXCEPT ![p][o] = @ + 1]
        /\ memPolls' = memPolls /\ memCreated' = memCreated /\ usedIds' = usedIds
    BY <1>1 DEF Mem!Vote, Mem!VoteAnswer
  <2> DEFINE b == memBallots[p]
  <2>2. b \in [Users -> Options \cup {NoOption}] /\ memBallots'[p] = [b EXCEPT ![u] = o]
    BY <2>1
  <2>3. memCounts' \in [Polls -> [Options -> Nat]]
    BY <2>1
  <2>4. \A q \in Polls : \A x \in Options \ memPolls'[q].options : memCounts'[q][x] = 0
    BY <2>1
  <2>5. memBallots' \in [Polls -> [Users -> Options \cup {NoOption}]]
    BY <2>1
  <2>6. Mem!TypeOK'
    BY <2>1, <2>3, <2>4, <2>5
  <2>7. ASSUME NEW q \in Polls PROVE Mem!PollMaps(q)'
    <3>1. CASE q # p
      BY <2>1, <3>1, KeptMaps DEF MapsKept, Mem!MapsInv
    <3>2. CASE q = p
      <4>1. ASSUME NEW x \in Options
            PROVE  memCounts'[p][x] = Cardinality(Chose(memBallots'[p], x))
        <5>1. memCounts[p][x] = Cardinality(Chose(b, x))
          BY MemCardinality DEF Mem!MapsInv, Mem!PollMaps, Chose
        <5>2. memCounts'[p][x] = IF x = o THEN memCounts[p][x] + 1 ELSE memCounts[p][x]
          BY <2>1
        <5>3. b[u] = NoOption
          BY <2>1
        <5> HIDE DEF b
        <5>4. /\ Cardinality(Chose(b, x)) \in Nat
              /\ x = o => Cardinality(Chose([b EXCEPT ![u] = o], x)) = Cardinality(Chose(b, x)) + 1
              /\ x # o => Cardinality(Chose([b EXCEPT ![u] = o], x)) = Cardinality(Chose(b, x))
          <6>1. b \in [Users -> Options \cup {NoOption}]
            BY <2>2
          <6>2. u \in Users /\ o \in Options /\ x \in Options
            BY <2>2
          <6> QED
            BY ONLY <5>3, <6>1, <6>2, BallotAdded
        <5> QED
          BY <2>2, <5>1, <5>2, <5>4
      <4>2. \A x \in Options :
              memCounts'[p][x] = Mem!Cardinality({v \in Users : memBallots'[p][v] = x})
        BY <4>1, MemCardinality DEF Chose
      <4>3. /\ memPolls'[p].present /\ p \in usedIds' /\ memPolls'[p].createdBy \in Users
            /\ \A v \in Users :
                 p \in memCreated'[v] <=> memPolls'[p].present /\ memPolls'[p].createdBy = v
        BY <2>1 DEF Mem!MapsInv, Mem!PollMaps
      <4> QED
        BY <3>2, <4>2, <4>3 DEF Mem!PollMaps
    <3> QED
      BY <3>1, <3>2
  <2> QED
    BY <2>6, <2>7 DEF Mem!MapsInv
<1>2. CASE UNCHANGED Mem!storeVars
  BY <1>2 DEF Mem!storeVars, Mem!MapsInv, Mem!PollMaps
<1> QED
  BY <1>1, <1>2 DEF Mem!Vote

\* An undo takes away the ballot and its count.
LEMMA MemUndoKeeps ==
  ASSUME Mem!MapsInv, Mem!TypeOK, NEW p \in Polls, NEW u \in Users,
         Mem!UndoVote(p, u), now' = now
  PROVE  Mem!MapsInv'
<1> USE DEF Mem!TypeOK
<1>1. CASE Mem!UndoAnswer(p, u) = "ok"
  <2> DEFINE b == memBallots[p]
             o == memBallots[p][u]
  <2>1. /\ memPolls[p].present /\ o # NoOption
        /\ memBallots' = [memBallots EXCEPT ![p][u] = NoOption]
        /\ memCounts' = [memCounts EXCEPT ![p][o] = Mem!Less(@)]
        /\ memPolls' = memPolls /\ memCreated' = memCreated /\ usedIds' = usedIds
    BY <1>1 DEF Mem!UndoVote, Mem!UndoAnswer
  <2>2. /\ b \in [Users -> Options \cup {NoOption}]
        /\ memBallots'[p] = [b EXCEPT ![u] = NoOption] /\ o \in Options
    BY <2>1
  <2>3. \A n \in Nat : Mem!Less(n) \in Nat /\ (n = 0 => Mem!Less(n) = 0)
                       /\ (n # 0 => Mem!Less(n) = n - 1)
    BY DEF Mem!Less
  <2>4. memCounts' \in [Polls -> [Options -> Nat]]
    BY <2>1, <2>2, <2>3
  <2>5. \A q \in Polls : \A x \in Options \ memPolls'[q].options : memCounts'[q][x] = 0
    BY <2>1, <2>2, <2>3
  <2>6. memBallots' \in [Polls -> [Users -> Options \cup {NoOption}]]
    BY <2>1
  <2>7. Mem!TypeOK'
    BY <2>1, <2>4, <2>5, <2>6
  <2>8. ASSUME NEW q \in Polls PROVE Mem!PollMaps(q)'
    <3>1. CASE q # p
      BY <2>1, <3>1, KeptMaps DEF MapsKept, Mem!MapsInv
    <3>2. CASE q = p
      <4>1. ASSUME NEW x \in Options
            PROVE  memCounts'[p][x] = Cardinality(Chose(memBallots'[p], x))
        <5>1. memCounts[p][x] = Cardinality(Chose(b, x))
          BY MemCardinality DEF Mem!MapsInv, Mem!PollMaps, Chose
        <5>2. memCounts'[p][x] = IF x = o THEN Mem!Less(memCounts[p][x]) ELSE memCounts[p][x]
          BY <2>1
        <5>3. b[u] = o
          OBVIOUS
        <5> HIDE DEF b, o
        <5>4. /\ Cardinality(Chose(b, x)) \in Nat
              /\ x = b[u] => Cardinality(Chose(b, x)) # 0
              /\ Cardinality(Chose([b EXCEPT ![u] = NoOption], x)) =
                   IF x = b[u] THEN Cardinality(Chose(b, x)) - 1 ELSE Cardinality(Chose(b, x))
          <6>1. b \in [Users -> Options \cup {NoOption}] /\ b[u] \in Options
            BY <2>2, <5>3
          <6>2. u \in Users /\ x \in Options
            OBVIOUS
          <6> QED
            BY ONLY <6>1, <6>2, BallotTaken
        <5> QED
          BY <2>2, <2>3, <5>1, <5>2, <5>3, <5>4
      <4>2. \A x \in Options :
              memCounts'[p][x] = Mem!Cardinality({v \in Users : memBallots'[p][v] = x})
        BY <4>1, MemCardinality DEF Chose
      <4>3. /\ memPolls'[p].present /\ p \in usedIds' /\ memPolls'[p].createdBy \in Users
            /\ \A v \in Users :
                 p \in memCreated'[v] <=> memPolls'[p].present /\ memPolls'[p].createdBy = v
        BY <2>1 DEF Mem!MapsInv, Mem!PollMaps
      <4> QED
        BY <3>2, <4>2, <4>3 DEF Mem!PollMaps
    <3> QED
      BY <3>1, <3>2
  <2> QED
    BY <2>7, <2>8 DEF Mem!MapsInv
<1>2. CASE UNCHANGED Mem!storeVars
  BY <1>2 DEF Mem!storeVars, Mem!MapsInv, Mem!PollMaps
<1> QED
  BY <1>1, <1>2 DEF Mem!UndoVote

LEMMA MemCloseKeeps ==
  ASSUME Mem!MapsInv, Mem!TypeOK, NEW p \in Polls, NEW u \in Users,
         Mem!ClosePoll(p, u), now' = now
  PROVE  Mem!MapsInv'
<1> USE DEF Mem!TypeOK
<1>1. /\ memCounts' = memCounts /\ memBallots' = memBallots
      /\ memCreated' = memCreated /\ usedIds' = usedIds
  BY DEF Mem!ClosePoll
<1>2. memPolls \in [Polls -> MemPoll]
  BY DEF MemPoll
<1>3. CASE memPolls[p].present /\ memPolls' = [memPolls EXCEPT ![p].isClosed = TRUE]
  <2>1. /\ memPolls'[p] = [memPolls[p] EXCEPT !.isClosed = TRUE]
        /\ \A q \in Polls \ {p} : memPolls'[q] = memPolls[q]
        /\ memPolls' \in [Polls -> MemPoll]
    BY <1>2, <1>3, MemPollTypes
  <2>2. /\ memPolls'[p].present = memPolls[p].present
        /\ memPolls'[p].createdBy = memPolls[p].createdBy
        /\ memPolls'[p].options = memPolls[p].options
    BY <1>2, <2>1, MemPollTypes
  <2>3. Mem!TypeOK'
    <3>1. \A q \in Polls : memPolls'[q].options = memPolls[q].options
      BY <2>1, <2>2
    <3>2. \A q \in Polls : \A x \in Options \ memPolls'[q].options : memCounts'[q][x] = 0
      BY <1>1, <3>1
    <3> QED
      BY <1>1, <2>1, <3>2 DEF MemPoll
  <2>4. ASSUME NEW q \in Polls PROVE Mem!PollMaps(q)'
    <3>1. CASE q # p
      BY <1>1, <2>1, <3>1, KeptMaps DEF MapsKept, Mem!MapsInv
    <3>2. CASE q = p
      BY <1>1, <1>3, <2>2, <3>2 DEF Mem!MapsInv, Mem!PollMaps
    <3> QED
      BY <3>1, <3>2
  <2> QED
    BY <2>3, <2>4 DEF Mem!MapsInv
<1>4. CASE memPolls' = memPolls
  BY <1>1, <1>4 DEF Mem!MapsInv, Mem!PollMaps
<1> QED
  BY <1>3, <1>4 DEF Mem!ClosePoll

LEMMA MemDeleteKeeps ==
  ASSUME Mem!MapsInv, Mem!TypeOK, NEW p \in Polls, NEW u \in Users,
         Mem!DeletePoll(p, u), now' = now
  PROVE  Mem!MapsInv'
<1> USE DEF Mem!TypeOK
<1>1. CASE memPolls[p].present
  <2>1. /\ memPolls' = [memPolls EXCEPT ![p] = Mem!NoPoll]
        /\ memCounts' = [memCounts EXCEPT ![p] = Mem!NoCounts]
        /\ memBallots' = [memBallots EXCEPT ![p] = Mem!NoBallots]
        /\ memCreated' = [memCreated EXCEPT ![memPolls[p].createdBy] = @ \ {p}]
        /\ usedIds' = usedIds
    BY <1>1 DEF Mem!DeletePoll
  <2>2. /\ Mem!NoCounts \in [Options -> Nat] /\ \A o \in Options : Mem!NoCounts[o] = 0
        /\ Mem!NoBallots \in [Users -> Options \cup {NoOption}]
        /\ \A v \in Users : Mem!NoBallots[v] = NoOption
    BY DEF Mem!NoCounts, Mem!NoBallots
  <2>3. memPolls \in [Polls -> MemPoll] /\ memPolls' \in [Polls -> MemPoll]
    BY <2>1, MemPollTypes DEF MemPoll
  <2>4. Mem!TypeOK'
    <3>1. memCounts' \in [Polls -> [Options -> Nat]]
      BY <2>1, <2>2
    <3>2. \A q \in Polls : \A x \in Options \ memPolls'[q].options : memCounts'[q][x] = 0
      BY <2>1, <2>2
    <3>3. memBallots' \in [Polls -> [Users -> Options \cup {NoOption}]]
      BY <2>1, <2>2
    <3>4. memCreated' \in [Users -> SUBSET Polls]
      BY <2>1
    <3> QED
      BY <2>1, <2>3, <3>1, <3>2, <3>3, <3>4 DEF MemPoll
  <2>5. ASSUME NEW q \in Polls PROVE Mem!PollMaps(q)'
    <3>1. CASE q # p
      BY <2>1, <3>1, KeptMaps DEF MapsKept, Mem!MapsInv
    <3>2. CASE q = p
      <4>1. \A v \in Users : p \notin memCreated'[v]
        BY <1>1, <2>1 DEF Mem!MapsInv, Mem!PollMaps
      <4>2. /\ memPolls'[p] = Mem!NoPoll /\ memCounts'[p] = Mem!NoCounts
            /\ memBallots'[p] = Mem!NoBallots
        BY <2>1
      <4>3. \A o \in Options : Cardinality({v \in Users : memBallots'[p][v] = o}) = 0
        <5>1. \A o \in Options : {v \in Users : memBallots'[p][v] = o} = {}
          BY <2>2, <4>2, Sentinels
        <5> QED
          BY <5>1, FS_EmptySet
      <4> QED
        BY <2>2, <3>2, <4>1, <4>2, <4>3, MemPollTypes, MemCardinality DEF Mem!PollMaps
    <3> QED
      BY <3>1, <3>2
  <2> QED
    BY <2>4, <2>5 DEF Mem!MapsInv
<1>2. CASE UNCHANGED Mem!storeVars
  BY <1>2 DEF Mem!storeVars, Mem!MapsInv, Mem!PollMaps
<1> QED
  BY <1>1, <1>2 DEF Mem!DeletePoll

LEMMA MemCreateKeeps ==
  ASSUME Mem!MapsInv, Mem!TypeOK, NEW p \in Polls, NEW u \in Users,
         NEW opts \in OptionLists, NEW e \in ExpiryTicks, NEW public \in BOOLEAN,
         Mem!CreatePoll(p, u, opts, e, public), now' = now
  PROVE  Mem!MapsInv'
<1> USE DEF Mem!TypeOK
<1> DEFINE new == [present |-> TRUE, createdBy |-> u, isClosed |-> FALSE, expiresAt |-> e,
                   options |-> opts, isPublic |-> public, createdAt |-> now]
<1>1. /\ p \notin usedIds /\ usedIds' = usedIds \cup {p}
      /\ memPolls' = [memPolls EXCEPT ![p] = new]
      /\ memCreated' = [memCreated EXCEPT ![u] = @ \cup {p}]
      /\ memCounts' = memCounts /\ memBallots' = memBallots
  BY DEF Mem!CreatePoll
<1>2. new \in MemPoll /\ new.present /\ new.createdBy = u /\ new.options = opts
  BY OptionListsAssumption, ExpiryAssumption DEF MemPoll
<1> HIDE DEF new
<1>3. /\ ~memPolls[p].present /\ memCounts[p] = Mem!NoCounts /\ memBallots[p] = Mem!NoBallots
      /\ \A v \in Users : p \notin memCreated[v]
  BY <1>1 DEF Mem!MapsInv, Mem!PollMaps
<1>4. memPolls' \in [Polls -> MemPoll] /\ memPolls'[p] = new
  BY <1>1, <1>2 DEF MemPoll
<1>5. \A q \in Polls : \A x \in Options \ memPolls'[q].options : memCounts'[q][x] = 0
  BY <1>1, <1>3 DEF Mem!NoCounts
<1>6. Mem!TypeOK'
  BY <1>1, <1>4, <1>5 DEF MemPoll
<1>7. ASSUME NEW q \in Polls PROVE Mem!PollMaps(q)'
  <2>1. CASE q # p
    BY <1>1, <2>1, KeptMaps DEF MapsKept, Mem!MapsInv
  <2>2. CASE q = p
    BY <1>1, <1>2, <1>3, <1>4, <2>2 DEF Mem!MapsInv, Mem!PollMaps
  <2> QED
    BY <2>1, <2>2
<1> QED
  BY <1>6, <1>7 DEF Mem!MapsInv

LEMMA MemStep == ASSUME Mem!MapsInv, [Mem!Next]_Mem!vars PROVE Mem!MapsInv'
<1>0. Mem!TypeOK
  BY DEF Mem!MapsInv
<1>1. ASSUME NEW p \in Polls, NEW u \in Users, now' = now,
             \/ \E opts \in OptionLists, e \in ExpiryTicks, public \in BOOLEAN :
                  Mem!CreatePoll(p, u, opts, e, public)
             \/ Mem!ClosePoll(p, u)
             \/ Mem!DeletePoll(p, u)
             \/ \E o \in Options : Mem!Vote(p, u, o)
             \/ Mem!UndoVote(p, u)
      PROVE  Mem!MapsInv'
  BY <1>0, <1>1, MemCreateKeeps, MemCloseKeeps, MemDeleteKeeps, MemVoteKeeps, MemUndoKeeps
<1>2. CASE Mem!Tick
  <2>1. now' \in Nat
    BY <1>0, <1>2 DEF Mem!Tick, Mem!TypeOK
  <2> QED
    BY <1>2, <2>1 DEF Mem!Tick, Mem!storeVars, Mem!MapsInv, Mem!TypeOK, Mem!PollMaps
<1>3. CASE UNCHANGED Mem!vars
  BY <1>3 DEF Mem!vars, Mem!storeVars, Mem!MapsInv, Mem!TypeOK, Mem!PollMaps
<1> QED
  BY <1>1, <1>2, <1>3 DEF Mem!Next

-----------------------------------------------------------------------------
(* The memory store implements VotingSpec, any user as good as the owner *)

MemStatusMap == [p \in Polls |-> Mem!Status(p)]

MemOwnerMap == [p \in Polls |-> memPolls[p].createdBy]

LEMMA MemMappedVars ==
  Mem!Voting!vars = <<MemStatusMap, MemOwnerMap, memBallots, memCounts>>
BY DEF Mem!Voting!vars, MemStatusMap, MemOwnerMap

\* Counts that match the ballots are the tally.
LEMMA MemTally ==
  ASSUME NEW b, NEW c \in [Options -> Nat],
         \A o \in Options : c[o] = Cardinality({u \in Users : b[u] = o})
  PROVE  c = Mem!Voting!Tally(b)
BY MemCardinality DEF Mem!Voting!Tally

LEMMA MemInitMapped == Mem!Init => Mem!Voting!Init
<1> SUFFICES ASSUME Mem!Init PROVE Mem!Voting!Init
  OBVIOUS
<1>1. MemStatusMap = [p \in Polls |-> "none"] /\ MemOwnerMap = [p \in Polls |-> NoUser]
  BY DEF Mem!Init, Mem!StoreInit, Mem!NoPoll, MemStatusMap, MemOwnerMap, Mem!Status
<1> QED
  BY <1>1 DEF Mem!Init, Mem!StoreInit, Mem!NoCounts, Mem!NoBallots, MemStatusMap, MemOwnerMap,
              Mem!Voting!Init, Mem!Voting!NoBallots

\* A user's ballot of one poll changes, and the counts follow.
LEMMA MemBallotSet ==
  ASSUME Mem!MapsInv, Mem!MapsInv', NEW p \in Polls, NEW u \in Users,
         NEW b \in Options \cup {NoOption},
         memBallots' = [memBallots EXCEPT ![p][u] = b],
         \A q \in Polls \ {p} : memCounts'[q] = memCounts[q]
  PROVE  memCounts' = [memCounts EXCEPT ![p] = Mem!Voting!Tally(memBallots'[p])]
<1>1. memCounts \in [Polls -> [Options -> Nat]] /\ memCounts' \in [Polls -> [Options -> Nat]]
  BY DEF Mem!MapsInv, Mem!TypeOK
<1>2. \A o \in Options : memCounts'[p][o] = Cardinality({v \in Users : memBallots'[p][v] = o})
  BY MemCardinality DEF Mem!MapsInv, Mem!PollMaps
<1>3. memCounts'[p] = Mem!Voting!Tally(memBallots'[p])
  BY <1>1, <1>2, MemTally
<1> QED
  BY <1>1, <1>3

LEMMA MemVoteMapped ==
  ASSUME Mem!MapsInv, Mem!MapsInv', NEW p \in Polls, NEW u \in Users, NEW o \in Options,
         Mem!Vote(p, u, o)
  PROVE  Mem!Voting!Cast(p, u, o) \/ UNCHANGED Mem!Voting!vars
<1>1. CASE Mem!VoteAnswer(p, u, o) = "ok"
  <2>1. /\ memPolls[p].present /\ ~memPolls[p].isClosed /\ memBallots[p][u] = NoOption
        /\ memBallots' = [memBallots EXCEPT ![p][u] = o]
        /\ memCounts' = [memCounts EXCEPT ![p][o] = @ + 1]
        /\ memPolls' = memPolls /\ usedIds' = usedIds
    BY <1>1 DEF Mem!Vote, Mem!VoteAnswer, Mem!Ended
  <2>2. Mem!Status(p) = "open"
    BY <2>1 DEF Mem!Status, Mem!MapsInv, Mem!PollMaps
  <2>3. memCounts' = [memCounts EXCEPT ![p] = Mem!Voting!Tally(memBallots'[p])]
    <3>1. \A q \in Polls \ {p} : memCounts'[q] = memCounts[q]
      BY <2>1 DEF Mem!MapsInv, Mem!TypeOK
    <3> QED
      BY <2>1, <3>1, MemBallotSet
  <2>4. MemStatusMap' = MemStatusMap /\ MemOwnerMap' = MemOwnerMap
    BY <2>1 DEF MemStatusMap, MemOwnerMap, Mem!Status
  <2> QED
    BY <2>1, <2>2, <2>3, <2>4
       DEF Mem!Voting!Cast, Mem!Voting!SetBallot, MemStatusMap, MemOwnerMap
<1>2. CASE UNCHANGED Mem!storeVars
  BY <1>2 DEF Mem!storeVars, Mem!Voting!vars, Mem!Status
<1> QED
  BY <1>1, <1>2 DEF Mem!Vote

LEMMA MemUndoMapped ==
  ASSUME Mem!MapsInv, Mem!MapsInv', NEW p \in Polls, NEW u \in Users, Mem!UndoVote(p, u)
  PROVE  Mem!Voting!Retract(p, u) \/ UNCHANGED Mem!Voting!vars
<1>1. CASE Mem!UndoAnswer(p, u) = "ok"
  <2>1. /\ memPolls[p].present /\ ~memPolls[p].isClosed /\ memBallots[p][u] # NoOption
        /\ memBallots' = [memBallots EXCEPT ![p][u] = NoOption]
        /\ memCounts' = [memCounts EXCEPT ![p][memBallots[p][u]] = Mem!Less(@)]
        /\ memPolls' = memPolls /\ usedIds' = usedIds
    BY <1>1 DEF Mem!UndoVote, Mem!UndoAnswer, Mem!Ended
  <2>2. Mem!Status(p) = "open"
    BY <2>1 DEF Mem!Status, Mem!MapsInv, Mem!PollMaps
  <2>3. memCounts' = [memCounts EXCEPT ![p] = Mem!Voting!Tally(memBallots'[p])]
    <3>1. \A q \in Polls \ {p} : memCounts'[q] = memCounts[q]
      BY <2>1 DEF Mem!MapsInv, Mem!TypeOK
    <3> QED
      BY <2>1, <3>1, MemBallotSet
  <2>4. MemStatusMap' = MemStatusMap /\ MemOwnerMap' = MemOwnerMap
    BY <2>1 DEF MemStatusMap, MemOwnerMap, Mem!Status
  <2> QED
    BY <2>1, <2>2, <2>3, <2>4
       DEF Mem!Voting!Retract, Mem!Voting!SetBallot, MemStatusMap, MemOwnerMap
<1>2. CASE UNCHANGED Mem!storeVars
  BY <1>2 DEF Mem!storeVars, Mem!Voting!vars, Mem!Status
<1> QED
  BY <1>1, <1>2 DEF Mem!UndoVote

LEMMA MemCreateMapped ==
  ASSUME Mem!MapsInv, NEW p \in Polls, NEW u \in Users, NEW opts, NEW e, NEW public,
         Mem!CreatePoll(p, u, opts, e, public)
  PROVE  Mem!Voting!Create(p, u)
<1>1. /\ p \notin usedIds /\ usedIds' = usedIds \cup {p}
      /\ memCounts' = memCounts /\ memBallots' = memBallots
      /\ \A q \in Polls \ {p} : memPolls'[q] = memPolls[q]
      /\ memPolls'[p].present /\ ~memPolls'[p].isClosed /\ memPolls'[p].createdBy = u
  BY DEF Mem!CreatePoll, Mem!MapsInv, Mem!TypeOK
<1>2. MemStatusMap' = [MemStatusMap EXCEPT ![p] = "open"] /\ MemStatusMap[p] = "none"
  BY <1>1 DEF MemStatusMap, Mem!Status
<1>3. MemOwnerMap' = [MemOwnerMap EXCEPT ![p] = u]
  BY <1>1 DEF MemOwnerMap
<1> QED
  BY <1>1, <1>2, <1>3 DEF Mem!Voting!Create, MemStatusMap, MemOwnerMap

LEMMA MemCloseMapped ==
  ASSUME Mem!MapsInv, NEW p \in Polls, NEW u \in Users, Mem!ClosePoll(p, u)
  PROVE  Mem!Voting!Close(p, u) \/ UNCHANGED Mem!Voting!vars
<1>1. memCounts' = memCounts /\ memBallots' = memBallots /\ usedIds' = usedIds
  BY DEF Mem!ClosePoll
<1>2. CASE memPolls[p].present /\ memPolls' = [memPolls EXCEPT ![p].isClosed = TRUE]
  <2>1. memPolls \in [Polls -> MemPoll] /\ p \in usedIds
    BY <1>2 DEF Mem!MapsInv, Mem!TypeOK, Mem!PollMaps, MemPoll
  <2>2. /\ memPolls'[p].present /\ memPolls'[p].isClosed
        /\ memPolls'[p].createdBy = memPolls[p].createdBy
        /\ \A q \in Polls \ {p} : memPolls'[q] = memPolls[q]
    <3>1. memPolls'[p] = [memPolls[p] EXCEPT !.isClosed = TRUE] /\ memPolls[p] \in MemPoll
      BY <1>2, <2>1
    <3>2. \A m \in MemPoll : [m EXCEPT !.isClosed = TRUE].isClosed
      BY DEF MemPoll
    <3> QED
      BY <1>2, <2>1, <3>1, <3>2, MemPollTypes
  <2>3. MemOwnerMap' = MemOwnerMap
    BY <2>2 DEF MemOwnerMap
  <2>4. MemStatusMap' = [MemStatusMap EXCEPT ![p] = "closed"]
    BY <1>1, <2>1, <2>2 DEF MemStatusMap, Mem!Status
  <2>5. CASE memPolls[p].isClosed
    <3>1. MemStatusMap[p] = "closed"
      BY <1>2, <2>1, <2>5 DEF MemStatusMap, Mem!Status
    <3>2. MemStatusMap' = MemStatusMap
      BY <2>4, <3>1 DEF MemStatusMap
    <3> QED
      BY <1>1, <2>3, <3>2 DEF Mem!Voting!vars, MemStatusMap, MemOwnerMap
  <2>6. CASE ~memPolls[p].isClosed
    <3>1. MemStatusMap[p] = "open"
      BY <1>2, <2>1, <2>6 DEF MemStatusMap, Mem!Status
    <3> QED
      BY <1>1, <2>3, <2>4, <3>1 DEF Mem!Voting!Close, MemStatusMap, MemOwnerMap
  <2> QED
    BY <2>5, <2>6
<1>3. CASE memPolls' = memPolls
  BY <1>1, <1>3 DEF Mem!Voting!vars, Mem!Status
<1> QED
  BY <1>2, <1>3 DEF Mem!ClosePoll

LEMMA MemDeleteMapped ==
  ASSUME Mem!MapsInv, NEW p \in Polls, NEW u \in Users, Mem!DeletePoll(p, u)
  PROVE  Mem!Voting!Delete(p, u) \/ UNCHANGED Mem!Voting!vars
<1>1. CASE memPolls[p].present
  <2>1. /\ memPolls' = [memPolls EXCEPT ![p] = Mem!NoPoll]
        /\ memCounts' = [memCounts EXCEPT ![p] = Mem!NoCounts]
        /\ memBallots' = [memBallots EXCEPT ![p] = Mem!NoBallots]
        /\ usedIds' = usedIds /\ p \in usedIds
    BY <1>1 DEF Mem!DeletePoll, Mem!MapsInv, Mem!PollMaps
  <2>2. memPolls'[p] = Mem!NoPoll /\ \A q \in Polls \ {p} : memPolls'[q] = memPolls[q]
    BY <2>1 DEF Mem!MapsInv, Mem!TypeOK
  <2>3. ~memPolls'[p].present /\ memPolls'[p].createdBy = NoUser
    BY <2>2 DEF Mem!NoPoll
  <2>4. MemStatusMap' = [MemStatusMap EXCEPT ![p] = "deleted"]
    <3>1. Mem!Status(p)' = "deleted"
      BY <2>1, <2>3 DEF Mem!Status
    <3>2. \A q \in Polls \ {p} : Mem!Status(q)' = Mem!Status(q)
      BY <2>1, <2>2 DEF Mem!Status
    <3> QED
      BY <3>1, <3>2 DEF MemStatusMap
  <2>5. MemStatusMap[p] \in {"open", "closed"}
    BY <1>1, <2>1 DEF MemStatusMap, Mem!Status
  <2>6. MemOwnerMap' = [MemOwnerMap EXCEPT ![p] = NoUser]
    BY <2>2, <2>3 DEF MemOwnerMap
  <2> QED
    BY <2>1, <2>4, <2>5, <2>6
    DEF Mem!Voting!Delete, MemStatusMap, MemOwnerMap, Mem!NoCounts, Mem!NoBallots,
        Mem!Voting!NoBallots
<1>2. CASE UNCHANGED Mem!storeVars
  BY <1>2 DEF Mem!storeVars, Mem!Voting!vars, Mem!Status
<1> QED
  BY <1>1, <1>2 DEF Mem!DeletePoll

LEMMA MemNextMapped ==
  ASSUME Mem!MapsInv, [Mem!Next]_Mem!vars PROVE [Mem!Voting!Next]_Mem!Voting!vars
<1>1. Mem!MapsInv'
  BY MemStep
<1>2. ASSUME NEW p \in Polls, NEW u \in Users,
             \/ \E opts \in OptionLists, e \in ExpiryTicks, public \in BOOLEAN :
                  Mem!CreatePoll(p, u, opts, e, public)
             \/ Mem!ClosePoll(p, u)
             \/ Mem!DeletePoll(p, u)
             \/ \E o \in Options : Mem!Vote(p, u, o)
             \/ Mem!UndoVote(p, u)
      PROVE  [Mem!Voting!Next]_Mem!Voting!vars
  <2>1. \/ Mem!Voting!Create(p, u) \/ \E o \in Options : Mem!Voting!Cast(p, u, o)
        \/ Mem!Voting!Retract(p, u) \/ Mem!Voting!Close(p, u) \/ Mem!Voting!Delete(p, u)
        \/ UNCHANGED Mem!Voting!vars
    BY <1>1, <1>2, MemCreateMapped, MemCloseMapped, MemDeleteMapped, MemVoteMapped,
       MemUndoMapped
  <2> QED
    BY <2>1 DEF Mem!Voting!Next
<1>3. CASE Mem!Tick \/ UNCHANGED Mem!vars
  BY <1>3 DEF Mem!Tick, Mem!vars, Mem!storeVars, Mem!Voting!vars, Mem!Status
<1> QED
  BY <1>2, <1>3 DEF Mem!Next

-----------------------------------------------------------------------------
(* Both stores run their own specifications side by side *)

\* The requests given to both stores are requests of RedisStore.
THEOREM ParityRunsRedis == ParitySpec => Spec
<1>1. ParityInit => Init
  BY DEF ParityInit
<1>2. [ParityNext]_parityVars => [Next]_vars
  BY DEF ParityNext, parityVars, BeginBoth, StepBoth, CreateBoth, Next
<1> QED
  BY <1>1, <1>2, PTL DEF ParitySpec, Spec

\* Each of them runs one method of the memory store.
LEMMA MethodRuns ==
  ASSUME NEW r \in Requests, MemMethod(r), usedIds' = usedIds, now' = now
  PROVE  [Mem!Next]_Mem!vars
<1>1. r.poll \in Polls /\ r.user \in Users /\ (r.op = "vote" => r.option \in Options)
  BY Sentinels DEF Requests
<1>2. CASE r.op = "get" /\ UNCHANGED memStoreVars
  BY <1>2 DEF Mem!vars, Mem!storeVars, memStoreVars
<1> QED
  BY <1>1, <1>2 DEF MemMethod, Mem!Next

LEMMA ParityRunsMemory == ParitySpec => Mem!Spec
<1>1. ParityInit => Mem!Init
  BY DEF ParityInit, Mem!Init, Mem!StoreInit, Init, KeyspaceInit
<1>2. ASSUME [ParityNext]_parityVars PROVE [Mem!Next]_Mem!vars
  <2>1. ASSUME NEW self \in Procs, NEW r \in Requests, BeginBoth(self, r)
        PROVE  [Mem!Next]_Mem!vars
    BY <2>1, MethodRuns DEF BeginBoth, Begin
  <2>2. ASSUME NEW self \in Procs, StepBoth(self) PROVE [Mem!Next]_Mem!vars
    <3>1. usedIds' = usedIds /\ now' = now
      BY <2>2 DEF StepBoth, Step, VoteStep, UndoStep, ReadMeta, ReadOptions, ReadVotes,
                  CheckKey, CloseSet, DeleteKeys, DropIndex, DropPublic, DropCreated, MarkStep,
                  Finish, ghostVars
    <3> QED
      BY <2>2, <3>1 DEF StepBoth, memStoreVars, Mem!vars, Mem!storeVars
  <2>3. ASSUME NEW p \in Polls, NEW u \in Users, NEW opts \in OptionLists,
               NEW e \in ExpiryTicks, NEW public \in Visibility,
               CreateBoth(p, u, opts, e, public)
        PROVE  [Mem!Next]_Mem!vars
    <3>1. public \in BOOLEAN /\ now' = now
      BY <2>3, ModeAssumption DEF CreateBoth, Create
    <3> QED
      BY <2>3, <3>1 DEF CreateBoth, Mem!Next
  <2>4. CASE Tick /\ UNCHANGED memVars
    BY <2>4 DEF Tick, ghostVars, memVars, memStoreVars, Mem!Next, Mem!Tick, Mem!storeVars
  <2>5. CASE UNCHANGED parityVars
    BY <2>5 DEF parityVars, vars, ghostVars, memVars, memStoreVars, Mem!vars, Mem!storeVars
  <2> QED
    BY <1>2, <2>1, <2>2, <2>3, <2>4, <2>5 DEF ParityNext
<1> QED
  BY <1>1, <1>2, PTL DEF ParitySpec, Mem!Spec

LEMMA MapsAlways == Mem!Spec => []Mem!MapsInv
<1>1. Mem!Init => Mem!MapsInv
  BY MemStart
<1>2. Mem!MapsInv /\ [Mem!Next]_Mem!vars => Mem!MapsInv'
  BY MemStep
<1> QED
  BY <1>1, <1>2, PTL DEF Mem!Spec

\* The memory store keeps what the service promises, but that any user closes and
\* deletes any poll (memory.go, which never looks at the caller).
THEOREM MemoryImplementsVoting == ParitySpec => MemImplementsVoting
<1>1. Mem!Init => Mem!Voting!Init
  BY MemInitMapped
<1>2. Mem!MapsInv /\ [Mem!Next]_Mem!vars => [Mem!Voting!Next]_Mem!Voting!vars
  BY MemNextMapped
<1>3. Mem!Spec => Mem!Voting!Spec
  BY <1>1, <1>2, MapsAlways, PTL DEF Mem!Spec, Mem!Voting!Spec
<1> QED
  BY <1>3, ParityRunsMemory, PTL DEF MemImplementsVoting, Mem!ImplementsVoting

\* Its ballots change only while their poll is open and not past its expiry, or go
\* with the poll (memory.go, Vote, UndoVote and DeletePoll).
THEOREM MemoryBallotsStop == ParitySpec => MemBallotsOnlyWhileOpen
<1> DEFINE Kept == \A p \in Polls : memBallots'[p] # memBallots[p] =>
                     ~Mem!Ended(p) \/ (memPolls[p].present /\ ~memPolls'[p].present)
<1>1. ASSUME Mem!MapsInv, [Mem!Next]_Mem!vars PROVE Kept
  <2>0. memBallots \in [Polls -> [Users -> Options \cup {NoOption}]]
        /\ memPolls \in [Polls -> MemPoll]
    BY <1>1 DEF Mem!MapsInv, Mem!TypeOK, MemPoll
  <2>1. ASSUME NEW p \in Polls, NEW u \in Users, NEW o \in Options, Mem!Vote(p, u, o)
        PROVE  Kept
    BY <2>0, <2>1 DEF Mem!Vote, Mem!VoteAnswer, Mem!storeVars
  <2>2. ASSUME NEW p \in Polls, NEW u \in Users, Mem!UndoVote(p, u) PROVE Kept
    BY <2>0, <2>2 DEF Mem!UndoVote, Mem!UndoAnswer, Mem!storeVars
  <2>3. ASSUME NEW p \in Polls, NEW u \in Users, Mem!DeletePoll(p, u) PROVE Kept
    BY <2>0, <2>3, MemPollTypes DEF Mem!DeletePoll, Mem!storeVars
  <2>4. CASE memBallots' = memBallots
    BY <2>4
  <2> QED
    BY <1>1, <2>1, <2>2, <2>3, <2>4
       DEF Mem!Next, Mem!CreatePoll, Mem!ClosePoll, Mem!Tick, Mem!vars, Mem!storeVars
<1>2. Mem!MapsInv /\ [Mem!Next]_Mem!vars => [Kept]_Mem!vars
  BY <1>1
<1>3. Mem!Spec => [][Kept]_Mem!vars
  BY <1>2, MapsAlways, PTL DEF Mem!Spec
<1> QED
  BY <1>3, ParityRunsMemory, PTL DEF MemBallotsOnlyWhileOpen, Mem!BallotsOnlyWhileOpen

-----------------------------------------------------------------------------
(* The two stores side by side *)

\* With whole seconds Redis and the memory store mean the same by an expiry.
LEMMA WholeSeconds ==
  ASSUME TicksPerSecond = 1, TypeOK, NEW p \in Polls, meta[p].expiresAt # 0
  PROVE  /\ PastExpiry(meta[p]) <=> now > meta[p].expiresAt
         /\ ReadsClosed(meta[p]) <=> meta[p].isClosed \/ PastExpiry(meta[p])
<1>1. now \in Nat /\ meta[p] \in Meta /\ meta[p].expiresAt \in Nat
  BY DEF TypeOK, KeyspaceTypeOK, Meta
<1>2. Seconds(now) = now /\ meta[p].expiresAt * TicksPerSecond = meta[p].expiresAt
  BY <1>1 DEF Seconds
<1> QED
  BY <1>1, <1>2 DEF PastExpiry, ReadsClosed

\* The stores agree about poll p.
Alike(p) == SameMeta(p) /\ SameEnd(p) /\ SameBallots(p)

\* PollAlone of a poll that no request under way is deleting.
Settled(p) ==
  /\ meta[p].present => Live(p)
  /\ \A u \in Users : userVotes[u][p] # NoOption =>
                        p \in usedIds /\ (Live(p) => u \in voters[p])
  /\ p \in pollsIndex \cup publicIndex => Live(p)
  /\ \A u \in Users : p \in createdPolls[u] => Live(p) /\ meta[p].createdBy = u

LEMMA SettledAlone ==
  ASSUME NEW p \in Polls
  PROVE  /\ Settled(p) => PollAlone(p)
         /\ PollAlone(p) /\ (\A self \in Procs : ~Dropping(self, p)) => Settled(p)
  BY DEF Settled, PollAlone

\* No key of poll p changes, and no map.
Untouched(p) ==
  /\ meta'[p] = meta[p] /\ options'[p] = options[p] /\ voteFields'[p] = voteFields[p]
  /\ votes'[p] = votes[p] /\ voters'[p] = voters[p]
  /\ \A u \in Users : userVotes'[u][p] = userVotes[u][p]
  /\ p \in pollsIndex' <=> p \in pollsIndex
  /\ p \in publicIndex' <=> p \in publicIndex
  /\ \A u \in Users : p \in createdPolls'[u] <=> p \in createdPolls[u]

Unmapped(p) ==
  memPolls'[p] = memPolls[p] /\ memCounts'[p] = memCounts[p] /\ memBallots'[p] = memBallots[p]

LEMMA SettledKept ==
  ASSUME NEW p \in Polls, Settled(p), Untouched(p), usedIds \subseteq usedIds'
  PROVE  Settled(p)'
  BY DEF Settled, Untouched, Live

\* Expiry comes and stays.
LEMMA AlikeKept ==
  ASSUME NEW p \in Polls, Alike(p), Untouched(p), Unmapped(p),
         now' = now \/ (Live(p) /\ PastExpiry(meta[p]) => PastExpiry(meta[p])')
  PROVE  Alike(p)'
  BY DEF Alike, SameMeta, SameEnd, SameBallots, Untouched, Unmapped, Live, Ballot, PastExpiry

\* A step of a request that runs alone touches its own poll, in Redis only.
Moves(self) ==
  /\ \A i \in Procs \ {self} : pc'[i] = pc[i]
  /\ pc'[self] # "idle" => req'[self] = req[self]
  /\ memReply' \in [Procs -> Replies]
  /\ UNCHANGED <<memPolls, memCounts, memBallots, diverged, usedIds, now>>
  /\ \A q \in Polls \ {req[self].poll} : Untouched(q)

\* What such a step must establish.
LEMMA StepParity ==
  ASSUME ParityInv, IndInv', Mem!MapsInv', NEW self \in Procs, pc[self] # "idle", Moves(self),
         NEW p \in Polls, p = req[self].poll, PollAlone(p)',
         pc'[self] # "idle" =>
           /\ RunsAlone(self)'
           /\ p \in diverged => StrangerKnows(self)'
           /\ p \notin diverged => HeadsFor(self)',
         p \notin diverged /\ ~Ahead(self)' => Alike(p)'
  PROVE  ParityInv'
<1>1. \A i \in Procs : i # self => pc[i] = "idle" /\ pc'[i] = "idle"
  BY DEF ParityInv, OneAtATime, Moves
<1>2. OneAtATime'
  BY <1>1 DEF OneAtATime
<1>3. (memReply \in [Procs -> Replies])' /\ (diverged \subseteq Polls)' /\ diverged' = diverged
  BY DEF Moves, ParityInv
<1>4. ASSUME NEW q \in Polls, q # p
      PROVE  PollAlone(q)' /\ (q \notin diverged => Alike(q)')
  <2>1. Untouched(q) /\ Unmapped(q) /\ usedIds' = usedIds /\ now' = now
    BY <1>4 DEF Moves, Unmapped
  <2>2. Settled(q)
    BY <1>1, <1>4, SettledAlone DEF ParityInv, Dropping, Drops
  <2>3. q \notin diverged => Alike(q)
    BY <1>1, <1>4 DEF ParityInv, Alike, Ahead, Reads
  <2>4. Settled(q)' /\ (q \notin diverged => Alike(q)')
    BY <2>1, <2>2, <2>3, SettledKept, AlikeKept
  <2> QED
    BY <2>4 DEF Settled, PollAlone
<1>5. \A i \in Procs : pc'[i] # "idle" =>
        /\ RunsAlone(i)'
        /\ IF req'[i].poll \in diverged' THEN StrangerKnows(i)' ELSE HeadsFor(i)'
  BY <1>1, <1>3 DEF Moves
<1>6. ASSUME NEW q \in Polls \ diverged',
             \A i \in Procs : ~(Ahead(i)' /\ req'[i].poll = q)
      PROVE  (SameMeta(q) /\ SameEnd(q) /\ SameBallots(q))'
  <2>1. CASE q = p
    <3>1. ~Ahead(self)'
      BY <1>6, <2>1 DEF Moves, Ahead, Reads
    <3> QED
      BY <1>3, <1>6, <2>1, <3>1 DEF Alike
  <2>2. CASE q # p
    BY <1>3, <1>4, <1>6, <2>2 DEF Alike
  <2> QED
    BY <2>1, <2>2
<1> QED
  BY <1>2, <1>3, <1>4, <1>5, <1>6 DEF ParityInv

-----------------------------------------------------------------------------
(* The commands of a request that runs alone *)

\* What a request under way can rely on when it runs alone.
LEMMA AloneFacts ==
  ASSUME ParityInv, NEW self \in Procs, pc[self] # "idle", NEW p, p = req[self].poll
  PROVE  /\ req[self] \in Requests /\ p \in Polls /\ req[self].user \in Users
         /\ req[self].key = NoKey /\ (req[self].op = "vote" => req[self].option \in Options)
         /\ TypeOK /\ PollKeys(p) /\ PollAlone(p) /\ RequestKnows(self) /\ RunsAlone(self)
         /\ \A i \in Procs \ {self} : pc[i] = "idle"
         /\ \A i \in Procs, q \in Polls : Dropping(i, q) => i = self /\ q = p
         /\ meta[p] \in Meta
         /\ p \in diverged => StrangerKnows(self)
         /\ p \notin diverged => HeadsFor(self)
         /\ p \notin diverged /\ ~Ahead(self) => Alike(p)
<1>1. TypeOK /\ IndInv
  BY DEF ParityInv, IndInv
<1>2. req[self] \in Requests /\ p \in Polls /\ req[self].user \in Users
      /\ (req[self].op = "vote" => req[self].option \in Options)
  BY <1>1, BusyRequest
<1>3. /\ PollKeys(p) /\ PollAlone(p) /\ RequestKnows(self) /\ RunsAlone(self)
      /\ \A i \in Procs \ {self} : pc[i] = "idle"
      /\ req[self].key = NoKey
  BY <1>2 DEF ParityInv, IndInv, OneAtATime, RunsAlone
<1>4. \A i \in Procs, q \in Polls : Dropping(i, q) => i = self /\ q = p
  BY <1>3 DEF Dropping, Drops
<1>5. /\ p \in diverged => StrangerKnows(self)
      /\ p \notin diverged => HeadsFor(self)
  BY DEF ParityInv
<1>6. p \notin diverged /\ ~Ahead(self) => Alike(p)
  BY <1>2, <1>3 DEF ParityInv, Alike, Ahead, Reads
<1> QED
  BY <1>1, <1>2, <1>3, <1>4, <1>5, <1>6 DEF TypeOK, KeyspaceTypeOK

\* A command writes at most the keys of the request's poll.
LEMMA StepMoves ==
  ASSUME ParityInv, NEW self \in Procs, pc[self] # "idle", StepBoth(self)
  PROVE  Moves(self)
<1>1. TypeOK /\ req[self].poll \in Polls /\ req[self].key = NoKey
  BY AloneFacts
<1>2. /\ \A i \in Procs \ {self} : pc'[i] = pc[i]
      /\ pc'[self] # "idle" => req' = req
      /\ usedIds' = usedIds /\ now' = now
  BY <1>1 DEF StepBoth, Step, VoteStep, UndoStep, ReadMeta, ReadOptions, ReadVotes,
           CheckKey, CloseSet, DeleteKeys, DropIndex, DropPublic, DropCreated, MarkStep,
           Finish, ghostVars, ScriptAnswered, ScriptReturns, Goto, Answer, AnswerPoll, AfterCheck,
           KeyChecked, Advance, TypeOK
<1>3. memReply' \in [Procs -> Replies]
  BY DEF ParityInv, StepBoth, Replies
<1>4. ASSUME NEW q \in Polls \ {req[self].poll}
      PROVE  Untouched(q)
  <2> USE DEF TypeOK, KeyspaceTypeOK, Untouched
  <2>1. CASE UNCHANGED keyVars
    BY <2>1 DEF keyVars, pollVars, indexVars
  <2>2. CASE VoteStep(self)
    <3>1. CASE ApplyVote(req[self].poll, req[self].user, req[self].option, req[self].key)
      BY <1>1, <3>1 DEF ApplyVote, indexVars
    <3> QED
      BY <2>1, <2>2, <3>1 DEF VoteStep, VoteScript
  <2>3. CASE UndoStep(self)
    <3>1. CASE ApplyUndo(req[self].poll, req[self].user, req[self].key)
      BY <1>1, <3>1 DEF ApplyUndo, indexVars
    <3> QED
      BY <2>1, <2>3, <3>1 DEF UndoStep, UndoScript
  <2>4. CASE CloseSet(self) \/ DeleteKeys(self)
    BY <1>1, <2>4 DEF CloseSet, DeleteKeys, SetClosed, DelPoll, indexVars
  <2>5. CASE DropIndex(self) \/ DropPublic(self) \/ DropCreated(self)
    <3>1. CASE DropIndex(self)
      BY <1>1, <3>1 DEF DropIndex, SRemIndex, pollVars
    <3>2. CASE DropPublic(self)
      BY <1>1, <3>2 DEF DropPublic, SRemPublic, pollVars
    <3>3. CASE DropCreated(self)
      BY <1>1, <3>3 DEF DropCreated, ZRemCreated, pollVars
    <3> QED
      BY <2>5, <3>1, <3>2, <3>3
  <2>6. CASE MarkStep(self)
    BY <2>1, <2>6 DEF MarkStep, SetIdem, pollVars, indexVars
  <2> QED
    BY <2>1, <2>2, <2>3, <2>4, <2>5, <2>6
       DEF StepBoth, Step, ReadMeta, ReadOptions, ReadVotes, CheckKey, Finish
<1> QED
  BY <1>2, <1>3, <1>4 DEF Moves, StepBoth, memStoreVars

\* What stays of a poll's agreement, and of what a request knows, when Redis does
\* not change either.
LEMMA ReadKeeps ==
  ASSUME NEW self \in Procs, NEW p \in Polls, p = req[self].poll, UNCHANGED keyVars, Moves(self),
         pc'[self] # "idle", memReply'[self] = memReply[self]
  PROVE  /\ AheadBy(self) => AheadBy(self)'
         /\ Alike(p) => Alike(p)'
         /\ Live(p)' = Live(p)
         /\ Settled(p) => Settled(p)'
<1> USE DEF Moves, keyVars, pollVars, indexVars
<1>1. Alike(p) => Alike(p)'
  BY AlikeKept DEF Untouched, Unmapped
<1>2. Settled(p) => Settled(p)'
  BY SettledKept DEF Untouched
<1>3. Live(p)' = Live(p)
  BY DEF Live
<1>4. AheadBy(self) => AheadBy(self)'
  <2>1. req'[self] = req[self] /\ memReply'[self] = memReply[self]
    OBVIOUS
  <2>2. /\ SameMeta(p)' = SameMeta(p) /\ SameEnd(p)' = SameEnd(p)
        /\ SameBallots(p)' = SameBallots(p)
    BY DEF SameMeta, SameEnd, SameBallots, Live, Ballot, PastExpiry
  <2>3. \A u, o : /\ VoteResult(p, u, o, NoKey)' = VoteResult(p, u, o, NoKey)
                  /\ UndoResult(p, u, NoKey)' = UndoResult(p, u, NoKey)
    BY DEF VoteResult, UndoResult, Gate, IdemSeen, PastExpiry
  <2>4. \A u, o, tally : BallotAhead(p, u, o, tally)' = BallotAhead(p, u, o, tally)
    BY DEF BallotAhead, Ballot
  <2>5. votes'[p] = votes[p] /\ userVotes' = userVotes /\ memPolls' = memPolls /\ meta' = meta
    OBVIOUS
  <2> HIDE DEF Moves, keyVars, pollVars, indexVars
  <2> QED
    BY <1>3, <2>1, <2>2, <2>3, <2>4, <2>5 DEF AheadBy
<1> QED
  BY <1>1, <1>2, <1>3, <1>4

\* What a step of a request that runs alone must establish of it and its poll.
Settles(self, p) ==
  /\ PollAlone(p)'
  /\ pc'[self] # "idle" =>
       /\ RunsAlone(self)'
       /\ p \in diverged => StrangerKnows(self)'
       /\ p \notin diverged => HeadsFor(self)'
  /\ p \notin diverged /\ ~Ahead(self)' => Alike(p)'

\* A live poll's keys exist, and no other poll's do when requests do not overlap.
LEMMA LivePresent ==
  ASSUME NEW p \in Polls, PollKeys(p), PollAlone(p)
  PROVE  meta[p].present <=> Live(p)
  BY DEF PollKeys, PollAlone

\* Nothing remains in either store of a poll that is in neither.
LEMMA GoneAlike ==
  ASSUME IndInv, Mem!MapsInv, NEW p \in Polls, ~Live(p), ~memPolls[p].present
  PROVE  Alike(p)
<1>1. voters[p] = {} /\ \A o \in Options : votes[p][o] = 0
  <2>1. voters[p] = {}
    BY DEF IndInv, PollKeys
  <2>2. \A o \in Options : Ballots(p, o) = {}
    BY <2>1 DEF Ballots
  <2> QED
    BY <2>1, <2>2, FS_EmptySet DEF IndInv, TallyMatchesBallots
<1>2. votes[p] = Mem!NoCounts
  BY <1>1 DEF IndInv, TypeOK, KeyspaceTypeOK, Mem!NoCounts
<1>3. /\ memPolls[p].createdBy = NoUser /\ memCounts[p] = Mem!NoCounts
      /\ \A u \in Users : memBallots[p][u] = NoOption
  BY DEF Mem!MapsInv, Mem!PollMaps, Mem!NoPoll, Mem!NoBallots
<1> QED
  BY <1>1, <1>2, <1>3 DEF Alike, SameMeta, SameEnd, SameBallots, Live, Ballot

\* The same of the state after a step.
LEMMA GoneAlikeNext ==
  ASSUME IndInv', Mem!MapsInv', NEW p \in Polls, ~Live(p)', ~memPolls'[p].present
  PROVE  Alike(p)'
<1>1. (IndInv /\ Mem!MapsInv /\ p \in Polls /\ ~Live(p) /\ ~memPolls[p].present => Alike(p))'
  BY GoneAlike, PTL
<1> QED
  BY <1>1

LEMMA ReadMetaSettles ==
  ASSUME ParityInv, NEW self \in Procs, pc[self] # "idle", StepBoth(self), ReadMeta(self),
         NEW p \in Polls, p = req[self].poll
  PROVE  Settles(self, p)
<1>1. TypeOK /\ PollKeys(p) /\ PollAlone(p) /\ RunsAlone(self) /\ Moves(self)
  BY AloneFacts, StepMoves
<1>2. pc[self] = "readMeta" /\ UNCHANGED keyVars /\ answering' = answering
      /\ pc'[self] # "idle" /\ memReply'[self] = memReply[self] /\ req'[self] = req[self]
  BY <1>1 DEF ReadMeta, StepBoth, Goto, Answer, TypeOK
<1>3. /\ AheadBy(self) => AheadBy(self)'
      /\ Alike(p) => Alike(p)'
      /\ Live(p)' = Live(p)
      /\ Settled(p) => Settled(p)'
  BY <1>1, <1>2, ReadKeeps
<1>4. PollAlone(p)'
  BY <1>1, <1>2, <1>3, SettledAlone, AloneFacts DEF Dropping, Drops, Settled, PollAlone
<1>5. /\ p \in diverged => StrangerKnows(self)
      /\ p \notin diverged => HeadsFor(self)
      /\ p \notin diverged /\ ~Ahead(self) => Alike(p)
      /\ meta[p].present <=> Live(p)
  BY <1>1, AloneFacts, LivePresent
<1>6. CASE ~meta[p].present
  <2>1. pc'[self] = "done" /\ reply'[self] = "notfound"
    BY <1>1, <1>2, <1>6 DEF ReadMeta, Answer, Goto, TypeOK
  <2>2. RunsAlone(self)'
    BY <1>1, <1>2, <2>1 DEF RunsAlone, Reads, Drops
  <2>3. p \in diverged => StrangerKnows(self)'
    BY <1>2, <1>5, <1>6 DEF StrangerKnows
  <2>4. p \notin diverged => memReply[self] = "notfound"
    BY <1>2, <1>5, <1>6 DEF HeadsFor, Reads
  <2>5. p \notin diverged => HeadsFor(self)'
    BY <1>2, <2>1, <2>4 DEF HeadsFor, Ahead, Reads, Drops
  <2>6. p \notin diverged /\ Ahead(self) => ~memPolls[p].present
    BY <1>1, <1>2, <1>5, <1>6 DEF HeadsFor, AheadBy, SameMeta, Ahead, Reads, RunsAlone
  <2>7. p \notin diverged => Alike(p)
    BY <1>5, <1>6, <2>6, GoneAlike DEF ParityInv
  <2> QED
    BY <1>3, <1>4, <2>2, <2>3, <2>5, <2>7 DEF Settles
<1>7. CASE meta[p].present
  <2>1. pc'[self] = "readOptions" /\ view'[self].meta = meta[p]
    BY <1>1, <1>2, <1>7 DEF ReadMeta, Goto, TypeOK, View
  <2>2. RunsAlone(self)'
    BY <1>1, <1>2, <1>3, <1>5, <1>7, <2>1
       DEF RunsAlone, Reads, Drops, keyVars, pollVars
  <2>3. p \in diverged => StrangerKnows(self)'
    BY <1>2, <1>3, <1>5, <1>7, <2>1 DEF StrangerKnows, Reads, keyVars, pollVars
  <2>4. Ahead(self)' <=> Ahead(self)
    BY <1>2, <2>1 DEF Ahead, Reads
  <2>5. p \notin diverged => HeadsFor(self)'
    BY <1>2, <1>3, <1>5, <2>1, <2>4 DEF HeadsFor, Reads, Drops
  <2> QED
    BY <1>3, <1>4, <1>5, <2>2, <2>3, <2>4, <2>5 DEF Settles
<1> QED
  BY <1>6, <1>7

LEMMA ReadOptionsSettles ==
  ASSUME ParityInv, NEW self \in Procs, pc[self] # "idle", StepBoth(self), ReadOptions(self),
         NEW p \in Polls, p = req[self].poll
  PROVE  Settles(self, p)
<1>1. TypeOK /\ PollKeys(p) /\ PollAlone(p) /\ RunsAlone(self) /\ Moves(self)
  BY AloneFacts, StepMoves
<1>2. /\ pc[self] = "readOptions" /\ pc'[self] = "readVotes" /\ UNCHANGED keyVars
      /\ answering' = answering /\ memReply'[self] = memReply[self] /\ req'[self] = req[self]
      /\ view'[self].meta = view[self].meta
  BY <1>1 DEF ReadOptions, StepBoth, Goto, TypeOK, View
<1>3. /\ AheadBy(self) => AheadBy(self)'
      /\ Alike(p) => Alike(p)'
      /\ Live(p)' = Live(p)
      /\ Settled(p) => Settled(p)'
  BY <1>1, <1>2, ReadKeeps
<1>4. PollAlone(p)'
  BY <1>1, <1>2, <1>3, SettledAlone, AloneFacts DEF Dropping, Drops, Settled, PollAlone
<1>5. /\ p \in diverged => StrangerKnows(self)
      /\ p \notin diverged => HeadsFor(self)
      /\ p \notin diverged /\ ~Ahead(self) => Alike(p)
  BY <1>1, AloneFacts
<1>6. RunsAlone(self)'
  BY <1>1, <1>2, <1>3 DEF RunsAlone, Reads, Drops, keyVars, pollVars
<1>7. p \in diverged => StrangerKnows(self)'
  BY <1>2, <1>3, <1>5 DEF StrangerKnows, Reads, keyVars, pollVars
<1>8. Ahead(self)' <=> Ahead(self)
  BY <1>2 DEF Ahead, Reads
<1>9. p \notin diverged => HeadsFor(self)'
  BY <1>2, <1>3, <1>5, <1>8 DEF HeadsFor, Reads, Drops
<1> QED
  BY <1>3, <1>4, <1>5, <1>6, <1>7, <1>8, <1>9 DEF Settles

\* The answer of a read, and what a close or delete does with the poll it read.
LEMMA ReadVotesSettles ==
  ASSUME ParityInv, ExpirySet, TicksPerSecond = 1,
         NEW self \in Procs, pc[self] # "idle", StepBoth(self), ReadVotes(self),
         NEW p \in Polls, p = req[self].poll
  PROVE  Settles(self, p)
<1> DEFINE v == PollRead(view[self], voteFields[p])
<1>1. /\ TypeOK /\ PollKeys(p) /\ PollAlone(p) /\ RunsAlone(self) /\ Moves(self)
      /\ req[self].key = NoKey
  BY AloneFacts, StepMoves
<1>2. /\ pc[self] = "readVotes" /\ pc'[self] \in {"write", "done"} /\ UNCHANGED keyVars
      /\ answering' = answering /\ memReply'[self] = memReply[self] /\ req'[self] = req[self]
  BY <1>1 DEF ReadVotes, AfterCheck, AnswerPoll, Answer, StepBoth, Goto, TypeOK
<1>3. /\ AheadBy(self) => AheadBy(self)'
      /\ Alike(p) => Alike(p)'
      /\ Live(p)' = Live(p)
      /\ Settled(p) => Settled(p)'
  BY <1>1, <1>2, ReadKeeps
<1>4. PollAlone(p)'
  BY <1>1, <1>2, <1>3, SettledAlone, AloneFacts DEF Dropping, Drops, Settled, PollAlone
<1>5. /\ p \in diverged => StrangerKnows(self)
      /\ p \notin diverged => HeadsFor(self)
      /\ p \notin diverged /\ ~Ahead(self) => Alike(p)
  BY <1>1, AloneFacts
<1>6. Live(p) /\ view[self].meta = meta[p] /\ view[self] \in View /\ meta[p] \in Meta
  BY <1>1, <1>2 DEF RunsAlone, TypeOK, KeyspaceTypeOK
<1>7. v.meta.createdBy = meta[p].createdBy /\ v.meta.isClosed = ReadsClosed(meta[p])
  BY <1>6 DEF PollRead, View, Meta
<1>8. p \notin diverged => memReply[self] = "ok"
  BY <1>2, <1>5, <1>6 DEF HeadsFor, Reads
<1>9. CASE pc'[self] = "done" /\ reply'[self] = "ok" /\ answering[self]
  <2>1. RunsAlone(self)'
    BY <1>1, <1>2, <1>9 DEF RunsAlone, Reads, Drops
  <2>2. p \in diverged => StrangerKnows(self)'
    BY <1>2, <1>3, <1>5, <1>6, <1>9 DEF StrangerKnows, Reads, keyVars, pollVars
  <2>3. p \notin diverged => HeadsFor(self)'
    BY <1>2, <1>8, <1>9 DEF HeadsFor, Ahead, Reads, Drops
  <2> QED
    BY <1>3, <1>4, <1>5, <1>9, <2>1, <2>2, <2>3 DEF Settles, Ahead
<1>10. CASE ~answering[self]
  <2>1. AfterCheck(self, v) /\ req[self].op \in {"close", "delete"} /\ Ahead(self)
    BY <1>1, <1>2, <1>10 DEF ReadVotes, RunsAlone, Reads, Ahead
  <2>2. CASE p \in diverged
    <3>1. v.meta.createdBy # req[self].user
      BY <1>5, <1>7, <2>1, <2>2 DEF StrangerKnows
    <3>2. pc'[self] = "done"
      BY <1>1, <2>1, <3>1 DEF AfterCheck, Answer, Goto, TypeOK
    <3>3. RunsAlone(self)'
      BY <1>1, <1>2, <3>2 DEF RunsAlone, Reads, Drops
    <3>4. StrangerKnows(self)'
      BY <1>2, <1>3, <1>5, <2>2, <3>2 DEF StrangerKnows, Reads, keyVars, pollVars
    <3> QED
      BY <1>4, <2>2, <3>3, <3>4 DEF Settles
  <2>3. CASE p \notin diverged
    <3>1. AheadBy(self)
      BY <1>5, <2>1, <2>3 DEF HeadsFor
    <3>2. v.meta.createdBy = req[self].user
      BY <1>6, <1>7, <2>1, <3>1 DEF AheadBy
    <3>3. CASE req[self].op = "close" /\ v.meta.isClosed
      <4>1. pc'[self] = "done" /\ reply'[self] = "ok"
        BY <1>1, <2>1, <3>2, <3>3 DEF AfterCheck, AnswerPoll, Goto, TypeOK
      <4>2. RunsAlone(self)'
        BY <1>1, <1>2, <4>1 DEF RunsAlone, Reads, Drops
      <4>3. HeadsFor(self)'
        BY <1>2, <1>8, <2>3, <4>1 DEF HeadsFor, Ahead, Reads, Drops
      <4>4. meta[p].isClosed \/ PastExpiry(meta[p])
        BY <1>1, <1>6, <1>7, <3>3, WholeSeconds DEF ExpirySet
      <4>5. Alike(p)
        BY <1>6, <3>1, <3>3, <4>4 DEF Alike, AheadBy, SameEnd
      <4> QED
        BY <1>3, <1>4, <2>3, <4>2, <4>3, <4>5 DEF Settles
    <3>4. CASE ~(req[self].op = "close" /\ v.meta.isClosed)
      <4>1. pc'[self] = "write"
        BY <1>1, <2>1, <3>2, <3>4 DEF AfterCheck, Goto, TypeOK
      <4>2. RunsAlone(self)'
        BY <1>1, <1>2, <1>3, <1>6, <1>10, <2>1, <4>1 DEF RunsAlone, Reads, Drops
      <4>3. Ahead(self)' /\ AheadBy(self)'
        BY <1>2, <1>3, <1>10, <3>1, <4>1 DEF Ahead
      <4>4. HeadsFor(self)'
        BY <1>2, <1>8, <2>3, <4>1, <4>3 DEF HeadsFor, Reads, Drops
      <4> QED
        BY <1>4, <2>3, <4>2, <4>3, <4>4 DEF Settles
    <3> QED
      BY <3>3, <3>4
  <2> QED
    BY <2>2, <2>3
<1>11. answering[self] => pc'[self] = "done" /\ reply'[self] = "ok"
  BY <1>1 DEF ReadVotes, AnswerPoll, Goto, TypeOK
<1> QED
  BY <1>9, <1>10, <1>11 DEF TypeOK

LEMMA FinishSettles ==
  ASSUME ParityInv, NEW self \in Procs, pc[self] # "idle", StepBoth(self), Finish(self),
         NEW p \in Polls, p = req[self].poll
  PROVE  Settles(self, p)
<1>1. TypeOK /\ PollAlone(p) /\ Moves(self)
  BY AloneFacts, StepMoves
<1>2. pc[self] = "done" /\ pc'[self] = "idle" /\ UNCHANGED keyVars
  BY <1>1 DEF Finish, Goto, TypeOK
<1>3. Settled(p)
  BY <1>1, <1>2, SettledAlone, AloneFacts DEF Dropping, Drops
<1>4. Untouched(p) /\ Unmapped(p) /\ now' = now /\ usedIds' = usedIds
  BY <1>1, <1>2 DEF Untouched, Unmapped, Moves, keyVars, pollVars, indexVars
<1>5. PollAlone(p)'
  BY <1>3, <1>4, SettledKept DEF Settled, PollAlone
<1>6. p \notin diverged => Alike(p)
  BY <1>2, AloneFacts DEF Ahead, Reads
<1> QED
  BY <1>2, <1>4, <1>5, <1>6, AlikeKept DEF Settles

\* A request that is about to write is the memory store's turn ahead.
LEMMA WriteFacts ==
  ASSUME ParityInv, NEW self \in Procs, pc[self] \in {"script", "write"},
         NEW p \in Polls, p = req[self].poll
  PROVE  /\ p \notin diverged /\ ~answering[self] /\ AheadBy(self) /\ Settled(p)
         /\ pc[self] = "write" => memReply[self] = "ok" /\ Live(p)
<1>1. RunsAlone(self) /\ pc[self] # "idle"
  BY AloneFacts
<1>2. p \notin diverged
  <2>1. p \in diverged => StrangerKnows(self)
    BY <1>1, AloneFacts
  <2> QED
    BY <1>1, <2>1 DEF StrangerKnows, Reads, RunsAlone
<1>3. ~answering[self] /\ (pc[self] = "write" => Live(p))
  BY <1>1 DEF RunsAlone
<1>4. HeadsFor(self)
  BY <1>1, <1>2, AloneFacts
<1>5. AheadBy(self) /\ (pc[self] = "write" => memReply[self] = "ok")
  BY <1>3, <1>4 DEF HeadsFor, Ahead
<1>6. Settled(p)
  BY <1>1, AloneFacts, SettledAlone DEF Dropping, Drops
<1> QED
  BY <1>2, <1>3, <1>5, <1>6

\* The vote script does in Redis what the memory store has done, or refuses as it has.
LEMMA VoteSettles ==
  ASSUME ~Faulty, ParityInv, NEW self \in Procs, pc[self] # "idle", StepBoth(self), VoteStep(self),
         NEW p \in Polls, p = req[self].poll
  PROVE  Settles(self, p)
<1> DEFINE r == req[self]
           u == req[self].user
           o == req[self].option
           result == VoteResult(p, u, o, NoKey)
<1>1. /\ TypeOK /\ PollKeys(p) /\ PollAlone(p) /\ Moves(self)
      /\ r.key = NoKey /\ u \in Users /\ o \in Options /\ meta[p] \in Meta
  BY AloneFacts, StepMoves DEF VoteStep
<1>2. pc[self] = "script" /\ r.op = "vote" /\ VoteScript(p, u, o, NoKey)
      /\ ScriptReturns(self, result) /\ req'[self] = r
  BY <1>1 DEF VoteStep, ScriptAnswered
<1>3. p \notin diverged /\ AheadBy(self) /\ Settled(p)
  BY <1>2, WriteFacts
<1>4. meta[p].present <=> Live(p)
  BY <1>1, LivePresent
<1>5. /\ SameMeta(p) /\ SameEnd(p) /\ memReply[self] = result
      /\ result # "ok" => SameBallots(p)
      /\ result = "ok" => BallotAhead(p, u, o, [votes[p] EXCEPT ![o] = @ + 1])
  BY <1>2, <1>3 DEF AheadBy
<1>6. result # "noop" /\ (result = "ok" => Live(p))
  BY <1>4 DEF VoteResult, Gate, IdemSeen
<1>7. memReply'[self] = memReply[self]
  <2>1. pc'[self] # "idle"
    BY <1>1, <1>2 DEF ScriptReturns, Answer, Goto, TypeOK
  <2> QED
    BY <2>1 DEF StepBoth, ParityInv
<1>8. CASE result = "ok"
  <2>1. ApplyVote(p, u, o, NoKey)
    BY <1>2, <1>8 DEF VoteScript
  <2>2. pc'[self] = "readMeta" /\ answering'[self]
    BY <1>1, <1>2, <1>8 DEF ScriptReturns, Goto, StartRead, TypeOK
  <2>3. /\ meta' = meta /\ options' = options /\ votes'[p] = [votes[p] EXCEPT ![o] = @ + 1]
        /\ voters'[p] = voters[p] \cup {u} /\ userVotes'[u][p] = o
        /\ \A w \in Users \ {u} : userVotes'[w][p] = userVotes[w][p]
        /\ pollsIndex' = pollsIndex /\ publicIndex' = publicIndex /\ createdPolls' = createdPolls
    BY <1>1, <2>1 DEF ApplyVote, indexVars, TypeOK, KeyspaceTypeOK
  <2>4. Live(p) /\ Live(p)' /\ p \in usedIds'
    BY <1>1, <1>6, <1>8, <2>3 DEF Live, PollKeys, Moves
  <2>5. Settled(p)'
    <3>1. \A w \in Users : w \in voters'[p] <=> w \in voters[p] \/ w = u
      BY <2>3
    <3> QED
      BY <1>1, <1>3, <2>3, <2>4, <3>1 DEF Settled, Moves
  <2>6. PollAlone(p)'
    BY <2>5 DEF Settled, PollAlone
  <2>7. RunsAlone(self)'
    BY <1>1, <1>2, <2>2, <2>4 DEF RunsAlone, Reads, Drops
  <2>8. HeadsFor(self)'
    BY <1>2, <1>5, <1>7, <1>8, <2>2, <2>4 DEF HeadsFor, Ahead, Reads, Drops
  <2>9. SameMeta(p)' /\ SameEnd(p)'
    BY <1>1, <1>5, <2>3 DEF SameMeta, SameEnd, Live, PastExpiry, Moves
  <2>10. \A w \in Users : Ballot(p, w)' = IF w = u THEN o ELSE Ballot(p, w)
    BY <2>3 DEF Ballot
  <2>11. SameBallots(p)'
    BY <1>1, <1>5, <1>8, <2>3, <2>10 DEF SameBallots, BallotAhead, Moves
  <2> QED
    BY <1>3, <2>6, <2>7, <2>8, <2>9, <2>11 DEF Settles, Alike
<1>9. CASE result # "ok"
  <2>1. UNCHANGED keyVars
    BY <1>2, <1>9 DEF VoteScript
  <2>2. pc'[self] = "done" /\ reply'[self] = result
    BY <1>1, <1>2, <1>6, <1>9 DEF ScriptReturns, Answer, Goto, TypeOK
  <2>3. (Alike(p) => Alike(p)') /\ (Settled(p) => Settled(p)')
    BY <1>1, <1>7, <2>1, <2>2, ReadKeeps
  <2>4. PollAlone(p)'
    BY <1>3, <2>3 DEF Settled, PollAlone
  <2>5. RunsAlone(self)' /\ HeadsFor(self)'
    BY <1>1, <1>2, <1>5, <1>7, <2>2 DEF RunsAlone, HeadsFor, Ahead, Reads, Drops
  <2> QED
    BY <1>3, <1>5, <1>9, <2>3, <2>4, <2>5 DEF Settles, Alike
<1> QED
  BY <1>8, <1>9

\* So does the undo script.
LEMMA UndoSettles ==
  ASSUME ~Faulty, ParityInv, NEW self \in Procs, pc[self] # "idle", StepBoth(self), UndoStep(self),
         NEW p \in Polls, p = req[self].poll
  PROVE  Settles(self, p)
<1> DEFINE r == req[self]
           u == req[self].user
           o == userVotes[u][p]
           result == UndoResult(p, u, NoKey)
<1>1. /\ TypeOK /\ PollKeys(p) /\ PollAlone(p) /\ Moves(self)
      /\ r.key = NoKey /\ u \in Users /\ meta[p] \in Meta
  BY AloneFacts, StepMoves DEF UndoStep
<1>2. pc[self] = "script" /\ r.op = "undo" /\ UndoScript(p, u, NoKey)
      /\ ScriptReturns(self, result) /\ req'[self] = r
  BY <1>1 DEF UndoStep, ScriptAnswered
<1>3. p \notin diverged /\ AheadBy(self) /\ Settled(p)
  BY <1>2, WriteFacts
<1>4. meta[p].present <=> Live(p)
  BY <1>1, LivePresent
<1>5. /\ SameMeta(p) /\ SameEnd(p) /\ memReply[self] = result
      /\ result # "ok" => SameBallots(p)
      /\ result = "ok" => BallotAhead(p, u, NoOption, [votes[p] EXCEPT ![o] = Decremented(@)])
  BY <1>2, <1>3 DEF AheadBy
<1>6. result # "noop" /\ (result = "ok" => Live(p) /\ o # NoOption)
  BY <1>4 DEF UndoResult, Gate, IdemSeen
<1>7. memReply'[self] = memReply[self]
  <2>1. pc'[self] # "idle"
    BY <1>1, <1>2 DEF ScriptReturns, Answer, Goto, TypeOK
  <2> QED
    BY <2>1 DEF StepBoth, ParityInv
<1>8. CASE result = "ok"
  <2>1. ApplyUndo(p, u, NoKey) /\ o \in Options
    BY <1>1, <1>2, <1>6, <1>8 DEF UndoScript, TypeOK, KeyspaceTypeOK
  <2>2. pc'[self] = "readMeta" /\ answering'[self]
    BY <1>1, <1>2, <1>8 DEF ScriptReturns, Goto, StartRead, TypeOK
  <2>3. /\ meta' = meta /\ options' = options
        /\ votes'[p] = [votes[p] EXCEPT ![o] = Decremented(@)]
        /\ voters'[p] = voters[p] \ {u} /\ userVotes'[u][p] = NoOption
        /\ \A w \in Users \ {u} : userVotes'[w][p] = userVotes[w][p]
        /\ pollsIndex' = pollsIndex /\ publicIndex' = publicIndex /\ createdPolls' = createdPolls
    BY <1>1, <2>1 DEF ApplyUndo, indexVars, TypeOK, KeyspaceTypeOK
  <2>4. Live(p) /\ Live(p)' /\ p \in usedIds'
    BY <1>1, <1>6, <1>8, <2>3 DEF Live, PollKeys, Moves
  <2>5. Settled(p)'
    <3>1. \A w \in Users : w \in voters'[p] <=> w \in voters[p] /\ w # u
      BY <2>3
    <3> QED
      BY <1>1, <1>3, <2>3, <2>4, <3>1 DEF Settled, Moves
  <2>6. PollAlone(p)'
    BY <2>5 DEF Settled, PollAlone
  <2>7. RunsAlone(self)'
    BY <1>1, <1>2, <2>2, <2>4 DEF RunsAlone, Reads, Drops
  <2>8. HeadsFor(self)'
    BY <1>2, <1>5, <1>7, <1>8, <2>2, <2>4 DEF HeadsFor, Ahead, Reads, Drops
  <2>9. SameMeta(p)' /\ SameEnd(p)'
    BY <1>1, <1>5, <2>3 DEF SameMeta, SameEnd, Live, PastExpiry, Moves
  <2>10. \A w \in Users : Ballot(p, w)' = IF w = u THEN NoOption ELSE Ballot(p, w)
    BY <2>3 DEF Ballot
  <2>11. SameBallots(p)'
    BY <1>1, <1>5, <1>8, <2>3, <2>10 DEF SameBallots, BallotAhead, Moves
  <2> QED
    BY <1>3, <2>6, <2>7, <2>8, <2>9, <2>11 DEF Settles, Alike
<1>9. CASE result # "ok"
  <2>1. UNCHANGED keyVars
    BY <1>2, <1>9 DEF UndoScript
  <2>2. pc'[self] = "done" /\ reply'[self] = result
    BY <1>1, <1>2, <1>6, <1>9 DEF ScriptReturns, Answer, Goto, TypeOK
  <2>3. (Alike(p) => Alike(p)') /\ (Settled(p) => Settled(p)')
    BY <1>1, <1>7, <2>1, <2>2, ReadKeeps
  <2>4. PollAlone(p)'
    BY <1>3, <2>3 DEF Settled, PollAlone
  <2>5. RunsAlone(self)' /\ HeadsFor(self)'
    BY <1>1, <1>2, <1>5, <1>7, <2>2 DEF RunsAlone, HeadsFor, Ahead, Reads, Drops
  <2> QED
    BY <1>3, <1>5, <1>9, <2>3, <2>4, <2>5 DEF Settles, Alike
<1> QED
  BY <1>8, <1>9

\* HSET is_closed: the memory store has closed the poll already.
LEMMA CloseSettles ==
  ASSUME ~Faulty, ParityInv, NEW self \in Procs, pc[self] # "idle", StepBoth(self), CloseSet(self),
         NEW p \in Polls, p = req[self].poll
  PROVE  Settles(self, p)
<1>1. /\ TypeOK /\ PollKeys(p) /\ PollAlone(p) /\ Moves(self)
      /\ req[self].key = NoKey /\ meta[p] \in Meta
  BY AloneFacts, StepMoves
<1>2. /\ pc[self] = "write" /\ req[self].op = "close" /\ SetClosed(p)
      /\ pc'[self] = "readMeta" /\ answering'[self] /\ req'[self] = req[self]
  BY <1>1 DEF CloseSet, Advance, AfterClose, Goto, StartRead, TypeOK
<1>3. p \notin diverged /\ AheadBy(self) /\ Settled(p) /\ memReply[self] = "ok" /\ Live(p)
  BY <1>2, WriteFacts
<1>4. memReply'[self] = memReply[self]
  BY <1>2 DEF StepBoth, ParityInv
<1>5. SameMeta(p) /\ SameBallots(p) /\ memPolls[p].isClosed
  BY <1>2, <1>3 DEF AheadBy
<1>6. meta'[p] = [meta[p] EXCEPT !.present = TRUE, !.isClosed = TRUE]
  BY <1>1, <1>2 DEF SetClosed, TypeOK, KeyspaceTypeOK
<1>7. /\ meta'[p].isClosed /\ meta'[p].createdBy = meta[p].createdBy
      /\ meta'[p].expiresAt = meta[p].expiresAt /\ meta'[p].isPublic = meta[p].isPublic
  BY <1>1, <1>6, ClosedMeta
<1>8. UNCHANGED <<options, votes, voters, userVotes, pollsIndex, publicIndex, createdPolls>>
  BY <1>2 DEF SetClosed, indexVars
<1>9. Live(p)'
  BY <1>3, <1>7 DEF Live
<1>10. PollAlone(p)'
  BY <1>1, <1>3, <1>7, <1>8, <1>9 DEF Settled, PollAlone, Moves
<1>11. RunsAlone(self)' /\ HeadsFor(self)'
  BY <1>1, <1>2, <1>3, <1>4, <1>9 DEF RunsAlone, HeadsFor, Ahead, Reads, Drops
<1>12. Alike(p)'
  <2>1. SameMeta(p)' /\ SameEnd(p)'
    BY <1>1, <1>3, <1>5, <1>7, <1>8, <1>9 DEF SameMeta, SameEnd, Moves
  <2>2. SameBallots(p)'
    BY <1>1, <1>5, <1>8 DEF SameBallots, Ballot, Moves
  <2> QED
    BY <2>1, <2>2 DEF Alike
<1> QED
  BY <1>3, <1>10, <1>11, <1>12 DEF Settles

\* DEL: the memory store has forgotten the poll already; the lists are left to clean.
LEMMA DeleteSettles ==
  ASSUME ~Faulty, ParityInv, IndInv', Mem!MapsInv', NEW self \in Procs, pc[self] # "idle",
         StepBoth(self), DeleteKeys(self), NEW p \in Polls, p = req[self].poll
  PROVE  Settles(self, p)
<1>1. /\ TypeOK /\ PollKeys(p) /\ PollAlone(p) /\ Moves(self) /\ RequestKnows(self)
      /\ req[self].key = NoKey /\ meta[p] \in Meta
  BY AloneFacts, StepMoves
<1>2. /\ pc[self] = "write" /\ req[self].op = "delete" /\ DelPoll(p)
      /\ pc'[self] = "dropIndex" /\ req'[self] = req[self]
  BY <1>1 DEF DeleteKeys, Advance, Goto, TypeOK
<1>3. p \notin diverged /\ AheadBy(self) /\ Settled(p) /\ memReply[self] = "ok" /\ Live(p)
  BY <1>2, WriteFacts
<1>4. memReply'[self] = memReply[self]
  BY <1>2 DEF StepBoth, ParityInv
<1>5. ~memPolls[p].present /\ meta[p].createdBy = req[self].user
  BY <1>2, <1>3 DEF AheadBy
<1>6. meta'[p] = NoMeta /\ UNCHANGED <<userVotes, pollsIndex, publicIndex, createdPolls>>
  BY <1>1, <1>2 DEF DelPoll, indexVars, TypeOK, KeyspaceTypeOK
<1>7. ~Live(p)' /\ ~meta'[p].present
  BY <1>6 DEF Live, NoMeta
<1>8. p \in usedIds'
  BY <1>1, <1>2 DEF RequestKnows, Moves
<1>9. Dropping(self, p)'
  BY <1>2 DEF Dropping, Drops
<1>10. PollAlone(p)'
  BY <1>2, <1>3, <1>5, <1>6, <1>7, <1>8, <1>9 DEF Settled, PollAlone
<1>11. RunsAlone(self)' /\ HeadsFor(self)'
  BY <1>1, <1>2, <1>3, <1>4 DEF RunsAlone, HeadsFor, Ahead, Reads, Drops
<1>12. Alike(p)'
  <2>1. ~memPolls'[p].present
    BY <1>1, <1>5 DEF Moves
  <2> QED
    BY <1>7, <2>1, GoneAlikeNext
<1> QED
  BY <1>3, <1>10, <1>11, <1>12 DEF Settles

\* The lists lose the poll one after the other.
LEMMA DropSettles ==
  ASSUME ~Faulty, ParityInv, NEW self \in Procs, pc[self] # "idle", StepBoth(self),
         DropIndex(self) \/ DropPublic(self) \/ DropCreated(self),
         NEW p \in Polls, p = req[self].poll
  PROVE  Settles(self, p)
<1>1. /\ TypeOK /\ PollKeys(p) /\ PollAlone(p) /\ Moves(self) /\ RequestKnows(self)
      /\ RunsAlone(self) /\ req[self].key = NoKey /\ req[self].user \in Users
      /\ \A i \in Procs \ {self} : pc[i] = "idle"
  BY AloneFacts, StepMoves
<1>2. /\ pc[self] \in Drops /\ pc'[self] # "idle" /\ req'[self] = req[self]
      /\ answering' = answering
      /\ UNCHANGED <<meta, options, votes, voters, userVotes>>
  BY <1>1 DEF DropIndex, DropPublic, DropCreated, SRemIndex, SRemPublic, ZRemCreated, Advance,
              Answer, Goto, Drops, TypeOK, pollVars
<1>3. ~Live(p) /\ ~Live(p)' /\ req[self].op = "delete"
  BY <1>1, <1>2 DEF RequestKnows, RunsAlone, Drops, Live
<1>4. p \in diverged => StrangerKnows(self)
  BY <1>1, AloneFacts
<1>5. p \notin diverged
  BY <1>2, <1>3, <1>4 DEF StrangerKnows, Drops, Reads
<1>6. memReply[self] = "ok" /\ Alike(p)
  BY <1>1, <1>2, <1>5, AloneFacts DEF HeadsFor, Drops, Ahead, Reads
<1>7. memReply'[self] = memReply[self]
  BY <1>2 DEF StepBoth, ParityInv
<1>8. Alike(p)'
  BY <1>1, <1>2, <1>6 DEF Alike, SameMeta, SameEnd, SameBallots, Live, Ballot, PastExpiry, Moves
<1>9. /\ p \in pollsIndex => pc[self] = "dropIndex"
      /\ p \in publicIndex => pc[self] # "dropCreated"
      /\ \A u \in Users : p \in createdPolls[u] => req[self].user = u
      /\ \A u \in Users : userVotes[u][p] # NoOption => p \in usedIds
      /\ ~meta[p].present
  BY <1>1, <1>3, AloneFacts DEF PollAlone
<1>10. CASE DropIndex(self)
  <2>1. /\ pc'[self] = "dropPublic" /\ p \notin pollsIndex'
        /\ publicIndex' = publicIndex /\ createdPolls' = createdPolls
    BY <1>1, <1>10 DEF DropIndex, SRemIndex, Advance, Goto, TypeOK
  <2>2. PollAlone(p)'
    BY <1>1, <1>2, <1>3, <1>9, <2>1 DEF PollAlone, Dropping, Drops, Moves
  <2>3. RunsAlone(self)' /\ HeadsFor(self)'
    BY <1>1, <1>2, <1>3, <1>6, <1>7, <2>1 DEF RunsAlone, HeadsFor, Ahead, Reads, Drops
  <2> QED
    BY <1>5, <1>8, <2>2, <2>3 DEF Settles
<1>11. CASE DropPublic(self)
  <2>1. /\ pc[self] = "dropPublic" /\ pc'[self] = "dropCreated" /\ p \notin publicIndex'
        /\ pollsIndex' = pollsIndex /\ createdPolls' = createdPolls
    BY <1>1, <1>11 DEF DropPublic, SRemPublic, Advance, Goto, TypeOK
  <2>2. PollAlone(p)'
    BY <1>1, <1>2, <1>3, <1>9, <2>1 DEF PollAlone, Dropping, Drops, Moves
  <2>3. RunsAlone(self)' /\ HeadsFor(self)'
    BY <1>1, <1>2, <1>3, <1>6, <1>7, <2>1 DEF RunsAlone, HeadsFor, Ahead, Reads, Drops
  <2> QED
    BY <1>5, <1>8, <2>2, <2>3 DEF Settles
<1>12. CASE DropCreated(self)
  <2>1. /\ pc[self] = "dropCreated" /\ pc'[self] = "done" /\ reply'[self] = "ok"
        /\ createdPolls' = [createdPolls EXCEPT ![req[self].user] = @ \ {p}]
        /\ pollsIndex' = pollsIndex /\ publicIndex' = publicIndex
    BY <1>1, <1>12 DEF DropCreated, ZRemCreated, Answer, Goto, TypeOK
  <2>2. \A u \in Users : p \notin createdPolls'[u]
    BY <1>1, <1>9, <2>1 DEF TypeOK, KeyspaceTypeOK
  <2>3. PollAlone(p)'
    BY <1>1, <1>2, <1>3, <1>9, <2>1, <2>2 DEF PollAlone, Dropping, Drops, Moves
  <2>4. RunsAlone(self)' /\ HeadsFor(self)'
    BY <1>1, <1>2, <1>3, <1>6, <1>7, <2>1 DEF RunsAlone, HeadsFor, Ahead, Reads, Drops
  <2> QED
    BY <1>5, <1>8, <2>3, <2>4 DEF Settles
<1> QED
  BY <1>10, <1>11, <1>12

LEMMA CommandKeepsParity ==
  ASSUME ~Faulty, TicksPerSecond = 1, ParityInv, ExpirySet, IndInv', Mem!MapsInv',
         NEW self \in Procs, StepBoth(self)
  PROVE  ParityInv'
<1>1. pc[self] # "idle"
  BY DEF StepBoth, Step, VoteStep, UndoStep, ReadMeta, ReadOptions, ReadVotes, CheckKey,
         CloseSet, DeleteKeys, DropIndex, DropPublic, DropCreated, MarkStep, Finish
<1>2. PICK p \in Polls : p = req[self].poll
  BY <1>1, AloneFacts
<1>3. ~CheckKey(self) /\ ~MarkStep(self)
  BY <1>1, <1>2, AloneFacts DEF RunsAlone, CheckKey, MarkStep
<1>4. Settles(self, p)
  BY <1>1, <1>2, <1>3, VoteSettles, UndoSettles, ReadMetaSettles, ReadOptionsSettles,
     ReadVotesSettles, CloseSettles, DeleteSettles, DropSettles, FinishSettles
     DEF StepBoth, Step
<1>5. Moves(self)
  BY <1>1, StepMoves
<1> QED
  BY <1>1, <1>2, <1>4, <1>5, StepParity DEF Settles

-----------------------------------------------------------------------------
(* A request begins *)

\* Where the stores agree about a poll they give a vote or an undo the same answer.
LEMMA SameResults ==
  ASSUME TicksPerSecond = 1, IndInv, ExpirySet, NEW p \in Polls, Alike(p), Settled(p),
         NEW u \in Users
  PROVE  /\ \A o \in Options : Mem!VoteAnswer(p, u, o) = VoteResult(p, u, o, NoKey)
         /\ Mem!UndoAnswer(p, u) = UndoResult(p, u, NoKey)
<1>1. TypeOK /\ PollKeys(p) /\ \A v \in voters[p] : userVotes[v][p] \in voteFields[p]
  BY DEF IndInv, TallyMatchesBallots
<1>2. memPolls[p].present <=> meta[p].present
  BY <1>1 DEF Alike, SameMeta, PollKeys, Settled
<1>3. CASE ~meta[p].present
  BY <1>2, <1>3 DEF Mem!VoteAnswer, Mem!UndoAnswer, VoteResult, UndoResult, Gate, IdemSeen
<1>4. CASE meta[p].present
  <2>1. Live(p) /\ memPolls[p].options = voteFields[p]
    BY <1>1, <1>4 DEF Settled, Alike, SameMeta, PollKeys
  <2>2. Mem!Ended(p) <=> meta[p].isClosed \/ PastExpiry(meta[p])
    <3>1. PastExpiry(meta[p]) <=> now > memPolls[p].expiresAt
      BY <1>1, <2>1, WholeSeconds DEF ExpirySet, Alike, SameMeta
    <3> QED
      BY <2>1, <3>1 DEF Alike, SameEnd, Mem!Ended
  <2>3. /\ memBallots[p][u] # NoOption <=> u \in voters[p]
        /\ memBallots[p][u] = NoOption <=> u \notin voters[p] \/ userVotes[u][p] = NoOption
    <3>1. u \in voters[p] => userVotes[u][p] # NoOption
      BY <1>1, Sentinels DEF TypeOK, KeyspaceTypeOK
    <3> QED
      BY <3>1 DEF Alike, SameBallots, Ballot
  <2> QED
    BY <1>2, <1>4, <2>1, <2>2, <2>3
       DEF Mem!VoteAnswer, Mem!UndoAnswer, VoteResult, UndoResult, Gate, IdemSeen
<1> QED
  BY <1>3, <1>4

\* A method of the memory store touches the poll of its request.
LEMMA MethodMaps ==
  ASSUME Mem!MapsInv, NEW r \in Requests, MemMethod(r), NEW q \in Polls, q # r.poll
  PROVE  Unmapped(q)
<1>1. r.poll \in Polls /\ r.user \in Users
  BY DEF Requests
<1>2. CASE r.op = "vote" /\ Mem!Vote(r.poll, r.user, r.option)
  BY <1>1, <1>2 DEF Mem!MapsInv, Mem!TypeOK, Mem!Vote, Mem!storeVars, Unmapped
<1>3. CASE r.op = "undo" /\ Mem!UndoVote(r.poll, r.user)
  BY <1>1, <1>3 DEF Mem!MapsInv, Mem!TypeOK, Mem!UndoVote, Mem!storeVars, Unmapped
<1>4. CASE r.op = "close" /\ Mem!ClosePoll(r.poll, r.user)
  BY <1>1, <1>4 DEF Mem!MapsInv, Mem!TypeOK, Mem!ClosePoll, Unmapped
<1>5. CASE r.op = "delete" /\ Mem!DeletePoll(r.poll, r.user)
  BY <1>1, <1>5 DEF Mem!MapsInv, Mem!TypeOK, Mem!DeletePoll, Mem!storeVars, Unmapped
<1>6. CASE r.op = "get" /\ UNCHANGED memStoreVars
  BY <1>6 DEF memStoreVars, Unmapped
<1> QED
  BY <1>2, <1>3, <1>4, <1>5, <1>6 DEF MemMethod

\* A request has begun: the memory store has answered it, Redis has seen nothing of it.
Begun(self, r) ==
  /\ req'[self] = r /\ memReply'[self] = MemAnswer(r)
  /\ UNCHANGED keyVars /\ now' = now

\* No key changes: what the keys say stays.
LEMMA KeysSay ==
  ASSUME UNCHANGED keyVars, now' = now, NEW p \in Polls
  PROVE  /\ Live(p)' = Live(p) /\ meta' = meta /\ votes' = votes /\ userVotes' = userVotes
         /\ \A u : Ballot(p, u)' = Ballot(p, u)
         /\ PastExpiry(meta[p])' = PastExpiry(meta[p])
         /\ \A u, o : /\ VoteResult(p, u, o, NoKey)' = VoteResult(p, u, o, NoKey)
                      /\ UndoResult(p, u, NoKey)' = UndoResult(p, u, NoKey)
         /\ Untouched(p)
  BY DEF keyVars, pollVars, indexVars, Live, Ballot, PastExpiry, VoteResult, UndoResult, Gate,
         IdemSeen, Untouched

LEMMA VoteAhead ==
  ASSUME TicksPerSecond = 1, IndInv, Mem!MapsInv, ExpirySet, NEW self \in Procs,
         NEW r \in Requests, r.op = "vote", NEW p \in Polls, p = r.poll, Alike(p), Settled(p),
         Begun(self, r), Mem!Vote(p, r.user, r.option)
  PROVE  AheadBy(self)'
<1> DEFINE u == r.user
           o == r.option
<1>1. u \in Users /\ o \in Options /\ r.op = "vote"
  BY Sentinels DEF Requests
<1>2. memReply'[self] = VoteResult(p, u, o, NoKey) /\ MemAnswer(r) = Mem!VoteAnswer(p, u, o)
  BY <1>1, SameResults DEF Begun, MemAnswer
<1>3. /\ memBallots \in [Polls -> [Users -> Options \cup {NoOption}]]
      /\ memCounts \in [Polls -> [Options -> Nat]]
  BY DEF Mem!MapsInv, Mem!TypeOK
<1>4. memPolls' = memPolls /\ req'[self] = r
  BY DEF Mem!Vote, Mem!storeVars, Begun
<1>5. /\ Live(p)' = Live(p) /\ meta' = meta /\ votes' = votes /\ userVotes' = userVotes
      /\ options' = options /\ PastExpiry(meta[p])' = PastExpiry(meta[p])
      /\ \A v : Ballot(p, v)' = Ballot(p, v)
      /\ VoteResult(p, u, o, NoKey)' = VoteResult(p, u, o, NoKey)
  BY KeysSay DEF Begun, keyVars, pollVars
<1>6. SameMeta(p)' /\ SameEnd(p)'
  BY <1>4, <1>5 DEF Alike, SameMeta, SameEnd
<1>7. CASE Mem!VoteAnswer(p, u, o) = "ok"
  <2>1. /\ memBallots' = [memBallots EXCEPT ![p][u] = o]
        /\ memCounts' = [memCounts EXCEPT ![p][o] = @ + 1]
    BY <1>7 DEF Mem!Vote
  <2>2. memCounts'[p] = [votes[p] EXCEPT ![o] = @ + 1]
    BY <1>3, <2>1 DEF Alike, SameBallots
  <2>3. \A v \in Users : memBallots'[p][v] = IF v = u THEN o ELSE Ballot(p, v)
    BY <1>1, <1>3, <2>1 DEF Alike, SameBallots
  <2>4. BallotAhead(p, u, o, [votes[p] EXCEPT ![o] = @ + 1])'
    BY <1>5, <2>2, <2>3 DEF BallotAhead
  <2> QED
    BY <1>1, <1>2, <1>4, <1>5, <1>6, <1>7, <2>4 DEF AheadBy, Begun
<1>8. CASE Mem!VoteAnswer(p, u, o) # "ok"
  <2>1. memBallots' = memBallots /\ memCounts' = memCounts
    BY <1>8 DEF Mem!Vote, Mem!storeVars
  <2>2. SameBallots(p)'
    BY <1>5, <2>1 DEF Alike, SameBallots
  <2> QED
    BY <1>1, <1>2, <1>4, <1>5, <1>6, <1>8, <2>2 DEF AheadBy, Begun
<1> QED
  BY <1>7, <1>8

LEMMA UndoAhead ==
  ASSUME TicksPerSecond = 1, IndInv, Mem!MapsInv, ExpirySet, NEW self \in Procs,
         NEW r \in Requests, r.op = "undo", NEW p \in Polls, p = r.poll, Alike(p), Settled(p),
         Begun(self, r), Mem!UndoVote(p, r.user)
  PROVE  AheadBy(self)'
<1> DEFINE u == r.user
           o == userVotes[u][p]
<1>1. u \in Users /\ r.op = "undo"
  BY DEF Requests
<1>2. memReply'[self] = UndoResult(p, u, NoKey) /\ MemAnswer(r) = Mem!UndoAnswer(p, u)
  BY <1>1, SameResults DEF Begun, MemAnswer
<1>3. /\ memBallots \in [Polls -> [Users -> Options \cup {NoOption}]]
      /\ memCounts \in [Polls -> [Options -> Nat]]
  BY DEF Mem!MapsInv, Mem!TypeOK
<1>4. memPolls' = memPolls /\ req'[self] = r
  BY DEF Mem!UndoVote, Mem!storeVars, Begun
<1>5. /\ Live(p)' = Live(p) /\ meta' = meta /\ votes' = votes /\ userVotes' = userVotes
      /\ options' = options /\ PastExpiry(meta[p])' = PastExpiry(meta[p])
      /\ \A v : Ballot(p, v)' = Ballot(p, v)
      /\ UndoResult(p, u, NoKey)' = UndoResult(p, u, NoKey)
  BY KeysSay DEF Begun, keyVars, pollVars
<1>6. SameMeta(p)' /\ SameEnd(p)'
  BY <1>4, <1>5 DEF Alike, SameMeta, SameEnd
<1>7. CASE Mem!UndoAnswer(p, u) = "ok"
  <2>1. memBallots[p][u] = o /\ o \in Options
    BY <1>1, <1>2, <1>3, <1>7 DEF Mem!UndoAnswer, Alike, SameBallots, Ballot
  <2>2. /\ memBallots' = [memBallots EXCEPT ![p][u] = NoOption]
        /\ memCounts' = [memCounts EXCEPT ![p][o] = Mem!Less(@)]
    BY <1>7, <2>1 DEF Mem!UndoVote
  <2>3. \A n \in Nat : Mem!Less(n) = Decremented(n)
    BY DEF Mem!Less, Decremented
  <2>4. memCounts'[p] = [votes[p] EXCEPT ![o] = Decremented(@)]
    BY <1>3, <2>1, <2>2, <2>3 DEF Alike, SameBallots
  <2>5. \A v \in Users : memBallots'[p][v] = IF v = u THEN NoOption ELSE Ballot(p, v)
    BY <1>1, <1>3, <2>2 DEF Alike, SameBallots
  <2>6. BallotAhead(p, u, NoOption, [votes[p] EXCEPT ![o] = Decremented(@)])'
    BY <1>5, <2>4, <2>5 DEF BallotAhead
  <2> QED
    BY <1>1, <1>2, <1>4, <1>5, <1>6, <1>7, <2>6 DEF AheadBy, Begun
<1>8. CASE Mem!UndoAnswer(p, u) # "ok"
  <2>1. memBallots' = memBallots /\ memCounts' = memCounts
    BY <1>8 DEF Mem!UndoVote, Mem!storeVars
  <2>2. SameBallots(p)'
    BY <1>5, <2>1 DEF Alike, SameBallots
  <2> QED
    BY <1>1, <1>2, <1>4, <1>5, <1>6, <1>8, <2>2 DEF AheadBy, Begun
<1> QED
  BY <1>7, <1>8

\* The owner closes or deletes, or the poll is in neither store.
LEMMA EndAhead ==
  ASSUME Mem!MapsInv, NEW self \in Procs, NEW r \in Requests, NEW p \in Polls, p = r.poll,
         Alike(p), ~ByStranger(r), Begun(self, r),
         \/ r.op = "close" /\ Mem!ClosePoll(p, r.user)
         \/ r.op = "delete" /\ Mem!DeletePoll(p, r.user)
  PROVE  AheadBy(self)'
<1>1. /\ req'[self] = r /\ memPolls \in [Polls -> MemPoll]
      /\ Live(p) => meta[p].createdBy = r.user
      /\ Live(p) <=> memPolls[p].present
  BY DEF Begun, ByStranger, Alike, SameMeta, Mem!MapsInv, Mem!TypeOK, MemPoll
<1>2. /\ Live(p)' = Live(p) /\ meta' = meta /\ votes' = votes /\ options' = options
      /\ \A v : Ballot(p, v)' = Ballot(p, v)
  BY KeysSay DEF Begun, keyVars, pollVars
<1>3. CASE r.op = "close" /\ Mem!ClosePoll(p, r.user)
  <2>1. memCounts' = memCounts /\ memBallots' = memBallots
    BY <1>3 DEF Mem!ClosePoll
  <2>2. \/ ~Live(p) /\ memPolls' = memPolls
        \/ /\ memPolls'[p] = [memPolls[p] EXCEPT !.isClosed = TRUE]
    BY <1>1, <1>3 DEF Mem!ClosePoll
  <2>3. /\ memPolls'[p].present = memPolls[p].present
        /\ memPolls'[p].createdBy = memPolls[p].createdBy
        /\ memPolls'[p].expiresAt = memPolls[p].expiresAt
        /\ memPolls'[p].isPublic = memPolls[p].isPublic
        /\ memPolls'[p].options = memPolls[p].options
        /\ Live(p) => memPolls'[p].isClosed
    <3>1. memPolls[p] \in MemPoll
      BY <1>1
    <3> QED
      BY <2>2, <3>1 DEF MemPoll
  <2>4. SameMeta(p)'
    BY <1>2, <2>3 DEF Alike, SameMeta
  <2>5. SameBallots(p)'
    BY <1>2, <2>1 DEF Alike, SameBallots
  <2> QED
    BY <1>1, <1>2, <1>3, <2>3, <2>4, <2>5 DEF AheadBy
<1>4. CASE r.op = "delete" /\ Mem!DeletePoll(p, r.user)
  <2>1. ~memPolls'[p].present
    BY <1>1, <1>4, MemPollTypes DEF Mem!DeletePoll, Mem!storeVars
  <2> QED
    BY <1>1, <1>2, <1>4, <2>1 DEF AheadBy
<1> QED
  BY <1>3, <1>4

LEMMA BeginKeepsParity ==
  ASSUME TicksPerSecond = 1, ParityInv, ExpirySet, IndInv', Mem!MapsInv',
         NEW self \in Procs, NEW r \in Requests, BeginBoth(self, r)
  PROVE  ParityInv'
<1>1. PICK p \in Polls : p = r.poll
  BY DEF Requests
<1>2. /\ TypeOK /\ Mem!MapsInv /\ Quiet /\ r.key = NoKey /\ Begun(self, r)
      /\ memReply' \in [Procs -> Replies]
      /\ UNCHANGED usedIds
      /\ pc'[self] = (IF r.op \in {"vote", "undo"} THEN "script" ELSE "readMeta")
      /\ answering'[self] = (r.op = "get")
      /\ \A i \in Procs \ {self} : pc'[i] = "idle"
  <2>1. TypeOK /\ Mem!MapsInv /\ Quiet /\ memReply \in [Procs -> Replies]
    BY DEF ParityInv, IndInv, BeginBoth
  <2>2. MemAnswer(r) \in Replies
    BY DEF MemAnswer, Replies, Mem!VoteAnswer, Mem!UndoAnswer, Mem!PresentAnswer
  <2> QED
    BY <2>1, <2>2 DEF BeginBoth, Begin, Begun, Goto, StartRead, TypeOK, Quiet
<1>3. ASSUME NEW q \in Polls PROVE Settled(q) /\ Settled(q)' /\ PollAlone(q)'
  <2>1. Settled(q)
    BY <1>2, SettledAlone DEF ParityInv, Quiet, Dropping, Drops
  <2>2. Settled(q)'
    BY <1>2, <2>1, KeysSay, SettledKept DEF Begun
  <2> QED
    BY <2>1, <2>2 DEF Settled, PollAlone
<1>4. \A q \in Polls \ diverged : Alike(q)
  BY <1>2 DEF ParityInv, Alike, Quiet, Ahead, Reads
<1>5. \A q \in Polls \ diverged : q # p => Alike(q)'
  BY <1>1, <1>2, <1>4, KeysSay, MethodMaps, AlikeKept DEF Begun, BeginBoth
<1>6. RunsAlone(self)'
  BY <1>1, <1>2, OpsAssumption DEF RunsAlone, Begun, Reads, Drops, Requests, AllOps
<1>7. /\ diverged' \subseteq Polls /\ diverged \subseteq diverged'
      /\ \A q \in diverged' \ diverged : q = p /\ ByStranger(r)
      /\ ByStranger(r) => p \in diverged'
  BY <1>1 DEF BeginBoth, ParityInv
<1>8. CASE p \in diverged'
  <2>1. StrangerKnows(self)'
    <3>1. CASE r.op = "get"
      BY <1>2, <3>1 DEF StrangerKnows, Begun
    <3>2. CASE r.op # "get"
      <4>1. ByStranger(r) /\ Alike(p)
        BY <1>1, <1>4, <1>7, <1>8, <3>2 DEF BeginBoth
      <4>2. Live(p)' /\ meta'[p].createdBy # r.user
        BY <1>1, <1>2, <4>1, KeysSay DEF ByStranger, Alike, SameMeta, Begun
      <4> QED
        BY <1>1, <1>2, <4>1, <4>2 DEF ByStranger, StrangerKnows, Begun, Reads
    <3> QED
      BY <3>1, <3>2
  <2>2. \A q \in Polls \ diverged' : Alike(q)'
    BY <1>5, <1>7, <1>8
  <2> QED
    BY <1>1, <1>2, <1>3, <1>6, <1>7, <1>8, <2>1, <2>2
       DEF ParityInv, OneAtATime, Begun, Alike
<1>9. CASE p \notin diverged'
  <2>1. Alike(p) /\ Settled(p) /\ ~ByStranger(r)
    BY <1>3, <1>4, <1>7, <1>9
  <2>2. CASE r.op = "get"
    <3>1. Alike(p)'
      BY <1>1, <1>2, <2>1, <2>2, KeysSay, AlikeKept
         DEF BeginBoth, MemMethod, memStoreVars, Unmapped, Begun
    <3>2. HeadsFor(self)'
      BY <1>1, <1>2, <2>1, <2>2, KeysSay
         DEF HeadsFor, Begun, MemAnswer, Mem!PresentAnswer, Alike, SameMeta, Ahead, Reads, Drops
    <3>3. \A q \in Polls \ diverged' : Alike(q)'
      BY <1>5, <1>7, <3>1
    <3> QED
      BY <1>1, <1>2, <1>3, <1>6, <1>7, <1>9, <3>2, <3>3
         DEF ParityInv, OneAtATime, Begun, Alike
  <2>3. CASE r.op # "get"
    <3>1. AheadBy(self)'
      BY <1>1, <1>2, <2>1, <2>3, VoteAhead, UndoAhead, EndAhead
         DEF BeginBoth, MemMethod, ParityInv
    <3>2. Ahead(self)'
      BY <1>2, <2>3 DEF Ahead, Reads
    <3>3. HeadsFor(self)'
      BY <1>1, <1>2, <2>1, <2>3, <3>1, KeysSay
         DEF HeadsFor, Begun, MemAnswer, Mem!PresentAnswer, Alike, SameMeta, Reads, Drops,
             Requests, AllOps
    <3>4. \A q \in Polls \ diverged' : q # p => Alike(q)'
      BY <1>5, <1>7
    <3> QED
      BY <1>1, <1>2, <1>3, <1>6, <1>7, <1>9, <3>2, <3>3, <3>4
         DEF ParityInv, OneAtATime, Begun, Alike
  <2> QED
    BY <2>2, <2>3
<1> QED
  BY <1>8, <1>9

\* A new poll is the same in both stores.
LEMMA CreateKeepsParity ==
  ASSUME TicksPerSecond = 1, ParityInv, IndInv', Mem!MapsInv',
         NEW p \in Polls, NEW u \in Users, NEW opts \in OptionLists, NEW e \in ExpiryTicks,
         NEW public \in Visibility, CreateBoth(p, u, opts, e, public)
  PROVE  ParityInv'
<1>1. /\ TypeOK /\ Mem!MapsInv /\ Quiet /\ p \notin usedIds /\ CreateTx(p, u, opts, e, public)
      /\ usedIds' = usedIds \cup {p} /\ now' = now /\ UNCHANGED procVars
      /\ memReply' = memReply /\ diverged' = diverged
      /\ Mem!CreatePoll(p, u, opts, e, public)
  BY DEF ParityInv, IndInv, CreateBoth, Create
<1>2. /\ memPolls \in [Polls -> MemPoll] /\ Seconds(e) = e
  BY <1>1, ExpiryAssumption DEF Mem!MapsInv, Mem!TypeOK, MemPoll, Seconds
<1>3. /\ \A q \in Polls : Settled(q)
      /\ \A q \in Polls \ diverged : Alike(q)
  <2>1. \A q \in Polls : Settled(q)
    BY <1>1, SettledAlone DEF ParityInv, Quiet, Dropping, Drops
  <2> QED
    BY <1>1, <2>1 DEF ParityInv, Alike, Quiet, Ahead, Reads
<1>4. ASSUME NEW q \in Polls, q # p
      PROVE  Settled(q)' /\ (q \notin diverged => Alike(q)')
  <2>1. Untouched(q)
    BY <1>1, <1>4 DEF CreateTx, Untouched, TypeOK, KeyspaceTypeOK
  <2>2. Unmapped(q)
    BY <1>1, <1>4 DEF Mem!CreatePoll, Unmapped, Mem!MapsInv, Mem!TypeOK
  <2> QED
    BY <1>1, <1>3, <1>4, <2>1, <2>2, SettledKept, AlikeKept
<1>5. ~Live(p) /\ options[p] = {} /\ voters[p] = {} /\ \A o \in Options : votes[p][o] = 0
  <2>1. PollKeys(p)
    BY DEF ParityInv, IndInv
  <2>2. ~Live(p) /\ options[p] = {} /\ voters[p] = {}
    BY <1>1, <2>1 DEF PollKeys
  <2>3. \A o \in Options : Ballots(p, o) = {}
    BY <2>2 DEF Ballots
  <2>4. TallyMatchesBallots
    BY DEF ParityInv, IndInv
  <2>5. \A o \in Options : votes[p][o] = Cardinality({})
    <3>1. p \in Polls
      OBVIOUS
    <3> QED
      BY ONLY <2>3, <2>4, <3>1 DEF TallyMatchesBallots
  <2> QED
    BY <2>2, <2>5, FS_EmptySet
<1>6. /\ meta'[p] = [present |-> TRUE, createdBy |-> u, isClosed |-> FALSE,
                     expiresAt |-> e, isPublic |-> public]
      /\ options'[p] = opts /\ voters'[p] = {} /\ votes'[p] = Mem!NoCounts
      /\ userVotes' = userVotes /\ \A w \in Users : p \in createdPolls'[w] => w = u
  <2>1. votes'[p] = [o \in Options |-> IF o \in opts THEN 0 ELSE votes[p][o]]
    BY <1>1 DEF CreateTx, TypeOK, KeyspaceTypeOK
  <2>2. votes'[p] = Mem!NoCounts
    BY <1>5, <2>1 DEF Mem!NoCounts
  <2>3. \A w \in Users : p \notin createdPolls[w]
    BY <1>3, <1>5 DEF Settled
  <2> QED
    BY <1>1, <1>2, <1>5, <2>2, <2>3 DEF CreateTx, TypeOK, KeyspaceTypeOK
<1>7. /\ memPolls'[p] = [present |-> TRUE, createdBy |-> u, isClosed |-> FALSE,
                         expiresAt |-> e, options |-> opts, isPublic |-> public,
                         createdAt |-> now]
      /\ memCounts'[p] = Mem!NoCounts
      /\ \A w \in Users : memBallots'[p][w] = NoOption
  BY <1>1, <1>2 DEF Mem!CreatePoll, Mem!MapsInv, Mem!PollMaps, Mem!NoBallots
<1>8. Settled(p)'
  <2>1. \A w \in Users : userVotes'[w][p] = NoOption
    BY <1>1, <1>3, <1>6 DEF Settled
  <2> QED
    BY <1>6, <2>1, Sentinels DEF Settled, Live
<1>9. Alike(p)'
  <2>1. SameMeta(p)' /\ SameEnd(p)'
    BY <1>6, <1>7, Sentinels DEF SameMeta, SameEnd, Live
  <2>2. SameBallots(p)'
    BY <1>6, <1>7 DEF SameBallots, Ballot
  <2> QED
    BY <2>1, <2>2 DEF Alike
<1>10. \A q \in Polls : PollAlone(q)' /\ (q \notin diverged' => Alike(q)')
  <2>1. \A q \in Polls : Settled(q)' /\ (q \notin diverged' => Alike(q)')
    BY <1>1, <1>4, <1>8, <1>9
  <2> QED
    BY <2>1 DEF Settled, PollAlone
<1>11. \A i \in Procs : pc'[i] = "idle"
  BY <1>1 DEF Quiet, procVars
<1> QED
  BY <1>1, <1>10, <1>11 DEF ParityInv, OneAtATime, Alike

\* The clock moves between requests.
LEMMA TickKeepsParity ==
  ASSUME TicksPerSecond = 1, ParityInv, IndInv', Mem!MapsInv',
         (Quiet /\ Tick /\ UNCHANGED memVars) \/ UNCHANGED parityVars
  PROVE  ParityInv'
<1>1. CASE UNCHANGED parityVars
  <2>1. \A p \in Polls : PollAlone(p)' = PollAlone(p)
    BY <1>1 DEF parityVars, vars, keyVars, pollVars, indexVars, procVars, ghostVars, PollAlone,
                Live, Dropping
  <2>2. \A p : /\ SameMeta(p)' = SameMeta(p) /\ SameEnd(p)' = SameEnd(p)
               /\ SameBallots(p)' = SameBallots(p) /\ Live(p)' = Live(p)
    BY <1>1 DEF parityVars, vars, keyVars, pollVars, memVars, memStoreVars, SameMeta, SameEnd,
                SameBallots, Live, Ballot, PastExpiry
  <2>3. \A self \in Procs : /\ RunsAlone(self)' = RunsAlone(self)
                            /\ StrangerKnows(self)' = StrangerKnows(self)
                            /\ Ahead(self)' = Ahead(self)
    BY <1>1 DEF parityVars, vars, keyVars, pollVars, procVars, RunsAlone, StrangerKnows, Ahead,
                Live
  <2>4. \A self \in Procs : HeadsFor(self)' = HeadsFor(self)
    <3>1. \A p, u, o, tally :
            /\ VoteResult(p, u, o, NoKey)' = VoteResult(p, u, o, NoKey)
            /\ UndoResult(p, u, NoKey)' = UndoResult(p, u, NoKey)
            /\ BallotAhead(p, u, o, tally)' = BallotAhead(p, u, o, tally)
      BY <1>1 DEF parityVars, vars, keyVars, pollVars, memVars, memStoreVars, VoteResult,
                  UndoResult, Gate, IdemSeen, PastExpiry, BallotAhead, Ballot
    <3>2. UNCHANGED <<req, pc, reply, memReply, memPolls, meta, votes, userVotes>>
      BY <1>1 DEF parityVars, vars, keyVars, pollVars, procVars, memVars, memStoreVars
    <3>3. \A self \in Procs : AheadBy(self)' = AheadBy(self)
      BY <2>2, <3>1, <3>2 DEF AheadBy
    <3> QED
      BY <2>2, <2>3, <3>2, <3>3 DEF HeadsFor
  <2> QED
    BY <1>1, <2>1, <2>2, <2>3, <2>4
       DEF ParityInv, parityVars, vars, procVars, memVars, OneAtATime
<1>2. CASE Quiet /\ Tick /\ UNCHANGED memVars
  <2>1. /\ UNCHANGED keyVars /\ UNCHANGED <<procVars, usedIds, memReply, diverged>>
        /\ now \in Nat /\ now' = now + 1 /\ meta \in [Polls -> Meta]
        /\ UNCHANGED <<memPolls, memCounts, memBallots>>
    BY <1>2 DEF Tick, ghostVars, memVars, memStoreVars, ParityInv, IndInv, TypeOK, KeyspaceTypeOK
  <2>2. \A i \in Procs : pc[i] = "idle" /\ pc'[i] = "idle"
    BY <1>2, <2>1 DEF Quiet, procVars
  <2>3. ASSUME NEW p \in Polls
        PROVE  PollAlone(p)' /\ (p \notin diverged => Alike(p)')
    <3>1. Settled(p) /\ (p \notin diverged => Alike(p))
      BY <2>2, SettledAlone DEF ParityInv, Dropping, Drops, Alike, Ahead, Reads
    <3>2. Untouched(p) /\ Unmapped(p) /\ usedIds' = usedIds
      BY <2>1 DEF Untouched, Unmapped, keyVars, pollVars, indexVars
    <3>3. PastExpiry(meta[p]) => PastExpiry(meta[p])'
      <4>1. meta[p].expiresAt \in Nat /\ meta' = meta
        BY <2>1 DEF Meta, keyVars, pollVars
      <4>2. Seconds(now) = now /\ Seconds(now)' = now'
        BY <2>1 DEF Seconds
      <4> QED
        BY <2>1, <4>1, <4>2 DEF PastExpiry
    <3>4. Settled(p)' /\ (p \notin diverged => Alike(p)')
      BY <3>1, <3>2, <3>3, SettledKept, AlikeKept
    <3> QED
      BY <3>4 DEF Settled, PollAlone
  <2> QED
    BY <2>1, <2>2, <2>3 DEF ParityInv, OneAtATime, Alike
<1> QED
  BY <1>1, <1>2

LEMMA StartParity == ParityInit => ParityInv
<1> SUFFICES ASSUME ParityInit PROVE ParityInv
  OBVIOUS
<1>1. IndInv /\ Mem!MapsInv
  BY InitInd, MemStart DEF ParityInit, Mem!Init, Init, KeyspaceInit
<1>2. \A i \in Procs : pc[i] = "idle"
  BY DEF ParityInit, Init
<1>3. memReply \in [Procs -> Replies] /\ diverged = {}
  BY DEF ParityInit, Replies
<1>4. ASSUME NEW p \in Polls PROVE Settled(p) /\ Alike(p)
  <2>1. ~Live(p) /\ ~meta[p].present /\ p \notin pollsIndex \cup publicIndex
        /\ \A u \in Users : userVotes[u][p] = NoOption /\ p \notin createdPolls[u]
    BY DEF ParityInit, Init, KeyspaceInit, NoMeta, Live
  <2>2. ~memPolls[p].present
    BY MemPollTypes DEF ParityInit, Mem!StoreInit
  <2> QED
    BY <1>1, <2>1, <2>2, GoneAlike DEF Settled
<1> QED
  BY <1>1, <1>2, <1>3, <1>4, SettledAlone DEF ParityInv, OneAtATime, Alike

\* What the memory store has done and Redis has not yet is known at every command,
\* so that the stores agree again when the command is done.
LEMMA NextParity ==
  ASSUME ~Faulty, TicksPerSecond = 1, ParityInv, ExpirySet, IndInv', Mem!MapsInv',
         [ParityNext]_parityVars
  PROVE  ParityInv'
<1>1. CASE \E self \in Procs, r \in Requests : BeginBoth(self, r)
  BY <1>1, BeginKeepsParity
<1>2. CASE \E self \in Procs : StepBoth(self)
  BY <1>2, CommandKeepsParity
<1>3. CASE \E p \in Polls, u \in Users, opts \in OptionLists, e \in ExpiryTicks,
              public \in Visibility : CreateBoth(p, u, opts, e, public)
  BY <1>3, CreateKeepsParity
<1>4. CASE (Quiet /\ Tick /\ UNCHANGED memVars) \/ UNCHANGED parityVars
  BY <1>4, TickKeepsParity
<1> QED
  BY <1>1, <1>2, <1>3, <1>4 DEF ParityNext

\* One request at a time, no failures and a clock of whole seconds: each store's
\* keys or maps agree about every poll, and the stores agree about every poll that
\* no request under way has changed in one of them only.
THEOREM ParityInductive ==
  ASSUME ~Faulty, TicksPerSecond = 1 PROVE ParitySpec => []ParityInv
<1>1. ParitySpec => [](IndInv /\ ExpirySet /\ Mem!MapsInv)
  BY ParityRunsRedis, Inductive, ExpiryAlways, ParityRunsMemory, MapsAlways, PTL
<1> DEFINE Known == IndInv /\ ExpirySet /\ Mem!MapsInv
<1>2. ParityInv /\ Known /\ Known' /\ [ParityNext]_parityVars => ParityInv'
  BY NextParity
<1> QED
  BY <1>1, <1>2, StartParity, PTL DEF ParitySpec

\* Both stores give every request the same answer, until a stranger ends the poll
\* (memory.go beside store.go and scripts.go).
THEOREM StoresAnswerAlike ==
  ASSUME ~Faulty, TicksPerSecond = 1 PROVE ParitySpec => []SameAnswers
<1>1. ParityInv => SameAnswers
  BY DEF ParityInv, HeadsFor, SameAnswers
<1> QED
  BY <1>1, ParityInductive, PTL

\* Between requests both hold the same polls, ballots, counts and lists of created
\* polls, and the same polls take no more votes.
THEOREM StoresHoldTheSame ==
  ASSUME ~Faulty, TicksPerSecond = 1 PROVE ParitySpec => []SameState
<1>1. ASSUME ParityInv, ExpirySet, Quiet, NEW p \in Polls \ diverged
      PROVE  /\ Live(p) <=> memPolls[p].present
             /\ meta[p].createdBy = memPolls[p].createdBy
             /\ votes[p] = memCounts[p]
             /\ \A u \in Users : /\ Ballot(p, u) = memBallots[p][u]
                                 /\ p \in createdPolls[u] <=> p \in memCreated[u]
             /\ Live(p) => (meta[p].isClosed \/ PastExpiry(meta[p]) <=> Mem!Ended(p))
  <2>1. Alike(p) /\ Settled(p)
    BY <1>1, SettledAlone DEF ParityInv, Quiet, Alike, Ahead, Reads, Dropping, Drops
  <2>2. \A u \in Users : p \in createdPolls[u] <=> p \in memCreated[u]
    BY <1>1, <2>1 DEF ParityInv, Mem!MapsInv, Mem!PollMaps, Alike, SameMeta, Settled, IndInv,
                      LivePollListed
  <2>3. ASSUME Live(p)
        PROVE  meta[p].isClosed \/ PastExpiry(meta[p]) <=> Mem!Ended(p)
    <3>1. PastExpiry(meta[p]) <=> now > memPolls[p].expiresAt
      BY <1>1, <2>1, <2>3, WholeSeconds DEF ExpirySet, ParityInv, IndInv, Alike, SameMeta
    <3> QED
      BY <2>1, <2>3, <3>1 DEF Alike, SameEnd, Mem!Ended
  <2> QED
    BY <2>1, <2>2, <2>3 DEF Alike, SameMeta, SameBallots
<1>2. ParityInv /\ ExpirySet => SameState
  BY <1>1 DEF SameState
<1>3. ParitySpec => []ExpirySet
  BY ParityRunsRedis, ExpiryAlways, PTL
<1> QED
  BY <1>2, <1>3, ParityInductive, PTL

-----------------------------------------------------------------------------
(* The lists *)

\* The memory store cuts and sorts with the same operators.
LEMMA MemPages ==
  /\ Mem!NoCursor = NoCursor
  /\ \A S : Mem!Lowest(S) = Lowest(S)
  /\ \A ids, limit, sc : Mem!TopRows(ids, limit, sc) = TopRows(ids, limit, sc)
<1>1. \A S : Mem!Min(S) = Min(S)
  BY DEF Mem!Min, Min
<1>2. \A k, S : Mem!kSubset(k, S) = kSubset(k, S)
  BY MemCardinality DEF Mem!kSubset, kSubset
<1>3. \A ids, limit, sc : Mem!TopRows(ids, limit, sc) = TopRows(ids, limit, sc)
  BY <1>1, <1>2, MemCardinality DEF Mem!TopRows, TopRows
<1> QED
  BY <1>1, <1>3 DEF Mem!NoCursor, NoCursor, Mem!Lowest, Lowest

\* What a list reads of a poll, in Redis and in the maps.
LEMMA ReadAlike ==
  ASSUME TicksPerSecond = 1, ParityInv, ExpirySet, Quiet, diverged = {},
         NEW p \in Polls, NEW u \in Users
  PROVE  /\ meta[p].present <=> memPolls[p].present
         /\ meta[p].createdBy = memPolls[p].createdBy
         /\ p \in pollsIndex <=> memPolls[p].present
         /\ p \in publicIndex <=> memPolls[p].present /\ memPolls[p].isPublic
         /\ p \in createdPolls[u] <=> p \in memCreated[u]
         /\ p \in memCreated[u] => memPolls[p].present /\ memPolls[p].createdBy = u
         /\ memPolls[p].present =>
              /\ ReadsClosed(meta[p]) <=> Mem!Ended(p)
              /\ userVotes[u][p] # NoOption <=> memBallots[p][u] # NoOption
<1>1. Alike(p) /\ Settled(p) /\ PollKeys(p) /\ TypeOK
  BY SettledAlone DEF ParityInv, Quiet, Alike, Ahead, Reads, Dropping, Drops, IndInv
<1>2. Live(p) <=> memPolls[p].present
  BY <1>1 DEF Alike, SameMeta
<1>3. /\ meta[p].present <=> memPolls[p].present
      /\ meta[p].createdBy = memPolls[p].createdBy
  BY <1>1, <1>2 DEF Settled, PollKeys, Alike, SameMeta
<1>4. /\ p \in pollsIndex <=> memPolls[p].present
      /\ p \in publicIndex <=> memPolls[p].present /\ memPolls[p].isPublic
      /\ p \in createdPolls[u] <=> p \in memCreated[u]
      /\ p \in memCreated[u] => memPolls[p].present /\ memPolls[p].createdBy = u
  BY <1>1, <1>2 DEF ParityInv, Mem!MapsInv, Mem!PollMaps, Alike, SameMeta, Settled, IndInv,
                    LivePollListed
<1>5. ASSUME memPolls[p].present
      PROVE  /\ ReadsClosed(meta[p]) <=> Mem!Ended(p)
             /\ userVotes[u][p] # NoOption <=> memBallots[p][u] # NoOption
  <2>1. /\ PastExpiry(meta[p]) <=> now > memPolls[p].expiresAt
        /\ ReadsClosed(meta[p]) <=> meta[p].isClosed \/ PastExpiry(meta[p])
    BY <1>1, <1>2, <1>5, WholeSeconds DEF ExpirySet, Alike, SameMeta
  <2>2. ReadsClosed(meta[p]) <=> Mem!Ended(p)
    BY <1>1, <1>2, <1>5, <2>1 DEF Alike, SameEnd, Mem!Ended
  <2>3. u \in voters[p] => userVotes[u][p] # NoOption
    BY <1>1, Sentinels DEF ParityInv, IndInv, TallyMatchesBallots, TypeOK, KeyspaceTypeOK
  <2>4. userVotes[u][p] # NoOption => u \in voters[p]
    BY <1>1, <1>2, <1>5 DEF Settled
  <2>5. memBallots[p][u] = Ballot(p, u)
    BY <1>1 DEF Alike, SameBallots
  <2> QED
    BY <2>2, <2>3, <2>4, <2>5 DEF Ballot
<1> QED
  BY <1>3, <1>4, <1>5

\* The same polls are selected, expired ones apart.
LEMMA SelectAlike ==
  ASSUME TicksPerSecond = 1, ParityInv, ExpirySet, Quiet, diverged = {}, NEW u \in Users,
         NEW kind \in {"all", "public", "votes", "mine"}, NEW closedToo \in BOOLEAN
  PROVE  SameSelection(kind, u, closedToo)
<1>1. Source(kind, u) \subseteq Polls
  BY DEF Source, ParityInv, IndInv, TypeOK, KeyspaceTypeOK
<1>2. ASSUME NEW p \in Polls
      PROVE  p \in Source(kind, u) /\ Shows(kind, u, closedToo, p)
               <=> p \in Mem!Listed(kind, u, closedToo)
                   /\ (kind = "votes" \/ closedToo \/ ~Mem!Ended(p))
  <2>1. /\ meta[p].present <=> memPolls[p].present
        /\ meta[p].createdBy = memPolls[p].createdBy
        /\ p \in pollsIndex <=> memPolls[p].present
        /\ p \in publicIndex <=> memPolls[p].present /\ memPolls[p].isPublic
        /\ p \in createdPolls[u] <=> p \in memCreated[u]
        /\ p \in memCreated[u] => memPolls[p].present /\ memPolls[p].createdBy = u
        /\ memPolls[p].present =>
             /\ ReadsClosed(meta[p]) <=> Mem!Ended(p)
             /\ userVotes[u][p] # NoOption <=> memBallots[p][u] # NoOption
    BY ReadAlike
  <2>2. memPolls[p].isClosed => Mem!Ended(p)
    BY DEF Mem!Ended
  <2>3. CASE kind = "all"
    BY <2>1, <2>2, <2>3 DEF Source, Shows, Mem!Listed
  <2>4. CASE kind = "public"
    BY <2>1, <2>2, <2>4 DEF Source, Shows, Mem!Listed
  <2>5. CASE kind = "votes"
    BY <2>1, <2>2, <2>5 DEF Source, Shows, Mem!Listed
  <2>6. CASE kind = "mine"
    BY <2>1, <2>2, <2>6 DEF Source, Shows, Mem!Listed
  <2> QED
    BY <2>3, <2>4, <2>5, <2>6
<1>3. Mem!Listed(kind, u, closedToo) \subseteq Polls
  BY DEF Mem!Listed
<1>4. /\ \A p \in Polls : p \in Shown(kind, u, closedToo)
                          <=> p \in Source(kind, u) /\ Shows(kind, u, closedToo, p)
      /\ Shown(kind, u, closedToo) \subseteq Polls
  BY <1>1 DEF Shown
<1> QED
  BY <1>2, <1>3, <1>4 DEF SameSelection

\* The newest polls are polls of the same number from the same selection.
LEMMA CutAlike ==
  ASSUME NEW u \in Users, NEW kind \in {"all", "public", "votes", "mine"}, NEW limit \in Limits,
         SameSelection(kind, u, TRUE)
  PROVE  SameCut(kind, u, limit)
<1>1. Shown(kind, u, TRUE) = Mem!Listed(kind, u, TRUE)
  BY DEF SameSelection
<1>2. Mem!Lists(kind, u, TRUE, limit)
        = TopRows(Shown(kind, u, TRUE), limit, Mem!CreatedAt)
  BY <1>1, MemPages DEF Mem!Lists
<1>3. \A ids, sc : TopRows(ids, limit, sc) \subseteq AnyRows(ids, limit)
  BY DEF TopRows, AnyRows
<1> QED
  BY <1>2, <1>3 DEF SameCut, Cut

\* A score is a natural number.
LEMMA ScoresAreNat ==
  ASSUME TicksPerSecond = 1, ParityInv PROVE \A p \in Polls : Score[p] \in Nat
<1>1. \A p \in Polls : memPolls[p].createdAt \in Nat
  BY DEF ParityInv, Mem!MapsInv, Mem!TypeOK
<1>2. \A p \in Polls : Fraction[p] \in Nat /\ Fractions \in Nat
  BY ScoreAssumption
<1>3. \A t \in Nat : t \div TicksPerSecond = t
  OBVIOUS
<1>4. \A p \in Polls : Score[p] = memPolls[p].createdAt * Fractions + Fraction[p]
  BY <1>1, <1>3 DEF Score, Mem!Score
<1> QED
  BY <1>1, <1>2, <1>4

\* The pages of the created polls, asked with the same cursor.
LEMMA PagesAlike ==
  ASSUME TicksPerSecond = 1, ParityInv, ExpirySet, Quiet, diverged = {}, IsFiniteSet(Polls),
         NEW u \in Users, NEW limit \in Limits, NEW cursor \in Nat \cup {NoCursor},
         SameSelection("mine", u, FALSE)
  PROVE  SamePages(u, limit, cursor)
<1> DEFINE ids == {p \in createdPolls[u] : Below(Score[p], cursor)}
           open == {p \in Mem!Listed("mine", u, FALSE) : Mem!AfterCursor(p, cursor)}
           Page(set, top) == [rows |-> top,
             next |-> IF Cardinality(set) > limit THEN Lowest({Score[p] : p \in top})
                      ELSE NoCursor]
<1>1. /\ createdPolls[u] \subseteq Polls /\ limit \in Nat \ {0}
      /\ Score = Mem!Score /\ \A p \in Polls : Score[p] \in Nat
  BY ScoresAreNat, ScoreAssumption DEF Score, ParityInv, IndInv, TypeOK, KeyspaceTypeOK
<1> HIDE DEF Score
<1>2. \A p \in Polls : Mem!AfterCursor(p, cursor) <=> Below(Score[p], cursor)
  BY <1>1, MemPages DEF Mem!AfterCursor, Below
<1>3. \A p \in Polls : p \in createdPolls[u] <=> p \in Mem!Listed("mine", u, TRUE)
  BY ReadAlike DEF Mem!Listed
<1>4. ids = {p \in Mem!Listed("mine", u, TRUE) : Mem!AfterCursor(p, cursor)}
  BY <1>1, <1>2, <1>3 DEF Mem!Listed
<1>5. RangePages(u, limit, cursor, Score) = {Page(ids, top) : top \in TopRows(ids, limit, Score)}
  BY DEF RangePages, CursorOf
<1>6. \A closedToo \in BOOLEAN :
        Mem!MinePages(u, closedToo, limit, cursor) =
          LET all == {p \in Mem!Listed("mine", u, closedToo) : Mem!AfterCursor(p, cursor)} IN
          {Page(all, top) : top \in TopRows(all, limit, Score)}
  <2> SUFFICES ASSUME NEW closedToo \in BOOLEAN
               PROVE  Mem!MinePages(u, closedToo, limit, cursor) =
                        LET all == {p \in Mem!Listed("mine", u, closedToo) :
                                      Mem!AfterCursor(p, cursor)} IN
                        {Page(all, top) : top \in TopRows(all, limit, Score)}
    OBVIOUS
  <2> DEFINE all == {p \in Mem!Listed("mine", u, closedToo) : Mem!AfterCursor(p, cursor)}
             MemPage(top) == [rows |-> top,
               next |-> IF Mem!Cardinality(all) > limit
                        THEN Mem!Lowest({Mem!Score[p] : p \in top}) ELSE Mem!NoCursor]
  <2>1. Mem!MinePages(u, closedToo, limit, cursor) =
          {MemPage(top) : top \in Mem!TopRows(all, limit, Mem!Score)}
    BY DEF Mem!MinePages
  <2>2. Mem!TopRows(all, limit, Mem!Score) = TopRows(all, limit, Score)
    BY <1>1, MemPages
  <2>3. \A top : MemPage(top) = Page(all, top)
    <3>1. \A S : Mem!Lowest(S) = Lowest(S) /\ Mem!Cardinality(S) = Cardinality(S)
      BY MemPages, MemCardinality
    <3> HIDE DEF all
    <3> QED
      BY <1>1, <3>1, MemPages
  <2> HIDE DEF all, MemPage, Page
  <2> QED
    BY <2>1, <2>2, <2>3 DEF all
<1>7. RangePages(u, limit, cursor, Score) = Mem!MinePages(u, TRUE, limit, cursor)
  BY <1>4, <1>5, <1>6
<1>8. /\ open \subseteq ids /\ ids \subseteq Polls /\ IsFiniteSet(ids) /\ IsFiniteSet(open)
      /\ Shown("mine", u, FALSE) \cap ids \subseteq open
  <2>1. open \subseteq ids /\ ids \subseteq Polls
    BY <1>1, <1>2, <1>3 DEF Mem!Listed
  <2>2. Shown("mine", u, FALSE) \subseteq Mem!Listed("mine", u, FALSE)
    BY DEF SameSelection
  <2>3. Shown("mine", u, FALSE) \cap ids \subseteq open
    BY <1>2, <2>1, <2>2
  <2> QED
    BY <2>1, <2>3, FS_Subset
<1> HIDE DEF Page, ids, open
<1>9. ASSUME NEW page \in RangePages(u, limit, cursor, Score)
      PROVE  \E memPage \in Mem!MinePages(u, FALSE, limit, cursor) :
               page.rows \cap Shown("mine", u, FALSE) \subseteq memPage.rows
  <2>1. PICK top \in TopRows(ids, limit, Score) : page = Page(ids, top)
    BY <1>5, <1>9
  <2>2. page.rows = top
    BY <2>1 DEF Page
  <2>3. /\ top \subseteq ids /\ IsFiniteSet(top) /\ Cardinality(top) <= limit
        /\ \A p \in top, q \in ids \ top : Score[p] >= Score[q]
    BY <1>1, <1>8, TopRowsAre
  <2> DEFINE some == top \cap open
  <2>4. /\ some \subseteq open /\ Cardinality(some) <= limit
        /\ \A p \in some, q \in open \ some : Score[p] >= Score[q]
    <3>1. Cardinality(some) <= Cardinality(top) /\ Cardinality(some) \in Nat
          /\ Cardinality(top) \in Nat
      BY <2>3, FS_Subset, FS_CardinalityType
    <3> QED
      BY <1>1, <1>8, <2>3, <3>1
  <2> HIDE DEF some
  <2>5. PICK reached \in TopRows(open, limit, Score) : some \subseteq reached
    BY <1>1, <1>8, <2>4, TopRowsReach
  <2>6. Page(open, reached) \in Mem!MinePages(u, FALSE, limit, cursor)
    BY <1>6, <2>5 DEF open
  <2>7. page.rows \cap Shown("mine", u, FALSE) \subseteq Page(open, reached).rows
    BY <1>8, <2>2, <2>3, <2>5 DEF Page, some
  <2> QED
    BY <2>6, <2>7
<1> QED
  BY <1>7, <1>9 DEF SamePages

\* Either store shows the same polls in a list, and continues its pages alike
\* (the lists of store.go and memory.go).
THEOREM StoresListAlike ==
  ASSUME ~Faulty, TicksPerSecond = 1, IsFiniteSet(Polls) PROVE ParitySpec => []SameLists
<1>1. ASSUME ParityInv, ExpirySet, Quiet, diverged = {}, NEW u \in Users
      PROVE  /\ \A kind \in {"all", "public", "votes", "mine"} :
                  /\ \A closedToo \in BOOLEAN : SameSelection(kind, u, closedToo)
                  /\ \A limit \in Limits : SameCut(kind, u, limit)
             /\ \A limit \in Limits, cursor \in {NoCursor} \cup {Score[p] : p \in pollsIndex} :
                  SamePages(u, limit, cursor)
  <2>1. \A kind \in {"all", "public", "votes", "mine"}, closedToo \in BOOLEAN :
          SameSelection(kind, u, closedToo)
    BY <1>1, SelectAlike
  <2>2. \A kind \in {"all", "public", "votes", "mine"}, limit \in Limits : SameCut(kind, u, limit)
    BY <2>1, CutAlike
  <2>3. {Score[p] : p \in pollsIndex} \subseteq Nat
    BY <1>1, ScoresAreNat DEF ParityInv, IndInv, TypeOK, KeyspaceTypeOK
  <2>4. \A limit \in Limits, cursor \in Nat \cup {NoCursor} : SamePages(u, limit, cursor)
    BY <1>1, <2>1, PagesAlike
  <2> QED
    BY <2>1, <2>2, <2>3, <2>4
<1>2. ParityInv /\ ExpirySet => SameLists
  BY <1>1 DEF SameLists
<1>3. ParitySpec => []ExpirySet
  BY ParityRunsRedis, ExpiryAlways, PTL
<1> QED
  BY <1>2, <1>3, ParityInductive, PTL
=============================================================================
