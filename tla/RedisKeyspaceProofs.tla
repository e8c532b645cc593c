------------------------- MODULE RedisKeyspaceProofs -------------------------
(***************************************************************************)
(* The commands keep the keys well typed, whoever sends them, and what a   *)
(* page of a list holds: shared by the proofs about the store's requests   *)
(* and about its lists.                                                    *)
(***************************************************************************)
EXTENDS PollLists, TLAPS, FiniteSetTheorems, WellFoundedInduction

LEMMA MetaTypes ==
  /\ NoMeta \in Meta
  /\ \A m \in Meta : [m EXCEPT !.present = TRUE, !.isClosed = TRUE] \in Meta
<1>1. NoMeta \in Meta
  BY DEF NoMeta, Meta
<1>2. ASSUME NEW m \in Meta
      PROVE  [m EXCEPT !.present = TRUE, !.isClosed = TRUE] \in Meta
  BY DEF Meta
<1>3. QED
  BY <1>1, <1>2

\* Every command keeps the keys well typed.
LEMMA CommandTypes ==
  ASSUME KeyspaceTypeOK, NEW p \in Polls, NEW u \in Users, NEW k \in Keys \cup {NoKey},
         \/ \E o \in Options : VoteScript(p, u, o, k)
         \/ UndoScript(p, u, k)
         \/ SetClosed(p)
         \/ DelPoll(p)
         \/ SRemIndex(p)
         \/ SRemPublic(p)
         \/ ZRemCreated(p, u)
         \/ SetIdem(u, k)
         \/ UNCHANGED keyVars,
         now' = now
  PROVE  KeyspaceTypeOK'
<1> USE ClockAssumption, Sentinels DEF KeyspaceTypeOK
<1>1. IdemTicks \in Nat
  BY DEF IdemTicks
<1>2. MarkKey(u, k) => idem' \in [Users -> [Keys -> Nat]]
  BY <1>1 DEF MarkKey
<1>3. ASSUME NEW o \in Options, VoteScript(p, u, o, k)
      PROVE  KeyspaceTypeOK'
  <2>1. CASE ApplyVote(p, u, o, k)
    <3>1. votes' \in [Polls -> [Options -> Nat]]
      BY <2>1 DEF ApplyVote
    <3>2. QED
      BY <1>2, <2>1, <3>1 DEF ApplyVote, indexVars
  <2>2. CASE UNCHANGED keyVars
    BY <2>2 DEF keyVars, pollVars, indexVars
  <2>3. QED
    BY <1>3, <2>1, <2>2 DEF VoteScript
<1>4. CASE UndoScript(p, u, k)
  <2>1. CASE UndoResult(p, u, k) = "ok" /\ ApplyUndo(p, u, k)
    <3>1. userVotes[u][p] \in Options
      BY <2>1 DEF UndoResult, Gate
    <3>2. votes' \in [Polls -> [Options -> Nat]]
      BY <2>1, <3>1 DEF ApplyUndo, Decremented
    <3>3. QED
      BY <1>2, <2>1, <3>1, <3>2 DEF ApplyUndo, indexVars
  <2>2. CASE UNCHANGED keyVars
    BY <2>2 DEF keyVars, pollVars, indexVars
  <2>3. QED
    BY <1>4, <2>1, <2>2 DEF UndoScript
<1>5. CASE SetClosed(p)
  <2>1. [meta[p] EXCEPT !.present = TRUE, !.isClosed = TRUE] \in Meta
    BY MetaTypes
  <2>2. meta' \in [Polls -> Meta]
    BY <1>5, <2>1 DEF SetClosed
  <2>3. QED
    BY <1>5, <2>2 DEF SetClosed, indexVars
<1>6. CASE DelPoll(p)
  <2>1. NoVotes \in [Options -> Nat]
    BY DEF NoVotes
  <2>2. /\ meta' \in [Polls -> Meta]
        /\ votes' \in [Polls -> [Options -> Nat]]
    BY <1>6, <2>1, MetaTypes DEF DelPoll
  <2>3. QED
    BY <1>6, <2>2 DEF DelPoll, indexVars
<1>7. CASE SRemIndex(p)
  BY <1>7 DEF SRemIndex, pollVars
<1>8. CASE SRemPublic(p)
  BY <1>8 DEF SRemPublic, pollVars
<1>9. CASE ZRemCreated(p, u)
  BY <1>9 DEF ZRemCreated, pollVars
<1>10. CASE SetIdem(u, k)
  BY <1>2, <1>10 DEF SetIdem, pollVars, indexVars
<1>11. CASE UNCHANGED keyVars
  BY <1>11 DEF keyVars, pollVars, indexVars
<1>12. QED
  BY <1>3, <1>4, <1>5, <1>6, <1>7, <1>8, <1>9, <1>10, <1>11

\* An instant has a whole number of seconds.
LEMMA SecondsType == ASSUME NEW t \in Nat PROVE Seconds(t) \in Nat
BY ClockAssumption DEF ClockAssumption, Seconds

\* Creating a poll keeps the keys well typed.
LEMMA CreateTxTypes ==
  ASSUME KeyspaceTypeOK, NEW p \in Polls, NEW u \in Users, NEW opts \in SUBSET Options,
         NEW e \in Nat, NEW public \in BOOLEAN, CreateTx(p, u, opts, e, public), now' = now
  PROVE  KeyspaceTypeOK'
<1> USE DEF KeyspaceTypeOK
<1>1. [present |-> TRUE, createdBy |-> u, isClosed |-> FALSE,
       expiresAt |-> Seconds(e), isPublic |-> public] \in Meta
  BY SecondsType DEF Meta
<1>2. /\ meta' \in [Polls -> Meta] /\ options' \in [Polls -> SUBSET Options]
      /\ voteFields' \in [Polls -> SUBSET Options] /\ voters' \in [Polls -> SUBSET Users]
  BY <1>1 DEF CreateTx
<1>3. votes' \in [Polls -> [Options -> Nat]]
  BY DEF CreateTx
<1> QED
  BY <1>2, <1>3 DEF CreateTx

-----------------------------------------------------------------------------
(* Pages *)

\* Numbers are compared with cursors as expected; no score is NoCursor.
LEMMA Cursors == NoCursor \notin Nat
BY DEF NoCursor

\* The size of a page: the limit, or all there is.
LEMMA SmallerIs ==
  ASSUME NEW m \in Nat, NEW n \in Nat
  PROVE  Min({m, n}) \in {m, n} /\ Min({m, n}) <= m /\ Min({m, n}) <= n
<1>1. \E x \in {m, n} : \A y \in {m, n} : x =< y
  OBVIOUS
<1>2. Min({m, n}) \in {m, n} /\ \A y \in {m, n} : Min({m, n}) =< y
  BY <1>1 DEF Min
<1> QED
  BY <1>2

\* A page takes the highest scores, and all there is when that fits.
LEMMA TopRowsAre ==
  ASSUME NEW ids, IsFiniteSet(ids), NEW limit \in Nat \ {0}, NEW sc,
         NEW top \in TopRows(ids, limit, sc)
  PROVE  /\ top \subseteq ids /\ IsFiniteSet(top)
         /\ \A p \in top, q \in ids \ top : sc[p] >= sc[q]
         /\ Cardinality(top) <= limit
         /\ Cardinality(ids) > limit => top # {}
         /\ ~(Cardinality(ids) > limit) => top = ids
<1>1. Cardinality(ids) \in Nat
  BY FS_CardinalityType
<1>2. /\ Min({limit, Cardinality(ids)}) \in {limit, Cardinality(ids)}
      /\ Min({limit, Cardinality(ids)}) <= limit
      /\ Min({limit, Cardinality(ids)}) <= Cardinality(ids)
  BY <1>1, SmallerIs
<1>3. /\ top \subseteq ids /\ Cardinality(top) = Min({limit, Cardinality(ids)})
      /\ \A p \in top, q \in ids \ top : sc[p] >= sc[q]
  BY DEF TopRows, kSubset
<1>4. IsFiniteSet(top)
  BY <1>3, FS_Subset
<1>5. Cardinality(ids) > limit => top # {}
  BY <1>1, <1>2, <1>3, FS_EmptySet
<1>6. ~(Cardinality(ids) > limit) => Cardinality(top) = Cardinality(ids)
  BY <1>1, <1>2, <1>3
<1> QED
  BY <1>1, <1>2, <1>3, <1>4, <1>5, <1>6, FS_Subset

\* A list that is not cut shows everything.
LEMMA AnyRowsAre ==
  ASSUME NEW ids, IsFiniteSet(ids), NEW limit \in Nat \ {0}, NEW some \in AnyRows(ids, limit)
  PROVE  /\ some \subseteq ids /\ Cardinality(some) <= limit
         /\ Cardinality(some) < limit => some = ids
<1>1. Cardinality(ids) \in Nat
  BY FS_CardinalityType
<1>2. /\ Min({limit, Cardinality(ids)}) \in {limit, Cardinality(ids)}
      /\ Min({limit, Cardinality(ids)}) <= limit
  BY <1>1, SmallerIs
<1>3. some \subseteq ids /\ Cardinality(some) = Min({limit, Cardinality(ids)})
  BY DEF AnyRows, kSubset
<1>4. Cardinality(some) < limit => Cardinality(some) = Cardinality(ids)
  BY <1>1, <1>2, <1>3
<1> QED
  BY <1>2, <1>3, <1>4, FS_Subset

\* Of natural numbers there is a lowest one.
LEMMA LowestIs ==
  ASSUME NEW S, S \subseteq Nat, S # {}
  PROVE  Lowest(S) \in S /\ \A n \in S : Lowest(S) <= n
<1> DEFINE R == {p \in Nat \X Nat : p[1] < p[2]}
<1>1. OpToRel(<, Nat) = R
  BY DEF OpToRel
<1>2. IsWellFoundedOn(R, Nat)
  BY <1>1, NatLessThanWellFounded
<1>3. PICK m \in S : \A n \in S : <<n, m>> \notin R
  BY <1>2, WFMin
<1>4. ASSUME NEW n \in S PROVE m <= n
  <2>1. m \in Nat /\ n \in Nat /\ ~(n < m)
    BY <1>3
  <2> QED
    BY <2>1
<1> QED
  BY <1>4 DEF Lowest, Min

\* Of finitely many rows one has the highest score.
LEMMA HighestRow ==
  ASSUME NEW ids, IsFiniteSet(ids), ids # {}, NEW sc, \A p \in ids : sc[p] \in Nat
  PROVE  \E p \in ids : \A q \in ids : sc[p] >= sc[q]
<1> DEFINE Above(p) == {q \in ids : sc[q] > sc[p]}
           Sizes == {Cardinality(Above(p)) : p \in ids}
<1>1. \A p \in ids : IsFiniteSet(Above(p)) /\ Cardinality(Above(p)) \in Nat
  BY FS_Subset, FS_CardinalityType
<1>2. Sizes \subseteq Nat /\ Sizes # {}
  BY <1>1
<1>3. Lowest(Sizes) \in Sizes /\ \A n \in Sizes : Lowest(Sizes) <= n
  BY <1>2, LowestIs
<1>4. PICK p \in ids : \A q \in ids : Cardinality(Above(p)) <= Cardinality(Above(q))
  BY <1>3
<1>5. ASSUME NEW q \in ids, ~(sc[p] >= sc[q]) PROVE FALSE
  <2>1. q \in Above(p) /\ q \notin Above(q) /\ Above(q) \subseteq Above(p)
    BY <1>5
  <2>2. Cardinality(Above(q)) <= Cardinality(Above(p)) /\ Cardinality(Above(q)) # Cardinality(Above(p))
    BY <1>1, <2>1, FS_Subset
  <2>3. Cardinality(Above(p)) <= Cardinality(Above(q))
    BY <1>4, <1>5
  <2> HIDE DEF Above
  <2> QED
    BY <1>1, <1>5, <2>2, <2>3
<1> QED
  BY <1>5

\* Rows above all others are on one of the pages.
LEMMA TopRowsReach ==
  ASSUME NEW ids, IsFiniteSet(ids), NEW limit \in Nat, NEW sc, \A p \in ids : sc[p] \in Nat,
         NEW some, some \subseteq ids, Cardinality(some) <= limit,
         \A p \in some, q \in ids \ some : sc[p] >= sc[q]
  PROVE  \E top \in TopRows(ids, limit, sc) : some \subseteq top
<1> DEFINE size == Min({limit, Cardinality(ids)})
           Fits(t) == /\ some \subseteq t /\ t \subseteq ids /\ Cardinality(t) <= size
                      /\ \A p \in t, q \in ids \ t : sc[p] >= sc[q]
           Missing == {size - Cardinality(t) : t \in {t \in SUBSET ids : Fits(t)}}
<1>1. /\ Cardinality(ids) \in Nat /\ size \in Nat /\ size <= Cardinality(ids)
      /\ \A t \in SUBSET ids : IsFiniteSet(t) /\ Cardinality(t) \in Nat
      /\ Cardinality(some) <= size
  <2>1. \A t \in SUBSET ids : IsFiniteSet(t) /\ Cardinality(t) \in Nat
                              /\ Cardinality(t) <= Cardinality(ids)
    BY FS_Subset, FS_CardinalityType
  <2>2. Cardinality(ids) \in Nat
    BY FS_CardinalityType
  <2>3. size \in {limit, Cardinality(ids)} /\ size <= limit /\ size <= Cardinality(ids)
    BY <2>2, SmallerIs
  <2> QED
    BY <2>1, <2>2, <2>3
<1> HIDE DEF size
<1>2. Missing \subseteq Nat /\ Missing # {}
  BY <1>1
<1>3. Lowest(Missing) \in Missing /\ \A n \in Missing : Lowest(Missing) <= n
  BY <1>2, LowestIs
<1>4. PICK t \in SUBSET ids : Fits(t) /\ Lowest(Missing) = size - Cardinality(t)
  BY <1>3
<1>5. CASE Cardinality(t) = size
  BY <1>4, <1>5 DEF TopRows, kSubset, size
<1>6. CASE Cardinality(t) # size
  <2>1. ids \ t # {} /\ IsFiniteSet(ids \ t)
    BY <1>1, <1>4, <1>6, FS_Subset
  <2>2. PICK x \in ids \ t : \A q \in ids \ t : sc[x] >= sc[q]
    BY <2>1, HighestRow
  <2>3. Cardinality(t \cup {x}) = Cardinality(t) + 1
    BY <1>1, <2>2, FS_AddElement
  <2>4. Fits(t \cup {x}) /\ t \cup {x} \in SUBSET ids
    BY <1>1, <1>4, <1>6, <2>2, <2>3
  <2>5. size - (Cardinality(t) + 1) \in Missing
    BY <2>3, <2>4
  <2> HIDE DEF Missing
  <2> QED
    BY <1>1, <1>3, <1>4, <2>5
<1> QED
  BY <1>5, <1>6
=============================================================================
