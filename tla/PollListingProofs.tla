--------------------------- MODULE PollListingProofs ---------------------------
(***************************************************************************)
(* What the lists promise, for any number of users and polls, any limits,  *)
(* and any commands of writers between those of a query.                   *)
(*                                                                         *)
(* A walk never meets a poll twice because a page lies strictly below the  *)
(* cursor it was asked with; it misses nothing because whatever is left    *)
(* out of a page scores strictly less than the page's last row, which is   *)
(* where two equal scores would break it.                                  *)
(***************************************************************************)
EXTENDS PollListing, RedisKeyspaceProofs

-----------------------------------------------------------------------------
(* Pages *)

\* A page of created_polls lies below the cursor, and what it leaves out comes
\* after its last row, where the next page starts.
LEMMA RangeIs ==
  ASSUME NEW u, NEW created, created = createdPolls[u], IsFiniteSet(created),
         NEW sc, \A p \in created : sc[p] \in Nat,
         NEW limit \in Nat \ {0}, NEW from \in Nat \cup {NoCursor},
         NEW page \in RangePages(u, limit, from, sc)
  PROVE  /\ page.rows \subseteq created /\ Cardinality(page.rows) <= limit
         /\ \A p \in page.rows : Below(sc[p], from)
         /\ page.next \in Nat \cup {NoCursor}
         /\ page.next # NoCursor => /\ Below(page.next, from)
                                    /\ \A p \in page.rows : sc[p] >= page.next
         /\ \A q \in created \ page.rows : Below(sc[q], from) =>
              page.next # NoCursor /\ \E p \in page.rows : sc[p] = page.next /\ sc[q] <= sc[p]
<1> DEFINE ids == {p \in created : Below(sc[p], from)}
           shown(top) == {sc[p] : p \in top}
<1>1. IsFiniteSet(ids)
  BY FS_Subset
<1>2. PICK top \in TopRows(ids, limit, sc) :
        /\ page.rows = top
        /\ page.next = IF Cardinality(ids) > limit THEN Lowest(shown(top)) ELSE NoCursor
  <2>1. PICK top \in TopRows(ids, limit, sc) :
          page = [rows |-> top,
                  next |-> IF Cardinality(ids) > limit
                           THEN CursorOf(shown(top), shown(ids \ top)) ELSE NoCursor]
    BY DEF RangePages
  <2> QED
    BY <2>1 DEF CursorOf
<1>3. /\ top \subseteq ids
      /\ \A p \in top, q \in ids \ top : sc[p] >= sc[q]
      /\ Cardinality(top) <= limit
      /\ Cardinality(ids) > limit => top # {}
      /\ ~(Cardinality(ids) > limit) => top = ids
  BY <1>1, TopRowsAre
<1>4. shown(top) \subseteq Nat
  BY <1>3
<1>5. CASE ~(Cardinality(ids) > limit)
  BY <1>2, <1>3, <1>5
<1>6. CASE Cardinality(ids) > limit
  <2>1. shown(top) # {}
    BY <1>3, <1>6
  <2>2. Lowest(shown(top)) \in shown(top) /\ \A n \in shown(top) : Lowest(shown(top)) <= n
    BY <1>4, <2>1, LowestIs
  <2>3. PICK p \in top : page.next = sc[p]
    BY <1>2, <1>6, <2>2
  <2>4. page.next \in Nat /\ page.next # NoCursor /\ Below(page.next, from)
    BY <1>3, <2>3, Cursors
  <2>5. \A r \in page.rows : sc[r] >= page.next
    BY <1>2, <1>3, <1>6, <2>2
  <2>6. ASSUME NEW q \in created \ page.rows, Below(sc[q], from)
        PROVE  sc[q] <= sc[p]
    <3>1. sc[p] >= sc[q] /\ sc[p] \in Nat /\ sc[q] \in Nat
      BY <1>2, <1>3, <2>6
    <3> QED
      BY <3>1
  <2> QED
    BY <1>2, <1>3, <2>3, <2>4, <2>5, <2>6
<1> QED
  BY <1>5, <1>6

-----------------------------------------------------------------------------
(* The query between its commands *)

\* A query that is running has a kind and a limit.
LEMMA QueryIs ==
  ASSUME TypeOK
  PROVE  /\ query = NoQuery => query.kind = "none"
         /\ query # NoQuery => /\ query.kind \in Kinds /\ query.limit \in Limits
                               /\ query.closedToo \in BOOLEAN
                               /\ query.kind \in {"mine", "all", "public", "votes"}
                               /\ query.limit \in Nat \ {0}
<1>1. query = NoQuery => query.kind = "none"
  BY DEF NoQuery
<1>2. ASSUME query # NoQuery
      PROVE  query.kind \in Kinds /\ query.limit \in Limits /\ query.closedToo \in BOOLEAN
  <2>1. query \in [kind: Kinds, closedToo: BOOLEAN, limit: Limits]
    BY <1>2 DEF TypeOK
  <2> QED
    BY <2>1
<1>3. Kinds \subseteq {"mine", "all", "public", "votes"} /\ Limits \subseteq Nat \ {0}
  BY ListingAssumption DEF ListingAssumption
<1> QED
  BY <1>1, <1>2, <1>3

\* Every list reads ids that were drawn, and finitely many.
LEMMA SourceDrawn ==
  ASSUME TypeOK, OnlyDrawn, NEW kind \in {"mine", "all", "public", "votes"}
  PROVE  Source(kind, Me) \subseteq usedIds /\ IsFiniteSet(Source(kind, Me))
<1>1. Me \in Users
  BY ListingAssumption DEF ListingAssumption
<1>2. Source(kind, Me) \subseteq usedIds
  <2>1. CASE kind = "mine"
    BY <1>1, <2>1 DEF Source, OnlyDrawn
  <2>2. CASE kind = "all"
    BY <2>2 DEF Source, OnlyDrawn
  <2>3. CASE kind = "public"
    BY <2>3 DEF Source, OnlyDrawn
  <2>4. CASE kind = "votes"
    BY <1>1, <2>4 DEF Source, OnlyDrawn
  <2> QED
    BY <2>1, <2>2, <2>3, <2>4
<1> QED
  BY <1>2, FS_Subset DEF OnlyDrawn

LEMMA MatchingDrawn ==
  ASSUME TypeOK, OnlyDrawn, QueryState
  PROVE  /\ matching \subseteq usedIds
         /\ query # NoQuery => matching \subseteq Source(query.kind, Me)
         /\ \A p \in matching : Kept(query, p)
<1>1. CASE query = NoQuery
  BY <1>1 DEF QueryState, Matches
<1>2. CASE query # NoQuery
  BY <1>2, QueryIs, SourceDrawn DEF QueryState, Matches
<1> QED
  BY <1>1, <1>2

\* What the user's own list shows is live.
LEMMA MineIsLive ==
  ASSUME TypeOK, NEW p \in Polls, query.kind = "mine", Kept(query, p)
  PROVE  p \in LivePolls
<1>1. Me \in Users /\ NoUser \notin Users
  BY ListingAssumption, Sentinels DEF ListingAssumption
<1> QED
  BY <1>1 DEF Kept, Shows, LivePolls, Live

LEMMA ListingStart == Init => ListingInv
<1> SUFFICES ASSUME Init PROVE ListingInv
  OBVIOUS
<1>1. KeyspaceTypeOK
  <2>1. NoVotes \in [Options -> Nat]
    BY DEF NoVotes
  <2>2. meta \in [Polls -> Meta] /\ votes \in [Polls -> [Options -> Nat]]
    BY <2>1, MetaTypes DEF Init, KeyspaceInit
  <2> QED
    BY <2>2 DEF Init, KeyspaceInit, KeyspaceTypeOK
<1>2. TypeOK
  BY <1>1 DEF Init, TypeOK
<1>3. OnlyDrawn
  BY FS_EmptySet DEF Init, KeyspaceInit, OnlyDrawn, NoMeta
<1>4. ScoresApart
  BY DEF Init, KeyspaceInit, ScoresApart
<1>5. query.kind # "mine"
  BY DEF Init, NoQuery
<1> QED
  BY <1>2, <1>3, <1>4, <1>5
  DEF Init, ListingInv, QueryState, PagesInOrder, NothingSkipped, MineWereLive

-----------------------------------------------------------------------------
(* The commands of writers *)

\* A writer may take polls out of what matches, but changes no score of a poll
\* that the query can have met.
LEMMA WriterKeeps ==
  ASSUME ListingInv, Witness, KeyspaceTypeOK', score' \in [Polls -> Nat],
         usedIds \subseteq usedIds', usedIds' \subseteq Polls,
         \A p \in usedIds : score'[p] = score[p], OnlyDrawn', ScoresApart'
  PROVE  ListingInv'
<1> USE DEF Witness, queryVars
<1>1. /\ step' = step /\ query' = query /\ cursor' = cursor /\ rows' = rows
      /\ items' = items /\ next' = next /\ earlier' = earlier
      /\ matching' \subseteq matching /\ matching' \subseteq Matches(query)'
  OBVIOUS
<1>2. everLive' \subseteq Polls
  BY DEF ListingInv, TypeOK, LivePolls
<1>3. TypeOK'
  BY <1>1, <1>2 DEF ListingInv, TypeOK
<1>4. QueryState'
  <2>1. query' # NoQuery => LivePolls' \subseteq everLive'
    BY <1>1
  <2>2. matching' \subseteq Matches(query)'
    BY <1>1
  <2> QED
    BY <1>1, <2>1, <2>2 DEF ListingInv, QueryState
<1>5. PagesInOrder'
  BY <1>1 DEF ListingInv, QueryState, PagesInOrder, Below
<1>6. NothingSkipped'
  <2>1. \A p \in matching' : score'[p] = score[p]
    BY <1>1, MatchingDrawn DEF ListingInv
  <2> QED
    BY <1>1, <2>1 DEF ListingInv, NothingSkipped, Below
<1>7. MineWereLive'
  <2>1. query.kind = "mine" => everLive \subseteq everLive'
    BY QueryIs DEF ListingInv
  <2> QED
    BY <1>1, <2>1 DEF ListingInv, MineWereLive
<1> QED
  BY <1>3, <1>4, <1>5, <1>6, <1>7 DEF ListingInv

\* Commands that create no poll.
LEMMA CommandKeeps ==
  ASSUME ListingInv, Witness, KeyspaceTypeOK', score' = score, usedIds' = usedIds,
         OnlyDrawn', \A u \in Users : createdPolls'[u] \subseteq createdPolls[u]
  PROVE  ListingInv'
<1>1. ScoresApart'
  BY DEF ListingInv, ScoresApart
<1> QED
  BY <1>1, WriterKeeps DEF ListingInv, TypeOK

LEMMA CastKeeps ==
  ASSUME ListingInv, NEW p \in Polls, NEW o \in Options, CastMine(p, o)
  PROVE  ListingInv'
<1>1. /\ VoteScript(p, Me, o, NoKey) /\ now' = now /\ score' = score
      /\ usedIds' = usedIds /\ Witness /\ Me \in Users
  BY ListingAssumption DEF CastMine, ListingAssumption
<1>2. KeyspaceTypeOK'
  BY <1>1, CommandTypes DEF ListingInv, TypeOK
<1>3. createdPolls' = createdPolls /\ OnlyDrawn'
  <2>1. CASE VoteResult(p, Me, o, NoKey) = "ok" /\ ApplyVote(p, Me, o, NoKey)
    <3>1. meta[p].present
      BY <2>1 DEF VoteResult, Gate, IdemSeen
    <3>2. p \in usedIds
      BY <3>1 DEF ListingInv, OnlyDrawn
    <3> QED
      BY <1>1, <2>1, <3>2 DEF ApplyVote, indexVars, ListingInv, OnlyDrawn, TypeOK,
                              KeyspaceTypeOK
  <2>2. CASE UNCHANGED keyVars
    BY <1>1, <2>2 DEF keyVars, pollVars, indexVars, ListingInv, OnlyDrawn
  <2> QED
    BY <1>1, <2>1, <2>2 DEF VoteScript
<1> QED
  BY <1>1, <1>2, <1>3, CommandKeeps

LEMMA UndoKeeps == ASSUME ListingInv, NEW p \in Polls, UndoMine(p) PROVE ListingInv'
<1>1. /\ UndoScript(p, Me, NoKey) /\ now' = now /\ score' = score
      /\ usedIds' = usedIds /\ Witness /\ Me \in Users
  BY ListingAssumption DEF UndoMine, ListingAssumption
<1>2. KeyspaceTypeOK'
  BY <1>1, CommandTypes DEF ListingInv, TypeOK
<1>3. createdPolls' = createdPolls /\ OnlyDrawn'
  <2>1. CASE ApplyUndo(p, Me, NoKey)
    BY <1>1, <2>1 DEF ApplyUndo, indexVars, ListingInv, OnlyDrawn, TypeOK, KeyspaceTypeOK
  <2>2. CASE UNCHANGED keyVars
    BY <1>1, <2>2 DEF keyVars, pollVars, indexVars, ListingInv, OnlyDrawn
  <2> QED
    BY <1>1, <2>1, <2>2 DEF UndoScript
<1> QED
  BY <1>1, <1>2, <1>3, CommandKeeps

LEMMA CloseKeeps == ASSUME ListingInv, NEW p \in Polls, Close(p) PROVE ListingInv'
<1>1. /\ SetClosed(p) /\ p \in usedIds /\ now' = now /\ score' = score
      /\ usedIds' = usedIds /\ Witness /\ Me \in Users
  BY ListingAssumption DEF Close, ListingAssumption
<1>2. KeyspaceTypeOK'
  BY <1>1, CommandTypes DEF ListingInv, TypeOK
<1>3. createdPolls' = createdPolls /\ OnlyDrawn'
  BY <1>1 DEF SetClosed, indexVars, ListingInv, OnlyDrawn, TypeOK, KeyspaceTypeOK
<1> QED
  BY <1>1, <1>2, <1>3, CommandKeeps

LEMMA DeleteKeeps == ASSUME ListingInv, NEW p \in Polls, Delete(p) PROVE ListingInv'
<1>1. /\ DelPoll(p) /\ now' = now /\ score' = score
      /\ usedIds' = usedIds /\ Witness /\ Me \in Users
  BY ListingAssumption DEF Delete, ListingAssumption
<1>2. KeyspaceTypeOK'
  BY <1>1, CommandTypes DEF ListingInv, TypeOK
<1>3. createdPolls' = createdPolls /\ OnlyDrawn'
  BY <1>1 DEF DelPoll, NoMeta, indexVars, ListingInv, OnlyDrawn, TypeOK, KeyspaceTypeOK
<1> QED
  BY <1>1, <1>2, <1>3, CommandKeeps

LEMMA DropKeeps ==
  ASSUME ListingInv, NEW p \in Polls, NEW u \in Users, DropFromLists(p, u)
  PROVE  ListingInv'
<1>1. /\ SRemIndex(p) \/ SRemPublic(p) \/ ZRemCreated(p, u)
      /\ now' = now /\ score' = score /\ usedIds' = usedIds /\ Witness
  BY DEF DropFromLists
<1>2. KeyspaceTypeOK'
  BY <1>1, CommandTypes DEF ListingInv, TypeOK
<1>3. meta' = meta /\ userVotes' = userVotes
  BY <1>1 DEF SRemIndex, SRemPublic, ZRemCreated, pollVars
<1>4. /\ pollsIndex' \subseteq pollsIndex /\ publicIndex' \subseteq publicIndex
      /\ \A v \in Users : createdPolls'[v] \subseteq createdPolls[v]
  BY <1>1 DEF SRemIndex, SRemPublic, ZRemCreated, ListingInv, TypeOK, KeyspaceTypeOK
<1>5. OnlyDrawn'
  BY <1>1, <1>3, <1>4 DEF ListingInv, OnlyDrawn
<1> QED
  BY <1>1, <1>2, <1>4, <1>5, CommandKeeps

LEMMA TickKeeps == ASSUME ListingInv, Tick PROVE ListingInv'
<1>1. /\ UNCHANGED keyVars /\ now' = now + 1 /\ score' = score
      /\ usedIds' = usedIds /\ Witness
  BY DEF Tick
<1>2. KeyspaceTypeOK' /\ createdPolls' = createdPolls /\ OnlyDrawn'
  BY <1>1 DEF keyVars, pollVars, indexVars, ListingInv, OnlyDrawn, TypeOK, KeyspaceTypeOK
<1> QED
  BY <1>1, <1>2, CommandKeeps

\* A new poll gets a score that no poll of its creator has.
LEMMA CreateKeeps ==
  ASSUME ListingInv, NEW p \in Polls, NEW u \in Users, NEW opts \in OptionLists,
         NEW e \in ExpiryTicks, NEW public \in Visibility, Create(p, u, opts, e, public)
  PROVE  ListingInv'
<1> USE DEF ListingInv
<1>1. opts \in SUBSET Options /\ e \in Nat /\ public \in BOOLEAN /\ Fractions \in Nat
  BY ListingAssumption DEF ListingAssumption
<1>2. /\ p \notin usedIds /\ CreateTx(p, u, opts, e, public)
      /\ usedIds' = usedIds \cup {p} /\ now' = now /\ Witness
  BY DEF Create
<1>3. PICK f \in 0 .. Fractions - 1 :
        /\ ScoresDiffer => \A q \in createdPolls[u] : score[q] # Seconds(now) * Fractions + f
        /\ score' = [score EXCEPT ![p] = Seconds(now) * Fractions + f]
  BY DEF Create
<1> DEFINE s == Seconds(now) * Fractions + f
<1>4. s \in Nat
  <2>1. Seconds(now) \in Nat
    BY SecondsType DEF TypeOK, KeyspaceTypeOK
  <2>2. Seconds(now) * Fractions \in Nat
    BY <1>1, <2>1
  <2> HIDE DEF Seconds
  <2>3. f \in Nat
    BY <1>1
  <2> QED
    BY <2>2, <2>3
<1> HIDE DEF s
<1>5. KeyspaceTypeOK'
  BY <1>1, <1>2, CreateTxTypes DEF TypeOK
<1>6. /\ score' \in [Polls -> Nat] /\ score'[p] = s
      /\ \A q \in usedIds : score'[q] = score[q]
  BY <1>2, <1>3, <1>4 DEF TypeOK, s
<1>7. OnlyDrawn'
  <2>1. IsFiniteSet(usedIds')
    BY <1>2, FS_AddElement DEF OnlyDrawn
  <2>2. \A q \in Polls \ usedIds' : meta'[q] = meta[q]
    BY <1>2 DEF CreateTx, TypeOK, KeyspaceTypeOK
  <2>3. userVotes' = userVotes
    BY <1>2 DEF CreateTx
  <2>4. /\ pollsIndex' \cup publicIndex' \subseteq usedIds'
        /\ \A v \in Users : createdPolls'[v] \subseteq usedIds'
    BY <1>2 DEF CreateTx, OnlyDrawn, TypeOK, KeyspaceTypeOK
  <2> QED
    BY <1>2, <2>1, <2>2, <2>3, <2>4 DEF OnlyDrawn
<1>8. ScoresApart'
  <2> SUFFICES ASSUME ScoresDiffer, NEW v \in Users, NEW q \in createdPolls'[v],
                      NEW r \in createdPolls'[v], q # r
               PROVE  score'[q] # score'[r]
    BY DEF ScoresApart
  <2>1. \A w \in Users : createdPolls[w] \subseteq usedIds
    BY DEF OnlyDrawn
  <2>2. createdPolls'[v] = createdPolls[v] \/ (v = u /\ createdPolls'[v] = createdPolls[v] \cup {p})
    BY <1>2 DEF CreateTx, TypeOK, KeyspaceTypeOK
  <2>3. CASE q \in createdPolls[v] /\ r \in createdPolls[v]
    BY <1>6, <2>1, <2>3 DEF ScoresApart
  <2>4. CASE ~(q \in createdPolls[v] /\ r \in createdPolls[v])
    <3>1. v = u /\ (q = p \/ r = p)
      BY <2>2, <2>4
    <3>2. \A w \in createdPolls[u] : score'[w] # s
      BY <1>3, <1>6, <2>1 DEF s
    <3> QED
      BY <1>6, <2>2, <3>1, <3>2
  <2> QED
    BY <2>3, <2>4
<1> QED
  BY <1>2, <1>5, <1>6, <1>7, <1>8, WriterKeeps DEF TypeOK

-----------------------------------------------------------------------------
(* The steps of the query *)

\* A query that does not write leaves what the writers keep as it was.
LEMMA QueryStepKeeps ==
  ASSUME ListingInv, UNCHANGED <<keyVars, now, score, usedIds>>
  PROVE  /\ KeyspaceTypeOK' /\ OnlyDrawn' /\ ScoresApart'
         /\ score' \in [Polls -> Nat] /\ usedIds' \subseteq Polls
         /\ LivePolls' = LivePolls
<1> USE DEF keyVars, pollVars, indexVars, ListingInv
<1>1. KeyspaceTypeOK'
  BY DEF TypeOK, KeyspaceTypeOK
<1>2. OnlyDrawn'
  BY DEF OnlyDrawn
<1>3. ScoresApart'
  BY DEF ScoresApart
<1>4. LivePolls' = LivePolls
  BY DEF LivePolls, Live
<1> QED
  BY <1>1, <1>2, <1>3, <1>4 DEF TypeOK

\* What matches depends on the query and on what writers write.
LEMMA MatchesKept ==
  ASSUME UNCHANGED <<keyVars, now>>, query' = query
  PROVE  Matches(query)' = Matches(query)
BY DEF keyVars, pollVars, indexVars, Matches, Source, Live, Kept, Shows, ReadsClosed

LEMMA AskKeeps ==
  ASSUME ListingInv, NEW kind \in Kinds, NEW closedToo \in BOOLEAN, NEW limit \in Limits,
         Ask(kind, closedToo, limit)
  PROVE  ListingInv'
<1> USE DEF ListingInv
<1>1. /\ UNCHANGED <<keyVars, now, score, usedIds>>
      /\ step = "idle" /\ step' = "index"
      /\ query' = [kind |-> kind, closedToo |-> closedToo, limit |-> limit]
      /\ matching' = Matches(query') /\ everLive' = LivePolls
      /\ cursor' = cursor /\ rows' = rows /\ items' = items /\ next' = next
      /\ earlier' = earlier
  BY DEF Ask
<1>2. /\ KeyspaceTypeOK' /\ OnlyDrawn' /\ ScoresApart'
      /\ score' \in [Polls -> Nat] /\ usedIds' \subseteq Polls /\ LivePolls' = LivePolls
  BY <1>1, QueryStepKeeps
<1>3. /\ cursor' = NoCursor /\ next' = NoCursor /\ rows' = {} /\ items' = {} /\ earlier' = {}
  BY <1>1 DEF QueryState
<1>4. query' # NoQuery /\ query'.kind = kind /\ query'.limit = limit
  <2>1. kind # "none"
    BY ListingAssumption DEF ListingAssumption
  <2> QED
    BY <1>1, <2>1 DEF NoQuery
<1>5. matching' = Matches(query)'
  <2>1. Matches(query') = Matches(query)'
    BY <1>1 DEF keyVars, pollVars, indexVars, Matches, Source, Live, Kept, Shows, ReadsClosed
  <2> QED
    BY <1>1, <2>1
<1>6. matching' \subseteq Polls /\ everLive' \subseteq Polls
  <2>1. Source(kind, Me) \subseteq Polls
    <3>1. kind \in {"mine", "all", "public", "votes"}
      BY ListingAssumption DEF ListingAssumption
    <3> QED
      BY <3>1, SourceDrawn DEF TypeOK
  <2>2. matching' \subseteq Source(kind, Me)
    BY <1>1, <1>4 DEF Matches
  <2> QED
    BY <1>1, <2>1, <2>2 DEF LivePolls
<1>7. TypeOK'
  BY <1>1, <1>2, <1>3, <1>6 DEF TypeOK
<1>8. QueryState'
  BY <1>1, <1>2, <1>3, <1>4, <1>5 DEF QueryState
<1>9. PagesInOrder'
  <2>1. limit \in Nat
    BY ListingAssumption DEF ListingAssumption
  <2>2. Cardinality({}) = 0
    BY FS_EmptySet
  <2>3. Cardinality(rows' \cup items') <= query'.limit
    BY <1>3, <1>4, <2>1, <2>2
  <2> QED
    BY <1>3, <2>3 DEF PagesInOrder
<1>10. NothingSkipped'
  BY <1>1, <1>3 DEF NothingSkipped, Below
<1> QED
  BY <1>2, <1>3, <1>7, <1>8, <1>9, <1>10 DEF MineWereLive

LEMMA StopKeeps == ASSUME ListingInv, Stop PROVE ListingInv'
<1> USE DEF ListingInv
<1>1. /\ UNCHANGED <<keyVars, now, score, usedIds>>
      /\ step' = "idle" /\ query' = NoQuery
      /\ cursor' = NoCursor /\ next' = NoCursor
      /\ rows' = {} /\ items' = {}
      /\ earlier' = {} /\ matching' = {} /\ everLive' = {}
  BY DEF Stop
<1>2. /\ KeyspaceTypeOK' /\ OnlyDrawn' /\ ScoresApart'
      /\ score' \in [Polls -> Nat] /\ usedIds' \subseteq Polls
  BY <1>1, QueryStepKeeps
<1>3. query'.kind = "none"
  BY <1>1 DEF NoQuery
<1>4. TypeOK'
  BY <1>1, <1>2 DEF TypeOK
<1>5. QueryState'
  BY <1>1 DEF QueryState
<1> QED
  BY <1>1, <1>2, <1>3, <1>4, <1>5 DEF PagesInOrder, NothingSkipped, MineWereLive

\* A page is read below the cursor; what it leaves out scores less than its
\* last row, because no two scores are equal.
LEMMA ReadRangeKeeps == ASSUME ListingInv, ReadRange PROVE ListingInv'
<1> USE DEF ListingInv
<1>1. /\ UNCHANGED <<keyVars, now, score, usedIds>>
      /\ step = "index" /\ step' = "rows" /\ query.kind = "mine"
      /\ query' = query /\ cursor' = cursor /\ items' = items
      /\ earlier' = earlier /\ matching' = matching /\ everLive' = everLive
  BY DEF ReadRange, ghosts
<1>2. PICK page \in RangePages(Me, query.limit, cursor, score) :
        rows' = page.rows /\ next' = page.next
  BY DEF ReadRange
<1>3. /\ KeyspaceTypeOK' /\ OnlyDrawn' /\ ScoresApart'
      /\ score' \in [Polls -> Nat] /\ usedIds' \subseteq Polls /\ LivePolls' = LivePolls
      /\ Matches(query)' = Matches(query)
  BY <1>1, QueryStepKeeps, MatchesKept
<1>4. /\ rows = {} /\ items = {} /\ next = NoCursor /\ query # NoQuery
      /\ query.limit \in Nat \ {0} /\ cursor \in Nat \cup {NoCursor}
  BY <1>1, QueryIs DEF QueryState, TypeOK
<1> DEFINE created == createdPolls[Me]
<1>5. created \subseteq usedIds /\ IsFiniteSet(created) /\ Me \in Users
  BY SourceDrawn, ListingAssumption DEF Source, ListingAssumption
<1>6. /\ score \in [Polls -> Nat] /\ usedIds \subseteq Polls
      /\ \A p \in created : score[p] \in Nat
  BY <1>5 DEF TypeOK
<1>7. /\ rows' \subseteq created /\ Cardinality(rows') <= query.limit
      /\ \A p \in rows' : Below(score[p], cursor)
      /\ next' \in Nat \cup {NoCursor}
      /\ next' # NoCursor => /\ Below(next', cursor)
                             /\ \A p \in rows' : score[p] >= next'
      /\ \A q \in created \ rows' : Below(score[q], cursor) =>
           next' # NoCursor /\ \E p \in rows' : score[p] = next' /\ score[q] <= score[p]
  BY <1>2, <1>4, <1>5, <1>6, RangeIs
<1>8. TypeOK'
  BY <1>1, <1>3, <1>5, <1>6, <1>7 DEF TypeOK
<1>9. QueryState'
  BY <1>1, <1>3, <1>4, <1>5, <1>7 DEF QueryState
<1>10. PagesInOrder'
  BY <1>1, <1>4, <1>7 DEF PagesInOrder, Below
<1>11. NothingSkipped'
  <2> SUFFICES ASSUME ScoresDiffer, NEW q \in matching \ (earlier \cup items \cup rows')
               PROVE  next' # NoCursor /\ score[q] < next'
    BY <1>1 DEF NothingSkipped
  <2>1. q \in created \ rows'
    BY <1>1, <1>4, MatchingDrawn DEF Source
  <2>2. Below(score[q], cursor)
    BY <1>1, <1>4 DEF NothingSkipped
  <2>3. PICK p \in rows' : next' # NoCursor /\ score[p] = next' /\ score[q] <= score[p]
    BY <1>7, <2>1, <2>2
  <2>4. score[q] # score[p]
    BY <1>5, <1>7, <2>1 DEF ScoresApart
  <2>5. score[q] \in Nat /\ score[p] \in Nat
    BY <1>6, <1>7, <2>1
  <2> QED
    BY <2>3, <2>4, <2>5
<1>12. MineWereLive'
  BY <1>1, <1>4 DEF MineWereLive
<1> QED
  BY <1>3, <1>8, <1>9, <1>10, <1>11, <1>12

LEMMA ReadIndexKeeps == ASSUME ListingInv, ReadIndex PROVE ListingInv'
<1> USE DEF ListingInv
<1>1. /\ UNCHANGED <<keyVars, now, score, usedIds>>
      /\ step = "index" /\ step' = "rows" /\ query.kind # "mine"
      /\ query' = query /\ cursor' = cursor /\ items' = items /\ next' = next
      /\ earlier' = earlier /\ matching' = matching /\ everLive' = everLive
      /\ rows' = Source(query.kind, Me)
  BY DEF ReadIndex, ghosts
<1>2. /\ KeyspaceTypeOK' /\ OnlyDrawn' /\ ScoresApart'
      /\ score' \in [Polls -> Nat] /\ usedIds' \subseteq Polls /\ LivePolls' = LivePolls
      /\ Matches(query)' = Matches(query)
  BY <1>1, QueryStepKeeps, MatchesKept
<1>3. query # NoQuery /\ items = {}
  BY <1>1 DEF QueryState
<1>4. rows' \subseteq usedIds /\ usedIds \subseteq Polls
  BY <1>1, <1>3, QueryIs, SourceDrawn DEF TypeOK
<1>5. TypeOK'
  BY <1>1, <1>2, <1>4 DEF TypeOK
<1>6. QueryState'
  BY <1>1, <1>2, <1>3, <1>4 DEF QueryState
<1>7. matching \subseteq rows'
  BY <1>1, <1>3, MatchingDrawn
<1>8. NothingSkipped'
  BY <1>1, <1>7 DEF NothingSkipped
<1> QED
  BY <1>1, <1>2, <1>5, <1>6, <1>8 DEF PagesInOrder, MineWereLive

\* A poll that has matched all along is shown when its row is looked up.
LEMMA ReadRowKeeps == ASSUME ListingInv, NEW p \in Polls, ReadRow(p) PROVE ListingInv'
<1> USE DEF ListingInv
<1>1. /\ UNCHANGED <<keyVars, now, score, usedIds>>
      /\ step = "rows" /\ step' = "rows" /\ p \in rows
      /\ query' = query /\ cursor' = cursor /\ next' = next
      /\ earlier' = earlier /\ matching' = matching /\ everLive' = everLive
      /\ rows' = rows \ {p}
      /\ items' = IF Kept(query, p) THEN items \cup {p} ELSE items
  BY DEF ReadRow, ghosts, IsNextRow, AfterRow
<1>2. /\ KeyspaceTypeOK' /\ OnlyDrawn' /\ ScoresApart'
      /\ score' \in [Polls -> Nat] /\ usedIds' \subseteq Polls /\ LivePolls' = LivePolls
      /\ Matches(query)' = Matches(query)
  BY <1>1, QueryStepKeeps, MatchesKept
<1>3. rows' \cup items' \subseteq rows \cup items /\ items \subseteq items'
  BY <1>1
<1>4. \A q \in matching : q \in items \cup rows => q \in items' \cup rows'
  BY <1>1, MatchingDrawn
<1>5. TypeOK'
  BY <1>1, <1>2, <1>3 DEF TypeOK
<1>6. QueryState'
  BY <1>1, <1>2, <1>3 DEF QueryState
<1>7. PagesInOrder'
  <2> SUFFICES ASSUME query.kind = "mine" PROVE PagesInOrder'
    BY <1>1 DEF PagesInOrder
  <2>1. IsFiniteSet(rows \cup items)
    <3>1. rows \cup items \subseteq usedIds /\ IsFiniteSet(usedIds)
      BY DEF QueryState, OnlyDrawn
    <3> QED
      BY <3>1, FS_Subset
  <2>2. /\ Cardinality(rows' \cup items') <= Cardinality(rows \cup items)
        /\ Cardinality(rows' \cup items') \in Nat /\ Cardinality(rows \cup items) \in Nat
    BY <1>3, <2>1, FS_Subset, FS_CardinalityType
  <2>3. Cardinality(rows \cup items) <= query.limit /\ query.limit \in Nat
    BY <1>1, QueryIs DEF PagesInOrder, QueryState
  <2>4. Cardinality(rows' \cup items') <= query.limit
    BY <2>2, <2>3
  <2> QED
    BY <1>1, <1>3, <2>4 DEF PagesInOrder, Below
<1>8. NothingSkipped'
  BY <1>1, <1>3, <1>4 DEF NothingSkipped
<1>9. MineWereLive'
  BY <1>1, MineIsLive, QueryIs DEF MineWereLive, QueryState
<1> QED
  BY <1>2, <1>5, <1>6, <1>7, <1>8, <1>9

LEMMA ReturnPageKeeps == ASSUME ListingInv, ReturnPage PROVE ListingInv'
<1> USE DEF ListingInv
<1>1. /\ UNCHANGED <<keyVars, now, score, usedIds>>
      /\ step = "rows" /\ step' = "page" /\ rows = {} /\ rows' = rows
      /\ query' = query /\ cursor' = cursor /\ next' = next
      /\ earlier' = earlier /\ matching' = matching /\ everLive' = everLive
      /\ items' \in (IF query.kind = "mine" THEN {items} ELSE Cut(items, query.limit))
  BY DEF ReturnPage, ghosts
<1>2. /\ KeyspaceTypeOK' /\ OnlyDrawn' /\ ScoresApart'
      /\ score' \in [Polls -> Nat] /\ usedIds' \subseteq Polls /\ LivePolls' = LivePolls
      /\ Matches(query)' = Matches(query)
  BY <1>1, QueryStepKeeps, MatchesKept
<1>3. query # NoQuery /\ query.limit \in Nat \ {0}
  BY <1>1, QueryIs DEF QueryState
<1>4. IsFiniteSet(items)
  <2>1. items \subseteq usedIds /\ IsFiniteSet(usedIds)
    BY DEF QueryState, OnlyDrawn
  <2> QED
    BY <2>1, FS_Subset
<1>5. /\ items' \subseteq items /\ Cardinality(items') <= query.limit
      /\ query.kind = "mine" \/ Cardinality(items') < query.limit => items' = items
  <2>1. CASE query.kind = "mine"
    <3>1. items' = items /\ rows \cup items = items
      BY <1>1, <2>1
    <3> QED
      BY <2>1, <3>1 DEF PagesInOrder
  <2>2. CASE query.kind # "mine"
    <3>1. items' \in AnyRows(items, query.limit)
      BY <1>1, <2>2 DEF Cut
    <3> QED
      BY <1>3, <1>4, <2>2, <3>1, AnyRowsAre
  <2> QED
    BY <2>1, <2>2
<1>6. TypeOK'
  BY <1>1, <1>2, <1>5 DEF TypeOK
<1>7. QueryState'
  BY <1>1, <1>2, <1>5 DEF QueryState
<1>8. PagesInOrder'
  BY <1>1, <1>5 DEF PagesInOrder, Below
<1>9. NothingSkipped'
  BY <1>1, <1>5 DEF NothingSkipped
<1>10. MineWereLive'
  BY <1>1, <1>5 DEF MineWereLive
<1> QED
  BY <1>2, <1>6, <1>7, <1>8, <1>9, <1>10

\* The next page starts below everything that was shown.
LEMMA AskNextPageKeeps == ASSUME ListingInv, AskNextPage PROVE ListingInv'
<1> USE DEF ListingInv
<1>1. /\ UNCHANGED <<keyVars, now, score, usedIds>>
      /\ step = "page" /\ step' = "index" /\ next # NoCursor
      /\ query' = query /\ rows' = rows /\ cursor' = next
      /\ earlier' = earlier \cup items /\ items' = {} /\ next' = NoCursor
      /\ matching' = matching /\ everLive' = everLive
  BY DEF AskNextPage
<1>2. /\ KeyspaceTypeOK' /\ OnlyDrawn' /\ ScoresApart'
      /\ score' \in [Polls -> Nat] /\ usedIds' \subseteq Polls /\ LivePolls' = LivePolls
      /\ Matches(query)' = Matches(query)
  BY <1>1, QueryStepKeeps, MatchesKept
<1>3. /\ query.kind = "mine" /\ query # NoQuery /\ rows = {}
      /\ earlier \cup items \subseteq usedIds
  BY <1>1 DEF QueryState
<1>4. /\ cursor \in Nat \cup {NoCursor} /\ next \in Nat /\ NoCursor \notin Nat
      /\ \A p \in earlier \cup items : score[p] \in Nat
  BY <1>1, <1>3, Cursors DEF TypeOK
<1>5. TypeOK'
  BY <1>1, <1>2, <1>3 DEF TypeOK
<1>6. QueryState'
  BY <1>1, <1>2, <1>3 DEF QueryState
<1>7. PagesInOrder'
  <2>1. ASSUME NEW p \in earlier PROVE score[p] >= next
    <3>1. cursor # NoCursor /\ score[p] >= cursor /\ Below(next, cursor)
      BY <1>1, <1>3 DEF PagesInOrder
    <3>2. cursor \in Nat /\ next < cursor /\ score[p] \in Nat
      BY <1>4, <3>1 DEF Below
    <3> QED
      BY <1>4, <3>1, <3>2
  <2>2. ASSUME NEW p \in items PROVE score[p] >= next
    BY <1>1, <1>3 DEF PagesInOrder
  <2>3. Cardinality(rows' \cup items') <= query.limit
    <3>1. rows' \cup items' = {} /\ query.limit \in Nat
      BY <1>1, <1>3, QueryIs
    <3> QED
      BY <3>1, FS_EmptySet
  <2> QED
    BY <1>1, <1>3, <2>1, <2>2, <2>3 DEF PagesInOrder
<1>8. NothingSkipped'
  BY <1>1, <1>3 DEF NothingSkipped, Below
<1>9. MineWereLive'
  BY <1>1 DEF MineWereLive
<1> QED
  BY <1>2, <1>5, <1>6, <1>7, <1>8, <1>9

LEMMA StutterKeeps == ASSUME ListingInv, UNCHANGED vars PROVE ListingInv'
<1> USE DEF ListingInv, vars, queryVars, ghosts
<1>1. /\ KeyspaceTypeOK' /\ OnlyDrawn' /\ ScoresApart'
      /\ score' \in [Polls -> Nat] /\ usedIds' \subseteq Polls /\ LivePolls' = LivePolls
      /\ Matches(query)' = Matches(query)
  BY QueryStepKeeps, MatchesKept
<1>2. TypeOK'
  BY <1>1 DEF TypeOK
<1>3. QueryState'
  BY <1>1 DEF QueryState
<1>4. PagesInOrder' /\ NothingSkipped' /\ MineWereLive'
  BY DEF PagesInOrder, NothingSkipped, MineWereLive, Below
<1> QED
  BY <1>1, <1>2, <1>3, <1>4

-----------------------------------------------------------------------------
(* The theorems *)

LEMMA ListingStep == ASSUME ListingInv, [Next]_vars PROVE ListingInv'
<1>1. ASSUME NEW kind \in Kinds, NEW closedToo \in BOOLEAN, NEW limit \in Limits,
             Ask(kind, closedToo, limit)
      PROVE  ListingInv'
  BY <1>1, AskKeeps
<1>2. CASE ReadRange
  BY <1>2, ReadRangeKeeps
<1>3. CASE ReadIndex
  BY <1>3, ReadIndexKeeps
<1>4. ASSUME NEW p \in Polls, ReadRow(p) PROVE ListingInv'
  BY <1>4, ReadRowKeeps
<1>5. CASE ReturnPage
  BY <1>5, ReturnPageKeeps
<1>6. CASE AskNextPage
  BY <1>6, AskNextPageKeeps
<1>7. CASE Stop
  BY <1>7, StopKeeps
<1>8. ASSUME NEW p \in Polls, NEW u \in Users, NEW opts \in OptionLists,
             NEW e \in ExpiryTicks, NEW public \in Visibility, Create(p, u, opts, e, public)
      PROVE  ListingInv'
  BY <1>8, CreateKeeps
<1>9. ASSUME NEW p \in Polls, NEW o \in Options, CastMine(p, o) PROVE ListingInv'
  BY <1>9, CastKeeps
<1>15. ASSUME NEW p \in Polls, UndoMine(p) PROVE ListingInv'
  BY <1>15, UndoKeeps
<1>10. ASSUME NEW p \in Polls, Close(p) PROVE ListingInv'
  BY <1>10, CloseKeeps
<1>11. ASSUME NEW p \in Polls, Delete(p) PROVE ListingInv'
  BY <1>11, DeleteKeeps
<1>12. ASSUME NEW p \in Polls, NEW u \in Users, DropFromLists(p, u) PROVE ListingInv'
  BY <1>12, DropKeeps
<1>13. CASE Tick
  BY <1>13, TickKeeps
<1>14. CASE UNCHANGED vars
  BY <1>14, StutterKeeps
<1> QED
  BY <1>1, <1>2, <1>3, <1>4, <1>5, <1>6, <1>7, <1>8, <1>9, <1>10, <1>11, <1>12, <1>13,
     <1>14, <1>15 DEF Next

\* ListingInv holds always, whatever writers do between the commands of a query
\* (store.go, ListMyCreatedPollStats and the lists that answer once).
THEOREM ListingInductive == Spec => []ListingInv
<1>1. Init => ListingInv
  BY ListingStart
<1>2. ListingInv /\ [Next]_vars => ListingInv'
  BY ListingStep
<1> QED
  BY <1>1, <1>2, PTL DEF Spec

\* No poll comes on two pages of a walk through created_polls: every page lies
\* strictly below the cursor it was asked with, even when scores are equal.
THEOREM PagesApart == Spec => []NoPollTwice
<1>1. ListingInv => NoPollTwice
  <2> SUFFICES ASSUME ListingInv, query.kind = "mine", NEW p \in items \cap earlier
               PROVE  FALSE
    BY DEF NoPollTwice
  <2>1. cursor # NoCursor /\ score[p] >= cursor /\ Below(score[p], cursor)
    BY DEF ListingInv, PagesInOrder
  <2>2. cursor \in Nat /\ score[p] \in Nat
    BY <2>1 DEF ListingInv, TypeOK
  <2> QED
    BY <2>1, <2>2 DEF Below
<1> QED
  BY <1>1, ListingInductive, PTL

\* A walk to the last page shows every poll that matched all along, provided
\* that no two polls of the user have the same score, which the fraction taken
\* from the poll's id makes likely and nothing makes sure.
THEOREM WalkFindsAll == ASSUME ScoresDiffer PROVE Spec => []WalkComplete
<1>1. ListingInv => WalkComplete
  BY DEF ListingInv, WalkComplete, NothingSkipped, QueryState
<1> QED
  BY <1>1, ListingInductive, PTL

\* A list that answers once and is not cut misses no poll that matched all
\* along, although stale ids are looked up and polls come and go meanwhile.
THEOREM ListFindsAll == Spec => []ListComplete
<1>1. ListingInv => ListComplete
  <2> SUFFICES ASSUME ListingInv, step = "page", query.kind \notin {"none", "mine"},
                      Cardinality(items) < query.limit
               PROVE  matching \subseteq items
    BY DEF ListComplete
  <2> QED
    BY DEF ListingInv, NothingSkipped
<1> QED
  BY <1>1, ListingInductive, PTL

\* The user's own list shows only polls that were live during the query: the
\* check of created_by hides a hash that a late ClosePoll has brought back.
THEOREM MineShowsLive == Spec => []MineWereLive
<1>1. ListingInv => MineWereLive
  BY DEF ListingInv
<1> QED
  BY <1>1, ListingInductive, PTL
================================================================================
