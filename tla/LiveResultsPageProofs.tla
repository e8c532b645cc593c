------------------------- MODULE LiveResultsPageProofs -------------------------
(***************************************************************************)
(* What holds of the results page for any number of connections, handlers  *)
(* and refreshes, any buffer and any number of changes: a section that is  *)
(* not current has news, unless the page was disturbed.  The core is that  *)
(* a step of the server moves the news of a section on, or drops it and    *)
(* marks the page as disturbed.                                            *)
(***************************************************************************)
EXTENDS LiveResultsPage, SSEHubProofs

\* A notify drops a message that alone names a section.
Drop == \E h \in Handlers : NotifySend(h, conn) /\ LosesNews(Head(outbox[h]))

\* The variables a step of the hub leaves alone, and the other way round, by name.
PageUnchanged ==
  /\ changes' = changes /\ shown' = shown /\ next' = next /\ todo' = todo
  /\ running' = running /\ serial' = serial /\ alone' = alone
  /\ disturbed' = disturbed /\ conn' = conn /\ losses' = losses

LEMMA PageVars == UNCHANGED pageVars <=> PageUnchanged
BY DEF pageVars, PageUnchanged

RefreshUnchanged ==
  /\ next' = next /\ todo' = todo /\ running' = running /\ serial' = serial
  /\ alone' = alone /\ disturbed' = disturbed

LEMMA RefreshVars == UNCHANGED refreshVars <=> RefreshUnchanged
BY DEF refreshVars, RefreshUnchanged

HubUnchangedByName ==
  /\ hub' = hub /\ loop' = loop /\ ch' = ch /\ wire' = wire /\ lost' = lost
  /\ outbox' = outbox /\ locked' = locked /\ left' = left

LEMMA HubVars == UNCHANGED hubVars <=> HubUnchangedByName
BY DEF hubVars, HubUnchangedByName

\* Messages are sets of sections.
LEMMA MessageSections ==
  /\ Sections \in Messages /\ InitialMsg = Sections
  /\ {"myCreated"} \in Messages /\ {"publicStats"} \in Messages
  /\ \A m \in Messages : m \subseteq Sections
<1>1. Messages = (SUBSET Sections) \ {{}} /\ InitialMsg = Sections
  BY PageAssumption DEF PageAssumption
<1>2. /\ Sections \subseteq Sections /\ "myCreated" \in Sections
      /\ "publicStats" \in Sections
  BY DEF Sections
<1>3. /\ Sections # {} /\ {"myCreated"} # {} /\ {"publicStats"} # {}
      /\ {"myCreated"} \subseteq Sections /\ {"publicStats"} \subseteq Sections
  BY <1>2
<1>4. \A m : m \in Messages <=> m \subseteq Sections /\ m # {}
  BY <1>1
<1> QED
  BY <1>1, <1>2, <1>3, <1>4, Zenon

-----------------------------------------------------------------------------
(* Messages on the way *)

\* A message of queue q names section s.
Asks(q, s) == \E i \in DOMAIN q : s \in q[i]

LEMMA AsksAppend ==
  ASSUME NEW q \in Seq(Messages), NEW m \in Messages, NEW s
  PROVE  Asks(Append(q, m), s) <=> Asks(q, s) \/ s \in m
<1> DEFINE a == Append(q, m)
<1>1. /\ a \in Seq(Messages) /\ Len(a) = Len(q) + 1 /\ a[Len(q) + 1] = m
      /\ \A i \in 1 .. Len(q) : a[i] = q[i]
  BY AppendProperties
<1>2. DOMAIN a = 1 .. Len(q) + 1 /\ DOMAIN q = 1 .. Len(q) /\ Len(q) \in Nat
  BY <1>1, LenProperties
<1> QED
  BY <1>1, <1>2 DEF Asks

LEMMA AsksTail ==
  ASSUME NEW q \in Seq(Messages), q # <<>>, NEW s
  PROVE  Asks(q, s) <=> s \in Head(q) \/ Asks(Tail(q), s)
<1>1. /\ Tail(q) \in Seq(Messages) /\ Len(Tail(q)) = Len(q) - 1
      /\ \A i \in 1 .. Len(Tail(q)) : Tail(q)[i] = q[i + 1]
  BY HeadTailProperties
<1>2. Len(q) \in Nat \ {0} /\ Head(q) = q[1]
  BY EmptySeq
<1>3. DOMAIN Tail(q) = 1 .. Len(q) - 1 /\ DOMAIN q = 1 .. Len(q)
  BY <1>1, LenProperties
<1>4. ASSUME Asks(q, s) PROVE s \in Head(q) \/ Asks(Tail(q), s)
  <2>1. PICK i \in 1 .. Len(q) : s \in q[i]
    BY <1>3, <1>4 DEF Asks
  <2>2. CASE i = 1
    BY <1>2, <2>1, <2>2
  <2>3. CASE i # 1
    <3>1. i - 1 \in 1 .. Len(q) - 1 /\ (i - 1) + 1 = i
      BY <1>2, <2>1, <2>3
    <3>2. Tail(q)[i - 1] = q[i]
      BY <1>1, <3>1
    <3> QED
      BY <1>3, <2>1, <3>1, <3>2 DEF Asks
  <2> QED
    BY <2>2, <2>3
<1>5. ASSUME s \in Head(q) \/ Asks(Tail(q), s) PROVE Asks(q, s)
  BY <1>1, <1>2, <1>3, <1>5 DEF Asks
<1> QED
  BY <1>4, <1>5

\* A notification for section s that connection conn has still to be offered.
Announced(s) ==
  \E h \in Handlers : \E i \in DOMAIN outbox[h] :
    s \in outbox[h][i] /\ (i > 1 \/ ~locked[h] \/ conn \in left[h])

LEMMA ComingParts ==
  \A s : Coming(s) <=> \/ conn = NoConn
                       \/ loop[conn] = "added" \/ Asks(ch[conn], s)
                       \/ Asks(wire[conn], s) \/ Announced(s)
BY DEF Coming, Asks, Announced

\* The same of the state after a step.
LEMMA ComingPartsNext ==
  \A s : Coming(s)' <=> \/ conn' = NoConn
                        \/ loop'[conn'] = "added" \/ Asks(ch'[conn'], s)
                        \/ Asks(wire'[conn'], s) \/ Announced(s)'
BY DEF Coming, Asks, Announced

-----------------------------------------------------------------------------
(* The server *)

\* A step of the server moves the news of a section, unless it drops it.
LEMMA ComingMoves ==
  ASSUME ResultsInv, conn \in Conns, ServerStep, ~Drop, conn' = conn,
         NEW s \in Sections, Coming(s)
  PROVE  Coming(s)'
<1> USE DEF ResultsInv, HubInv, HubTypeOK
<1>0. conn \in hub /\ conn \notin lost /\ conn # NoConn
  BY PageAssumption DEF PageAssumption
<1>1. ASSUME NEW c \in Conns, WriteInitial(c) PROVE Coming(s)'
  <2>1. s \in InitialMsg /\ InitialMsg \in Messages
    BY MessageSections
  <2>2. wire[c] \in Seq(Messages)
    OBVIOUS
  <2>3. \A q \in Seq(Messages) : Asks(Append(q, InitialMsg), s)
    BY <2>1, AsksAppend
  <2>4. CASE c = conn
    <3>1. wire'[conn] = Append(wire[conn], InitialMsg)
      BY <1>1, <2>4 DEF WriteInitial
    <3> QED
      BY <2>2, <2>3, <2>4, <3>1, ComingPartsNext
  <2>5. CASE c # conn
    <3>1. wire'[conn] = wire[conn] /\ loop'[conn] = loop[conn] /\ ch' = ch
          /\ outbox' = outbox /\ locked' = locked /\ left' = left
      BY <1>1, <2>5 DEF WriteInitial
    <3>2. Announced(s)' <=> Announced(s)
      BY <3>1 DEF Announced
    <3> QED
      BY <3>1, <3>2, ComingParts, ComingPartsNext
  <2> QED
    BY <2>4, <2>5
<1>2. ASSUME NEW c \in Conns, Forward(c) PROVE Coming(s)'
  <2>1. Announced(s)' <=> Announced(s)
    BY <1>2 DEF Forward, Announced
  <2>2. CASE c = conn
    <3>1. /\ ch[conn] \in Seq(Messages) /\ ch[conn] # <<>>
          /\ wire[conn] \in Seq(Messages) /\ Head(ch[conn]) \in Messages
      BY <1>2, <2>2, TailOf DEF Forward
    <3>2. /\ Asks(ch[conn], s) => s \in Head(ch[conn]) \/ Asks(Tail(ch[conn]), s)
          /\ s \in Head(ch[conn]) \/ Asks(wire[conn], s)
             => Asks(Append(wire[conn], Head(ch[conn])), s)
      BY <3>1, AsksAppend, AsksTail
    <3>3. /\ wire'[conn] = Append(wire[conn], Head(ch[conn]))
          /\ ch'[conn] = Tail(ch[conn]) /\ loop' = loop
      BY <1>2, <2>2 DEF Forward
    <3> QED
      BY <2>1, <3>2, <3>3, ComingParts, ComingPartsNext
  <2>3. CASE c # conn
    <3>1. wire'[conn] = wire[conn] /\ ch'[conn] = ch[conn] /\ loop' = loop
      BY <1>2, <2>3 DEF Forward
    <3> QED
      BY <2>1, <3>1, ComingParts, ComingPartsNext
  <2> QED
    BY <2>2, <2>3
<1>3. ASSUME NEW c \in Conns, Leave(c) PROVE Coming(s)'
  <2>1. c # conn
    BY <1>0, <1>3 DEF Leave
  <2>2. wire'[conn] = wire[conn] /\ ch'[conn] = ch[conn] /\ loop'[conn] = loop[conn]
    BY <1>3, <2>1 DEF Leave, Discard
  <2>3. Announced(s)' <=> Announced(s)
    BY <1>3 DEF Leave, Announced
  <2> QED
    BY <2>2, <2>3, ComingParts, ComingPartsNext
<1>4. ASSUME NEW h \in Handlers, NotifyStart(h) PROVE Coming(s)'
  <2>1. wire' = wire /\ ch' = ch /\ loop' = loop
    BY <1>4 DEF NotifyStart
  <2>2. Announced(s) => Announced(s)'
    BY <1>0, <1>4 DEF NotifyStart, Announced
  <2> QED
    BY <2>1, <2>2, ComingParts, ComingPartsNext
<1>5. ASSUME NEW h \in Handlers, NotifyEnd(h) PROVE Coming(s)'
  <2>1. wire' = wire /\ ch' = ch /\ loop' = loop
    BY <1>5 DEF NotifyEnd
  <2>2. /\ outbox[h] \in Seq(Messages) /\ outbox[h] # <<>>
        /\ outbox' = [outbox EXCEPT ![h] = Tail(@)]
        /\ locked[h] /\ left[h] = {} /\ left' = left
        /\ locked' = [locked EXCEPT ![h] = FALSE]
    BY <1>5 DEF NotifyEnd
  <2>3. Announced(s) => Announced(s)'
    <3>1. SUFFICES ASSUME NEW k \in Handlers, NEW i \in DOMAIN outbox[k],
                          s \in outbox[k][i],
                          i > 1 \/ ~locked[k] \/ conn \in left[k]
                   PROVE  Announced(s)'
      BY DEF Announced
    <3>2. CASE k # h
      BY <2>2, <3>1, <3>2 DEF Announced
    <3>3. CASE k = h
      <4>1. i \in 1 .. Len(outbox[h]) /\ i > 1 /\ Len(outbox[h]) \in Nat
        BY <2>2, <3>1, <3>3, LenProperties
      <4>2. /\ Tail(outbox[h]) \in Seq(Messages)
            /\ Len(Tail(outbox[h])) = Len(outbox[h]) - 1
            /\ \A j \in 1 .. Len(Tail(outbox[h])) : Tail(outbox[h])[j] = outbox[h][j + 1]
        BY <2>2, HeadTailProperties
      <4>3. i - 1 \in 1 .. Len(Tail(outbox[h])) /\ (i - 1) + 1 = i
        BY <4>1, <4>2
      <4>4. i - 1 \in DOMAIN Tail(outbox[h]) /\ s \in Tail(outbox[h])[i - 1]
        BY <3>1, <3>3, <4>2, <4>3, LenProperties
      <4>5. outbox'[h] = Tail(outbox[h]) /\ ~locked'[h]
        BY <2>2
      <4> QED
        BY <4>4, <4>5 DEF Announced
    <3> QED
      BY <3>2, <3>3
  <2> QED
    BY <2>1, <2>3, ComingParts, ComingPartsNext
<1>6. ASSUME NEW h \in Handlers, NEW c \in Conns, NotifySend(h, c) PROVE Coming(s)'
  <2>1. /\ wire' = wire /\ loop' = loop /\ outbox' = outbox /\ locked' = locked
        /\ ch' = [ch EXCEPT ![c] = Offered(c, Head(outbox[h]))]
        /\ left' = [left EXCEPT ![h] = @ \ {c}] /\ c \in left[h]
    BY <1>6 DEF NotifySend
  <2>2. /\ outbox[h] \in Seq(Messages) /\ outbox[h] # <<>>
        /\ Head(outbox[h]) \in Messages /\ Head(outbox[h]) = outbox[h][1]
    BY <2>1, TailOf
  <2>3. CASE c # conn
    <3>1. ch'[conn] = ch[conn] /\ \A k \in Handlers : conn \in left[k] => conn \in left'[k]
      BY <2>1, <2>3
    <3>2. Announced(s) => Announced(s)'
      BY <2>1, <3>1 DEF Announced
    <3> QED
      BY <2>1, <3>1, <3>2, ComingParts, ComingPartsNext
  <2>4. CASE c = conn
    <3>1. ch[conn] \in Seq(Messages)
      OBVIOUS
    <3>2. ch'[conn] = Offered(conn, Head(outbox[h]))
      BY <2>1, <2>4
    <3>3. Asks(ch[conn], s) \/ s \in Head(outbox[h]) => Asks(ch'[conn], s)
      <4>1. CASE Len(ch[conn]) < BufferSize
        <5>1. ch'[conn] = Append(ch[conn], Head(outbox[h]))
          BY <3>2, <4>1 DEF Offered
        <5> QED
          BY <2>2, <3>1, <5>1, AsksAppend
      <4>2. CASE ~(Len(ch[conn]) < BufferSize)
        <5>1. ch'[conn] = ch[conn]
          BY <3>2, <4>2 DEF Offered
        <5>2. Len(ch[conn]) = BufferSize
          <6>1. Len(ch[conn]) \in Nat /\ BufferSize \in Nat /\ Len(ch[conn]) <= BufferSize
            BY HubAssumption, LenProperties DEF HubAssumption
          <6> QED
            BY <4>2, <6>1
        <5>3. Head(outbox[h]) \subseteq UNION {ch[conn][i] : i \in DOMAIN ch[conn]}
          BY <1>6, <2>4, <5>2 DEF Drop, LosesNews
        <5>4. s \in Head(outbox[h]) => Asks(ch[conn], s)
          BY <5>3 DEF Asks
        <5> QED
          BY <5>1, <5>4
      <4> QED
        BY <4>1, <4>2
    <3>4. Announced(s) => Announced(s)' \/ s \in Head(outbox[h])
      <4>1. SUFFICES ASSUME NEW k \in Handlers, NEW i \in DOMAIN outbox[k],
                            s \in outbox[k][i],
                            i > 1 \/ ~locked[k] \/ conn \in left[k],
                            s \notin Head(outbox[h])
                     PROVE  Announced(s)'
        BY DEF Announced
      <4>2. CASE k # h
        BY <2>1, <4>1, <4>2 DEF Announced
      <4>3. CASE k = h
        <5>1. i # 1
          BY <2>2, <4>1, <4>3
        <5>2. i \in 1 .. Len(outbox[h]) /\ Len(outbox[h]) \in Nat
          BY <2>2, <4>1, <4>3, LenProperties
        <5>3. i > 1
          BY <5>1, <5>2
        <5> QED
          BY <2>1, <4>1, <4>3, <5>3 DEF Announced
      <4> QED
        BY <4>2, <4>3
    <3> QED
      BY <2>1, <3>3, <3>4, ComingParts, ComingPartsNext
  <2> QED
    BY <2>3, <2>4
<1> QED
  BY <1>1, <1>2, <1>3, <1>4, <1>5, <1>6 DEF ServerStep

-----------------------------------------------------------------------------
(* The invariant of the page *)

LEMMA ResultsStart == Init => ResultsInv
<1> SUFFICES ASSUME Init PROVE ResultsInv
  OBVIOUS
<1>1. HubInv
  BY HubStart DEF Init
<1>2. HubTypeOK /\ 0 \in Nat
  BY <1>1 DEF HubInv
<1>3. TypeOK
  BY <1>2, Zenon DEF Init, TypeOK
<1>4. conn \notin Conns
  BY PageAssumption DEF PageAssumption, Init
<1> QED
  BY <1>1, <1>3, <1>4 DEF ResultsInv, Init

\* What starting a refresh does, alone or not.
LEMMA StartEffect ==
  ASSUME ResultsInv, NEW t \in Refreshes, NEW sections \in SUBSET Sections,
         Start(t, sections)
  PROVE  /\ next' \in [Refreshes -> SUBSET Sections]
         /\ todo' \in [Refreshes -> SUBSET Sections]
         /\ running' = running \cup {t} /\ disturbed' \in BOOLEAN
         /\ \A k \in running : next'[k] = next[k] /\ todo'[k] = todo[k]
         /\ next'[t] = shown /\ todo'[t] = sections
         /\ \A k \in alone' : running' = {k} /\ k = t /\ sections = Sections
         /\ ~disturbed' => ~disturbed /\ running = {}
<1> USE DEF Start, Copied, ResultsInv, TypeOK
<1>1. /\ next' \in [Refreshes -> SUBSET Sections]
      /\ todo' \in [Refreshes -> SUBSET Sections]
      /\ next'[t] = shown /\ todo'[t] = sections
      /\ running' = running \cup {t} /\ disturbed' \in BOOLEAN
  OBVIOUS
<1>2. \A k \in running : next'[k] = next[k] /\ todo'[k] = todo[k]
  OBVIOUS
<1>3. /\ \A k \in alone' : running' = {k} /\ k = t /\ sections = Sections
      /\ ~disturbed' => ~disturbed /\ running = {}
  OBVIOUS
<1> QED
  BY <1>1, <1>2, <1>3

\* The page's part of the invariant holds after a refresh was started.
LEMMA StartKeeps ==
  ASSUME ResultsInv, NEW t \in Refreshes, NEW sections \in SUBSET Sections,
         Start(t, sections), HubInv', shown' = shown, changes' = changes,
         conn' = conn, losses' = losses, hub' = hub, lost' = lost,
         serial' \in {serial, serial \cup {t}}
  PROVE  ResultsInv'
<1>1. serial' \subseteq running' /\ alone' \subseteq running' /\ running' \subseteq Refreshes
  BY StartEffect DEF ResultsInv, TypeOK
<1>2. TypeOK'
  BY <1>1, StartEffect DEF ResultsInv, TypeOK, HubInv
<1>3. ~disturbed' => \A k \in running' : running' = {k} /\ shown' \subseteq todo'[k] \cup next'[k]
  BY StartEffect
<1> QED
  BY <1>1, <1>2, <1>3, StartEffect DEF ResultsInv

\* News that stays, when the page itself does not change.
LEMMA NewsStays ==
  ASSUME NewsKept, UNCHANGED <<shown, refreshVars, conn>>,
         \A s \in Sections : Coming(s) => Coming(s)'
  PROVE  NewsKept'
<1>1. RefreshUnchanged /\ shown' = shown /\ conn' = conn
  BY RefreshVars
<1> QED
  BY <1>1 DEF NewsKept, StaleSectionHasNews, BeingFetched, RefreshUnchanged

\* Where everything is on its way, everything has news.
LEMMA AllComing == ASSUME \A s \in Sections : Coming(s)' PROVE NewsKept'
BY DEF NewsKept, StaleSectionHasNews

-----------------------------------------------------------------------------
(* Refreshes *)

\* A refresh that is started is about to fetch what it was started for.
LEMMA StartNews ==
  ASSUME ResultsInv, NEW t \in Refreshes, NEW sections \in SUBSET Sections,
         Start(t, sections), shown' = shown, conn' = conn, NewsKept,
         \A s \in Sections \ sections : Coming(s) => Coming(s)'
  PROVE  NewsKept'
<1>1. CASE conn = Stopped
  BY <1>1 DEF NewsKept
<1>2. CASE conn # Stopped
  <2>1. ASSUME NEW k \in alone', NEW s \in Sections
        PROVE  s \in todo'[k] \cup next'[k]
    BY StartEffect
  <2>2. StaleSectionHasNews'
    <3>1. CASE disturbed'
      BY <3>1 DEF StaleSectionHasNews
    <3>2. CASE ~disturbed'
      <4>1. ~disturbed /\ running = {} /\ t \in running' /\ todo'[t] = sections
        BY <3>2, StartEffect
      <4>2. \A s \in Sections : s \in shown \/ Coming(s)
        BY <1>2, <4>1 DEF NewsKept, StaleSectionHasNews, BeingFetched
      <4>3. \A s \in Sections : s \in shown' \/ Coming(s)' \/ s \in todo'[t]
        BY <4>1, <4>2
      <4> QED
        BY <4>1, <4>3 DEF StaleSectionHasNews, BeingFetched
    <3> QED
      BY <3>1, <3>2
  <2> QED
    BY <2>1, <2>2 DEF NewsKept
<1> QED
  BY <1>1, <1>2

LEMMA HandleEventKeeps ==
  ASSUME ResultsInv, HandleEvent
  PROVE  ResultsInv' /\ (NewsKept => NewsKept')
<1>1. /\ conn \in Conns /\ Take(conn) /\ HubInv'
      /\ wire[conn] \in Seq(Messages) /\ wire[conn] # <<>>
  BY TakeKeeps DEF HandleEvent, ResultsInv, HubInv, HubTypeOK
<1>2. Head(wire[conn]) \in SUBSET Sections
  BY <1>1, TailOf, MessageSections
<1>3. PICK t \in Refreshes : Start(t, Head(wire[conn]))
  BY DEF HandleEvent
<1>4. /\ shown' = shown /\ changes' = changes /\ conn' = conn /\ losses' = losses
      /\ serial' = serial
  BY DEF HandleEvent
<1>5. /\ hub' = hub /\ lost' = lost /\ loop' = loop /\ ch' = ch /\ outbox' = outbox
      /\ locked' = locked /\ left' = left /\ wire'[conn] = Tail(wire[conn])
  BY <1>1 DEF Take, ResultsInv, HubInv, HubTypeOK
<1>6. ResultsInv'
  BY <1>1, <1>2, <1>3, <1>4, <1>5, StartKeeps
<1>7. \A s \in Sections \ Head(wire[conn]) : Coming(s) => Coming(s)'
  <2>1. \A s : Asks(wire[conn], s) => s \in Head(wire[conn]) \/ Asks(wire'[conn], s)
    BY <1>1, <1>5, AsksTail
  <2>2. \A s : Announced(s) => Announced(s)'
    BY <1>4, <1>5 DEF Announced
  <2> QED
    BY <1>4, <1>5, <2>1, <2>2, ComingParts, ComingPartsNext
<1>8. ASSUME NewsKept PROVE NewsKept'
  BY <1>2, <1>3, <1>4, <1>7, <1>8, StartNews
<1> QED
  BY <1>6, <1>8

LEMMA LoadAllOnceKeeps ==
  ASSUME ResultsInv, LoadAllOnce
  PROVE  ResultsInv' /\ (NewsKept => NewsKept')
<1>1. PICK t \in Refreshes : Start(t, Sections) /\ serial' = serial \cup {t}
  BY DEF LoadAllOnce
<1>2. shown' = shown /\ changes' = changes /\ conn' = conn /\ losses' = losses
  BY DEF LoadAllOnce
<1>3. HubInv' /\ HubUnchangedByName
  BY HubUnchanged, HubVars DEF LoadAllOnce, ResultsInv
<1>4. ResultsInv'
  BY <1>1, <1>2, <1>3, StartKeeps DEF HubUnchangedByName
<1>5. ASSUME NewsKept PROVE NewsKept'
  BY <1>1, <1>2, <1>5, StartNews
<1> QED
  BY <1>4, <1>5

LEMMA FetchKeeps ==
  ASSUME ResultsInv, NEW t \in Refreshes, NEW s \in Sections, Fetch(t, s)
  PROVE  ResultsInv' /\ (NewsKept => NewsKept')
<1>1. HubInv' /\ HubUnchangedByName
  BY HubUnchanged, HubVars DEF Fetch, ResultsInv
<1>2. /\ shown' = shown /\ changes' = changes /\ conn' = conn /\ losses' = losses
      /\ running' = running /\ serial' = serial /\ alone' = alone
      /\ disturbed' = disturbed
  BY DEF Fetch
<1>3. /\ next' \in [Refreshes -> SUBSET Sections]
      /\ todo' \in [Refreshes -> SUBSET Sections]
      /\ \A k \in Refreshes : todo'[k] \cup next'[k] = todo[k] \cup next[k]
  BY DEF Fetch, ResultsInv, TypeOK
<1>4. TypeOK'
  BY <1>1, <1>2, <1>3 DEF ResultsInv, TypeOK, HubInv
<1>5. ResultsInv'
  BY <1>1, <1>2, <1>3, <1>4 DEF ResultsInv, TypeOK, HubUnchangedByName
<1>6. ASSUME NewsKept PROVE NewsKept'
  <2>1. \A r : Coming(r)' <=> Coming(r)
    BY <1>1, <1>2 DEF Coming, HubUnchangedByName
  <2> QED
    BY <1>2, <1>3, <1>6, <2>1
    DEF NewsKept, StaleSectionHasNews, BeingFetched, ResultsInv, TypeOK
<1> QED
  BY <1>5, <1>6

\* The end of a refresh, whatever is shown after it.
LEMMA OverKeeps ==
  ASSUME ResultsInv, NEW t \in running, Over(t), shown' \in SUBSET Sections,
         disturbed' \in BOOLEAN, ~disturbed' => running = {t}
  PROVE  ResultsInv' /\ alone' = {} /\ \A s : Coming(s)' <=> Coming(s)
<1>1. HubInv' /\ HubUnchangedByName
  BY HubUnchanged, HubVars DEF Over, ResultsInv
<1>2. TypeOK'
  BY <1>1 DEF Over, ResultsInv, TypeOK, HubInv
<1>3. alone' = {}
  BY DEF Over, ResultsInv
<1>4. ~disturbed' => running' = {}
  BY DEF Over
<1>5. ResultsInv'
  BY <1>1, <1>2, <1>3, <1>4 DEF Over, ResultsInv, HubUnchangedByName
<1>6. \A s : Coming(s)' <=> Coming(s)
  BY <1>1 DEF Over, Coming, HubUnchangedByName
<1> QED
  BY <1>3, <1>5, <1>6

\* What an undisturbed refresh shows is current or about to be refreshed.
LEMMA ShowKeeps ==
  ASSUME ResultsInv, NEW t \in Refreshes, Show(t)
  PROVE  ResultsInv' /\ (NewsKept => NewsKept')
<1>1. /\ t \in running /\ todo[t] = {} /\ shown' = next[t] /\ Over(t)
      /\ disturbed' = (disturbed /\ t \notin alone)
  BY DEF Show
<1>2. shown' \in SUBSET Sections /\ disturbed' \in BOOLEAN
  BY <1>1 DEF ResultsInv, TypeOK
<1>3. ~disturbed' => running = {t}
  BY <1>1 DEF ResultsInv, TypeOK
<1>4. ResultsInv' /\ alone' = {} /\ \A s : Coming(s)' <=> Coming(s)
  BY <1>1, <1>2, <1>3, OverKeeps
<1>5. ASSUME NewsKept PROVE NewsKept'
  <2>1. CASE conn = Stopped
    BY <2>1 DEF NewsKept, Show, Over
  <2>2. CASE conn # Stopped
    <3>1. CASE t \in alone
      <4>1. \A s \in Sections : Coming(s) \/ s \in shown'
        BY <1>1, <1>5, <2>2, <3>1 DEF NewsKept
      <4> QED
        BY <1>4, <4>1 DEF NewsKept, StaleSectionHasNews
    <3>2. CASE t \notin alone /\ ~disturbed
      <4>1. running = {t} /\ shown \subseteq shown'
        BY <1>1, <3>2 DEF ResultsInv
      <4>2. \A s \in Sections : s \in shown \/ Coming(s) \/ s \in next[t]
        BY <1>1, <1>5, <2>2, <3>2, <4>1 DEF NewsKept, StaleSectionHasNews, BeingFetched
      <4> QED
        BY <1>1, <1>4, <4>1, <4>2 DEF NewsKept, StaleSectionHasNews
    <3>3. CASE t \notin alone /\ disturbed
      BY <1>1, <1>4, <3>3 DEF NewsKept, StaleSectionHasNews
    <3> QED
      BY <3>1, <3>2, <3>3
  <2> QED
    BY <2>1, <2>2
<1> QED
  BY <1>4, <1>5

LEMMA FailKeeps ==
  ASSUME ResultsInv, NEW t \in Refreshes, Fail(t)
  PROVE  ResultsInv' /\ (NewsKept => NewsKept')
<1>1. t \in running /\ Over(t) /\ disturbed' = TRUE /\ shown' = shown
  BY DEF Fail
<1>2. ResultsInv' /\ alone' = {}
  BY <1>1, OverKeeps DEF ResultsInv, TypeOK
<1> QED
  BY <1>1, <1>2 DEF NewsKept, StaleSectionHasNews

-----------------------------------------------------------------------------
(* The connection *)

LEMMA ConnectKeeps ==
  ASSUME ResultsInv, NEW c \in Conns, Connect(c)
  PROVE  ResultsInv' /\ NewsKept'
<1>1. HubInv' /\ Add(c) /\ conn' = c /\ RefreshUnchanged
  BY AddKeeps, RefreshVars DEF Connect, ResultsInv
<1>2. c \in hub' /\ lost' = lost /\ loop'[c] = "added" /\ c \notin lost
  BY <1>1 DEF Add, Added, ResultsInv, HubInv, HubTypeOK
<1>3. TypeOK'
  BY <1>1 DEF Connect, ResultsInv, TypeOK, HubInv, RefreshUnchanged
<1>4. ResultsInv'
  BY <1>1, <1>2, <1>3 DEF Connect, ResultsInv, RefreshUnchanged
<1>5. \A s : Coming(s)'
  BY <1>1, <1>2, ComingPartsNext
<1> QED
  BY <1>4, <1>5, AllComing

LEMMA RefusedKeeps == ASSUME ResultsInv, Refused PROVE ResultsInv' /\ NewsKept'
<1>1. HubInv' /\ RefreshUnchanged
  BY HubUnchanged, RefreshVars DEF Refused, ResultsInv
<1>2. conn' = Stopped /\ Stopped \notin Conns
  BY PageAssumption DEF Refused, PageAssumption
<1>3. TypeOK'
  BY <1>1, <1>2 DEF Refused, ResultsInv, TypeOK, HubInv, RefreshUnchanged
<1>4. ResultsInv'
  BY <1>1, <1>2, <1>3 DEF Refused, ResultsInv, RefreshUnchanged
<1> QED
  BY <1>2, <1>4 DEF NewsKept

LEMMA LoseConnectionKeeps ==
  ASSUME ResultsInv, LoseConnection
  PROVE  ResultsInv' /\ NewsKept'
<1>1. HubInv' /\ RefreshUnchanged
  BY LoseKeeps, RefreshVars DEF LoseConnection, ResultsInv
<1>2. conn' = NoConn /\ NoConn \notin Conns
  BY PageAssumption DEF LoseConnection, PageAssumption
<1>3. TypeOK'
  BY <1>1, <1>2 DEF LoseConnection, ResultsInv, TypeOK, HubInv, RefreshUnchanged
<1>4. ResultsInv'
  BY <1>1, <1>2, <1>3 DEF LoseConnection, ResultsInv, RefreshUnchanged
<1>5. \A s : Coming(s)'
  BY <1>2, ComingPartsNext
<1> QED
  BY <1>4, <1>5, AllComing

-----------------------------------------------------------------------------
(* Changes *)

\* The notifications of an operation name every section it changes.
Fits(sections, msgs) ==
  /\ sections \in SUBSET Sections
  /\ msgs \in Seq(Messages) /\ msgs # <<>>
  /\ \A s \in sections : Asks(msgs, s)

LEMMA ChangedKeeps ==
  ASSUME ResultsInv, NEW h \in Handlers, NEW sections, NEW msgs,
         Fits(sections, msgs), Changed(h, sections, msgs)
  PROVE  ResultsInv' /\ (NewsKept => NewsKept')
<1>1. /\ changes' = changes + 1
      /\ shown' = shown \ sections
      /\ next' = [t \in Refreshes |-> next[t] \ sections]
      /\ todo' = todo /\ running' = running /\ serial' = serial
      /\ conn' = conn /\ losses' = losses
  BY DEF Changed
<1>2. changes' \in Nat
  BY <1>1 DEF ResultsInv, TypeOK
<1>3. next' \in [Refreshes -> SUBSET Sections] /\ shown' \subseteq Sections
  BY <1>1 DEF ResultsInv, TypeOK
<1>4. CASE Enqueue(h, msgs) /\ UNCHANGED <<alone, disturbed>>
  <2>1. /\ outbox[h] = <<>> /\ outbox' = [outbox EXCEPT ![h] = msgs]
        /\ hub' = hub /\ lost' = lost /\ loop' = loop /\ ch' = ch /\ wire' = wire
        /\ locked' = locked /\ left' = left
    BY <1>4 DEF Enqueue
  <2>2. HubInv'
    BY <1>4, EnqueueKeeps DEF ResultsInv, Fits
  <2>3. TypeOK'
    BY <1>1, <1>2, <1>3, <1>4, <2>2 DEF ResultsInv, TypeOK, HubInv
  <2>4. ~disturbed' => \A t \in running' : running' = {t} /\ shown' \subseteq todo'[t] \cup next'[t]
    BY <1>1, <1>4 DEF ResultsInv, TypeOK
  <2>5. ResultsInv'
    BY <1>1, <1>4, <2>1, <2>2, <2>3, <2>4 DEF ResultsInv
  <2>6. outbox'[h] = msgs /\ ~locked'[h]
    BY <2>1 DEF ResultsInv, HubInv, HubTypeOK
  <2>7. \A s \in sections : Announced(s)'
    BY <2>6 DEF Fits, Asks, Announced
  <2>8. \A s : Announced(s) => Announced(s)'
    <3>1. SUFFICES ASSUME NEW s, NEW k \in Handlers, NEW i \in DOMAIN outbox[k],
                          s \in outbox[k][i],
                          i > 1 \/ ~locked[k] \/ conn \in left[k]
                   PROVE  Announced(s)'
      BY DEF Announced
    <3>2. k # h
      <4>1. DOMAIN outbox[h] = {}
        BY <2>1
      <4> QED
        BY <3>1, <4>1
    <3>3. outbox'[k] = outbox[k]
      BY <2>1, <3>2 DEF ResultsInv, HubInv, HubTypeOK
    <3> QED
      BY <1>1, <2>1, <3>1, <3>3 DEF Announced
  <2>9. /\ \A s \in sections : Coming(s)'
        /\ \A s : Coming(s) => Coming(s)'
    BY <1>1, <2>1, <2>7, <2>8, ComingParts, ComingPartsNext
  <2>10. ASSUME NewsKept PROVE NewsKept'
    BY <1>1, <1>4, <2>9, <2>10
    DEF NewsKept, StaleSectionHasNews, BeingFetched, ResultsInv, TypeOK
  <2> QED
    BY <2>5, <2>10
<1>5. CASE Faulty /\ alone' = {} /\ disturbed' = TRUE /\ UNCHANGED hubVars
  <2>1. HubInv' /\ HubUnchangedByName
    BY <1>5, HubUnchanged, HubVars DEF ResultsInv
  <2>2. TypeOK'
    BY <1>1, <1>2, <1>3, <1>5, <2>1 DEF ResultsInv, TypeOK, HubInv
  <2>3. ResultsInv'
    BY <1>1, <1>5, <2>1, <2>2 DEF ResultsInv, HubUnchangedByName
  <2> QED
    BY <1>5, <2>3 DEF NewsKept, StaleSectionHasNews
<1> QED
  BY <1>4, <1>5 DEF Changed

\* The notifications of each operation fit what it changes.
LEMMA OneMessage == ASSUME NEW m \in Messages PROVE Fits(m, <<m>>)
<1>1. <<m>> \in Seq(Messages) /\ <<m>> # <<>>
  OBVIOUS
<1>2. DOMAIN <<m>> = {1} /\ <<m>>[1] = m
  OBVIOUS
<1> QED
  BY <1>1, <1>2, MessageSections DEF Fits, Asks

LEMMA ChangeFits ==
  ASSUME NEW h \in Handlers, ChangePoll(h) \/ CreateOwn(h) \/ CreatePublic(h)
  PROVE  \E sections, msgs : Fits(sections, msgs) /\ Changed(h, sections, msgs)
<1>1. CASE ChangePoll(h)
  <2>1. PICK sections \in (SUBSET Sections) \ {{}} : Changed(h, sections, <<ResultsMsg>>)
    BY <1>1 DEF ChangePoll
  <2>2. Fits(Sections, <<Sections>>)
    BY MessageSections, OneMessage
  <2>3. Fits(sections, <<ResultsMsg>>)
    BY <2>1, <2>2 DEF Fits, ResultsMsg
  <2> QED
    BY <2>1, <2>3
<1>2. CASE CreatePublic(h)
  BY <1>2, MessageSections, OneMessage DEF CreatePublic
<1>3. CASE CreateOwn(h)
  <2>1. CASE Changed(h, {"myCreated"}, <<{"myCreated"}>>)
    BY <2>1, MessageSections, OneMessage
  <2>2. CASE Changed(h, {"myCreated", "publicStats"}, <<{"myCreated"}, {"publicStats"}>>)
    <3> DEFINE msgs == <<{"myCreated"}, {"publicStats"}>>
    <3>1. msgs \in Seq(Messages) /\ msgs # <<>>
      BY MessageSections
    <3>2. DOMAIN msgs = 1 .. 2 /\ msgs[1] = {"myCreated"} /\ msgs[2] = {"publicStats"}
      OBVIOUS
    <3>3. Asks(msgs, "myCreated") /\ Asks(msgs, "publicStats")
      BY <3>2 DEF Asks
    <3>4. {"myCreated", "publicStats"} \in SUBSET Sections
      BY DEF Sections
    <3>5. Fits({"myCreated", "publicStats"}, msgs)
      BY <3>1, <3>3, <3>4 DEF Fits
    <3> QED
      BY <2>2, <3>5
  <2> QED
    BY <1>3, <2>1, <2>2 DEF CreateOwn
<1> QED
  BY <1>1, <1>2, <1>3

-----------------------------------------------------------------------------
(* The server and the page *)

LEMMA ServerStepKeeps ==
  ASSUME ResultsInv, Server
  PROVE  ResultsInv' /\ (NewsKept => NewsKept')
<1>1. /\ HubInv' /\ ServerStep
      /\ changes' = changes /\ shown' = shown /\ next' = next /\ todo' = todo
      /\ running' = running /\ serial' = serial /\ conn' = conn /\ losses' = losses
      /\ disturbed' = (disturbed \/ Drop) /\ alone' = IF Drop THEN {} ELSE alone
  BY ServerKeeps DEF Server, Drop, ResultsInv
<1>2. alone' \subseteq alone /\ disturbed' \in BOOLEAN /\ (~disturbed' => ~disturbed)
  BY <1>1 DEF ResultsInv, TypeOK
<1>3. TypeOK'
  BY <1>1, <1>2 DEF ResultsInv, TypeOK, HubInv
<1>4. conn \in Conns => conn \in hub' /\ conn \notin lost'
  BY <1>1 DEF ServerStep, WriteInitial, Forward, Leave, Discard, NotifyStart, NotifyEnd,
              NotifySend, ResultsInv
<1>5. ResultsInv'
  BY <1>1, <1>2, <1>3, <1>4 DEF ResultsInv
<1>6. ASSUME Drop PROVE NewsKept'
  BY <1>1, <1>6 DEF NewsKept, StaleSectionHasNews
<1>7. ASSUME NewsKept, ~Drop PROVE NewsKept'
  <2>1. CASE conn \in Conns
    <3>1. \A s \in Sections : Coming(s) => Coming(s)'
      BY <1>1, <1>7, <2>1, ComingMoves
    <3>2. UNCHANGED <<shown, refreshVars, conn>>
      <4>1. (disturbed' <=> disturbed) /\ alone' = alone
        BY <1>1, <1>7
      <4>2. disturbed' = disturbed
        BY <1>2, <4>1 DEF ResultsInv, TypeOK
      <4> QED
        BY <1>1, <4>1, <4>2 DEF refreshVars
    <3> QED
      BY <1>7, <3>1, <3>2, NewsStays
  <2>2. CASE conn = NoConn
    BY <1>1, <2>2, AllComing, ComingPartsNext
  <2>3. CASE conn = Stopped
    BY <1>1, <2>3 DEF NewsKept
  <2> QED
    BY <2>1, <2>2, <2>3 DEF ResultsInv, TypeOK
<1> QED
  BY <1>5, <1>6, <1>7

LEMMA ResultsNext ==
  ASSUME ResultsInv, Next
  PROVE  ResultsInv' /\ (NewsKept => NewsKept')
BY HandleEventKeeps, LoadAllOnceKeeps, FetchKeeps, ShowKeeps, FailKeeps, ConnectKeeps,
   RefusedKeeps, LoseConnectionKeeps, ChangeFits, ChangedKeeps, ServerStepKeeps DEF Next

LEMMA ResultsStutter ==
  ASSUME ResultsInv, UNCHANGED vars
  PROVE  ResultsInv' /\ (NewsKept => NewsKept')
<1>1. HubInv' /\ HubUnchangedByName /\ PageUnchanged
  BY HubUnchanged, HubVars, PageVars DEF ResultsInv, vars
<1>2. TypeOK'
  BY <1>1 DEF ResultsInv, TypeOK, HubInv, PageUnchanged
<1>3. ResultsInv'
  BY <1>1, <1>2 DEF ResultsInv, HubUnchangedByName, PageUnchanged
<1>4. NewsKept => NewsKept'
  BY <1>1 DEF NewsKept, StaleSectionHasNews, BeingFetched, Coming, HubUnchangedByName,
              PageUnchanged
<1> QED
  BY <1>3, <1>4

-----------------------------------------------------------------------------
(* The theorems *)

\* The state behind the page's promises holds always.
THEOREM ResultsInductive == Spec => []ResultsInv
<1>1. Init => ResultsInv
  BY ResultsStart
<1>2. ResultsInv /\ [Next]_vars => ResultsInv'
  BY ResultsNext, ResultsStutter
<1> QED
  BY <1>1, <1>2, PTL DEF Spec

\* No message is sent on a closed channel (sse_hub.go).
THEOREM ResultsSendsSafe == Spec => []NoSendOnClosed
<1>1. ResultsInv => NoSendOnClosed
  BY HubInvSafe DEF ResultsInv
<1> QED
  BY <1>1, ResultsInductive, PTL

\* The state behind StaleSectionHasNews holds always, whatever the buffer.
THEOREM NewsInductive == Spec => []NewsInv
<1>1. Init => NewsInv
  <2>1. Init => NewsKept
    BY DEF Init, NewsKept, StaleSectionHasNews, Coming
  <2> QED
    BY <2>1, ResultsStart DEF NewsInv
<1>2. NewsInv /\ [Next]_vars => NewsInv'
  BY ResultsNext, ResultsStutter DEF NewsInv
<1> QED
  BY <1>1, <1>2, PTL DEF Spec

\* A section that is not current is about to be refreshed, unless refreshes have
\* overlapped or failed, a change was not announced, its only message was dropped,
\* or the stream was refused (app.js, connectResultsSSE; sse_hub.go, the notifies).
THEOREM ResultsNews == Spec => []StaleSectionHasNews
<1>1. NewsInv => StaleSectionHasNews
  BY DEF NewsInv, NewsKept, StaleSectionHasNews
<1> QED
  BY <1>1, NewsInductive, PTL
================================================================================
