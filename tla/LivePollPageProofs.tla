-------------------------- MODULE LivePollPageProofs --------------------------
(***************************************************************************)
(* What holds of the poll page for any number of connections, handlers and *)
(* loads, any sizes of the buffers, and with or without faults.            *)
(***************************************************************************)
EXTENDS LivePollPage, SSEHubProofs

\* The variables a step of the hub leaves alone, and the other way round, by name.
PageUnchanged ==
  /\ version' = version /\ gone' = gone /\ shown' = shown /\ load' = load
  /\ loadQueued' = loadQueued /\ conn' = conn /\ missed' = missed /\ losses' = losses

LEMMA PageVars == UNCHANGED pageVars <=> PageUnchanged
BY DEF pageVars, PageUnchanged

HubUnchangedByName ==
  /\ hub' = hub /\ loop' = loop /\ ch' = ch /\ wire' = wire /\ lost' = lost
  /\ outbox' = outbox /\ locked' = locked /\ left' = left

LEMMA HubVars == UNCHANGED hubVars <=> HubUnchangedByName
BY DEF hubVars, HubUnchangedByName

LEMMA FirstLoadIn == FirstLoad \in Loads
BY PageAssumption DEF PageAssumption, FirstLoad

-----------------------------------------------------------------------------
(* Loads *)

\* Every load that is not running is NoLoad, so only FirstLoad ever runs.
LEMMA OnlyFirst ==
  ASSUME PageInv, NEW l \in Loads, load[l].state # "none"
  PROVE  l = FirstLoad
BY DEF PageInv, NoLoad

\* Asking for a load leaves a load under way, and never touches an answer.
LEMMA LoadEffect ==
  ASSUME PageInv, Load
  PROVE  /\ load' \in [Loads -> LoadStates] /\ loadQueued' \in BOOLEAN
         /\ \A l \in Loads \ {FirstLoad} : load'[l] = NoLoad
         /\ \A l \in Loads : load'[l].state = "read" => load'[l] = load[l]
         /\ loadQueued' \/ \E l \in Loads : load'[l].state = "sent"
<1> USE FirstLoadIn
<1>1. CASE LoadInFlight
  BY <1>1 DEF Load, PageInv, TypeOK
<1>2. CASE ~LoadInFlight
  BY <1>2 DEF Load, Send, PageInv, TypeOK, LoadStates
<1> QED
  BY <1>1, <1>2

\* The end of a load starts the one that was asked for meanwhile.
LEMMA SettledEffect ==
  ASSUME PageInv, NEW l \in Loads, load[l].state # "none", Settled(l)
  PROVE  /\ load' \in [Loads -> LoadStates] /\ loadQueued' = FALSE
         /\ \A k \in Loads \ {FirstLoad} : load'[k] = NoLoad
         /\ \A k \in Loads : load'[k].state # "read"
         /\ loadQueued => \E k \in Loads : load'[k].state = "sent"
<1>1. l = FirstLoad
  BY OnlyFirst
<1>2. CASE loadQueued
  BY <1>1, <1>2 DEF Settled, Send, NoLoad, PageInv, TypeOK, LoadStates
<1>3. CASE ~loadQueued
  BY <1>1, <1>3 DEF Settled, NoLoad, PageInv, TypeOK, LoadStates
<1> QED
  BY <1>2, <1>3

-----------------------------------------------------------------------------
(* The invariant *)

LEMMA PageStart == Init => PageInv
<1> SUFFICES ASSUME Init PROVE PageInv
  OBVIOUS
<1>1. HubInv
  BY HubStart DEF Init
<1>2. TypeOK
  <2>1. [l \in Loads |-> NoLoad] \in [Loads -> LoadStates]
    BY DEF LoadStates, NoLoad
  <2>2. HubTypeOK /\ 1 \in Nat \ {0} /\ 0 \in Nat
    BY <1>1 DEF HubInv
  <2> QED
    BY <2>1, <2>2, Zenon DEF Init, TypeOK
<1>3. conn \notin Conns
  BY PageAssumption DEF PageAssumption, Init
<1>4. ShownBehind /\ StalePageHasNews
  BY DEF Init, ShownBehind, NoLoad, StalePageHasNews, NewsUnderWay
<1> QED
  BY <1>1, <1>2, <1>3, <1>4, FirstLoadIn DEF PageInv, Init

LEMMA LoadPageKeeps == ASSUME PageInv, LoadPage PROVE PageInv'
<1>1. HubInv'
  BY HubUnchanged DEF PageInv, LoadPage
<1>2. HubUnchangedByName
  BY HubVars DEF LoadPage
<1>3. Load
  BY DEF LoadPage
<1>4. TypeOK'
  BY <1>1, <1>3, LoadEffect DEF LoadPage, PageInv, TypeOK, HubInv
<1>5. ShownBehind'
  BY <1>3, LoadEffect DEF LoadPage, PageInv, ShownBehind
<1>6. StalePageHasNews'
  BY <1>3, LoadEffect DEF LoadPage, StalePageHasNews, NewsUnderWay
<1> QED
  BY <1>1, <1>2, <1>3, <1>4, <1>5, <1>6, LoadEffect
  DEF PageInv, LoadPage, HubUnchangedByName

LEMMA HandleEventKeeps == ASSUME PageInv, HandleEvent PROVE PageInv'
<1>1. HubInv'
  BY TakeKeeps DEF PageInv, HandleEvent
<1>2. Load /\ hub' = hub /\ lost' = lost
  BY DEF HandleEvent, Take
<1>3. TypeOK'
  BY <1>1, <1>2, LoadEffect DEF HandleEvent, PageInv, TypeOK, HubInv
<1>4. ShownBehind'
  BY <1>2, LoadEffect DEF HandleEvent, PageInv, ShownBehind
<1>5. StalePageHasNews'
  BY <1>2, LoadEffect DEF StalePageHasNews, NewsUnderWay
<1> QED
  BY <1>1, <1>2, <1>3, <1>4, <1>5, LoadEffect DEF PageInv, HandleEvent

LEMMA ReadPollKeeps == ASSUME PageInv, NEW l \in Loads, ReadPoll(l) PROVE PageInv'
<1>1. HubInv'
  BY HubUnchanged DEF PageInv, ReadPoll
<1>2. HubUnchangedByName
  BY HubVars DEF ReadPoll
<1>3. l = FirstLoad
  BY OnlyFirst DEF ReadPoll
<1>4. \/ gone /\ load' = [load EXCEPT ![l] = [state |-> "missing", got |-> 0]]
      \/ ~gone /\ load' = [load EXCEPT ![l] = [state |-> "read", got |-> version]]
  BY DEF ReadPoll
<1>5. TypeOK'
  BY <1>1, <1>4 DEF ReadPoll, PageInv, TypeOK, HubInv, LoadStates
<1>6. ShownBehind'
  BY <1>4 DEF ReadPoll, PageInv, TypeOK, ShownBehind
<1>7. StalePageHasNews'
  BY <1>4 DEF ReadPoll, PageInv, TypeOK, StalePageHasNews, NewsUnderWay
<1> QED
  BY <1>1, <1>2, <1>3, <1>4, <1>5, <1>6, <1>7
  DEF PageInv, TypeOK, ReadPoll, HubUnchangedByName

\* The answer that is shown is the poll's current version, or there is still
\* something else under way.
LEMMA LoadedKeeps == ASSUME PageInv, NEW l \in Loads, Loaded(l) PROVE PageInv'
<1>1. HubInv'
  BY HubUnchanged DEF PageInv, Loaded
<1>2. HubUnchangedByName
  BY HubVars DEF Loaded
<1>3. l = FirstLoad /\ Settled(l) /\ load[l].state # "none"
  BY OnlyFirst DEF Loaded
<1>4. load[l].got \in Nat /\ shown <= load[l].got /\ load[l].got <= version
  BY DEF Loaded, PageInv, TypeOK, LoadStates, ShownBehind
<1>5. TypeOK'
  BY <1>1, <1>3, <1>4, SettledEffect DEF Loaded, PageInv, TypeOK, HubInv
<1>6. ShownBehind'
  BY <1>3, <1>4, SettledEffect DEF Loaded, ShownBehind
<1>7. StalePageHasNews'
  <2>1. CASE load[l].got = version
    BY <2>1 DEF Loaded, StalePageHasNews
  <2>2. CASE load[l].got # version
    <3>1. shown # version
      BY <2>2, <1>4 DEF PageInv, TypeOK
    <3>2. \A k \in Loads : /\ load[k].state # "sent"
                           /\ ~(load[k].state = "read" /\ load[k].got = version)
      BY <2>2, <1>3, OnlyFirst DEF Loaded
    <3>3. missed' = missed
      BY <2>2 DEF Loaded, PageInv, TypeOK
    <3>4. gone \/ missed \/ conn = Stopped \/ NewsUnderWay
      BY <3>1 DEF PageInv, StalePageHasNews
    <3>5. loadQueued => \E k \in Loads : load'[k].state = "sent"
      BY <1>3, SettledEffect
    <3> QED
      BY <3>2, <3>3, <3>4, <3>5, <1>2
      DEF Loaded, HubUnchangedByName, StalePageHasNews, NewsUnderWay
  <2> QED
    BY <2>1, <2>2
<1> QED
  BY <1>1, <1>2, <1>3, <1>5, <1>6, <1>7, SettledEffect
  DEF PageInv, Loaded, HubUnchangedByName

LEMMA LoadFailedKeeps == ASSUME PageInv, NEW l \in Loads, LoadFailed(l) PROVE PageInv'
<1>1. HubInv'
  BY HubUnchanged DEF PageInv, LoadFailed
<1>2. HubUnchangedByName
  BY HubVars DEF LoadFailed
<1>3. Settled(l) /\ load[l].state # "none"
  BY DEF LoadFailed
<1>4. TypeOK'
  BY <1>1, <1>3, SettledEffect DEF LoadFailed, PageInv, TypeOK, HubInv
<1>5. ShownBehind'
  BY <1>3, SettledEffect DEF LoadFailed, PageInv, ShownBehind
<1>6. StalePageHasNews'
  BY DEF LoadFailed, StalePageHasNews
<1> QED
  BY <1>1, <1>2, <1>3, <1>4, <1>5, <1>6, SettledEffect
  DEF PageInv, LoadFailed, HubUnchangedByName

-----------------------------------------------------------------------------
(* The connection *)

LEMMA ConnectKeeps == ASSUME PageInv, NEW c \in Conns, Connect(c) PROVE PageInv'
<1>1. HubInv' /\ Add(c) /\ conn' = c
  BY AddKeeps DEF PageInv, Connect
<1>2. c \in hub' /\ lost' = lost /\ loop'[c] = "added"
  BY <1>1 DEF Add, Added, PageInv, HubInv, HubTypeOK
<1>3. c \notin lost
  BY <1>1 DEF Add, PageInv, HubInv, HubTypeOK
<1>4. TypeOK'
  BY <1>1 DEF Connect, PageInv, TypeOK, HubInv
<1>5. ShownBehind'
  BY DEF Connect, PageInv, ShownBehind
<1>6. StalePageHasNews'
  BY <1>1, <1>2 DEF StalePageHasNews, NewsUnderWay
<1> QED
  BY <1>1, <1>2, <1>3, <1>4, <1>5, <1>6 DEF PageInv, Connect

LEMMA RefusedKeeps == ASSUME PageInv, Refused PROVE PageInv'
<1>1. HubInv'
  BY HubUnchanged DEF PageInv, Refused
<1>2. conn' = Stopped /\ Stopped \notin Conns
  BY PageAssumption DEF Refused, PageAssumption
<1>3. TypeOK'
  BY <1>1, <1>2 DEF Refused, PageInv, TypeOK, HubInv
<1>4. ShownBehind'
  BY DEF Refused, PageInv, ShownBehind
<1>5. StalePageHasNews'
  BY <1>2 DEF StalePageHasNews
<1> QED
  BY <1>1, <1>2, <1>3, <1>4, <1>5 DEF PageInv, Refused

LEMMA LoseConnectionKeeps == ASSUME PageInv, LoseConnection PROVE PageInv'
<1>1. HubInv'
  BY LoseKeeps DEF PageInv, LoseConnection
<1>2. conn' = NoConn /\ NoConn \notin Conns
  BY PageAssumption DEF LoseConnection, PageAssumption
<1>3. TypeOK'
  BY <1>1, <1>2 DEF LoseConnection, PageInv, TypeOK, HubInv
<1>4. ShownBehind'
  BY DEF LoseConnection, PageInv, ShownBehind
<1>5. StalePageHasNews'
  BY <1>2 DEF StalePageHasNews, NewsUnderWay
<1> QED
  BY <1>1, <1>2, <1>3, <1>4, <1>5 DEF PageInv, LoseConnection

-----------------------------------------------------------------------------
(* Changes of the poll *)

\* A change is about to be announced, or is one that is not.
LEMMA NotifiedEffect ==
  ASSUME PageInv, NEW h \in Handlers, Notified(h)
  PROVE  /\ HubInv' /\ hub' = hub /\ lost' = lost /\ missed' \in BOOLEAN
         /\ missed => missed'
         /\ missed' \/ (outbox'[h] # <<>> /\ ~locked'[h])
<1>1. CASE Enqueue(h, <<InitialMsg>>) /\ UNCHANGED missed
  <2>1. <<InitialMsg>> \in Seq(Messages) /\ <<InitialMsg>> # <<>>
    BY HubAssumption, SMT DEF HubAssumption
  <2>2. HubInv'
    BY <1>1, <2>1, EnqueueKeeps DEF PageInv
  <2>3. ~locked[h]
    BY <1>1 DEF Enqueue, PageInv, HubInv
  <2> QED
    BY <1>1, <2>1, <2>2, <2>3 DEF Enqueue, PageInv, HubInv, HubTypeOK, TypeOK
<1>2. CASE Faulty /\ UNCHANGED hubVars /\ missed' = TRUE
  <2>1. HubUnchangedByName
    BY <1>2, HubVars
  <2> QED
    BY <1>2, <2>1, HubUnchanged DEF PageInv, HubUnchangedByName
<1> QED
  BY <1>1, <1>2 DEF Notified

LEMMA ChangeKeeps == ASSUME PageInv, NEW h \in Handlers, Change(h) PROVE PageInv'
<1>1. Notified(h)
  BY DEF Change
<1>2. TypeOK'
  BY <1>1, NotifiedEffect DEF Change, PageInv, TypeOK, HubInv
<1>3. ShownBehind'
  <2>1. version \in Nat /\ shown \in Nat /\ version' = version + 1 /\ shown' = shown
        /\ load' = load
    BY DEF Change, PageInv, TypeOK
  <2>2. \A l \in Loads : load[l].got \in Nat
    BY DEF PageInv, TypeOK, LoadStates
  <2> QED
    BY <2>1, <2>2 DEF PageInv, ShownBehind
<1>4. StalePageHasNews'
  BY <1>1, NotifiedEffect DEF StalePageHasNews, NewsUnderWay
<1> QED
  BY <1>1, <1>2, <1>3, <1>4, NotifiedEffect DEF PageInv, Change

LEMMA DeleteKeeps == ASSUME PageInv, NEW h \in Handlers, Delete(h) PROVE PageInv'
<1>1. Notified(h)
  BY DEF Delete
<1>2. TypeOK'
  BY <1>1, NotifiedEffect DEF Delete, PageInv, TypeOK, HubInv
<1>3. ShownBehind'
  BY DEF Delete, PageInv, ShownBehind
<1>4. StalePageHasNews'
  BY DEF Delete, StalePageHasNews
<1> QED
  BY <1>1, <1>2, <1>3, <1>4, NotifiedEffect DEF PageInv, Delete

-----------------------------------------------------------------------------
(* The server's own steps: news changes its place but is not lost *)

\* The hub does not know of anything, unless there is some of it here.
HubNews ==
  \/ \E h \in Handlers : outbox[h] # <<>> /\ (~locked[h] \/ conn \in left[h])
  \/ loop[conn] = "added" \/ ch[conn] # <<>> \/ wire[conn] # <<>>

\* The connection of the page stays in the hub, and so does what is on its way.
LEMMA NewsMoves ==
  ASSUME PageInv, conn \in Conns, ServerStep, conn' = conn
  PROVE  /\ conn \in hub' /\ conn \notin lost'
         /\ HubNews => HubNews'
<1> USE DEF PageInv, HubInv, HubTypeOK, HubNews
<1>1. ASSUME NEW c \in Conns, WriteInitial(c)
      PROVE  conn \in hub' /\ conn \notin lost' /\ (HubNews => HubNews')
  <2>1. /\ Append(wire[c], InitialMsg) # <<>>
    BY AppendOf, HubAssumption DEF HubAssumption
  <2> QED
    BY <1>1, <2>1 DEF WriteInitial
<1>2. ASSUME NEW c \in Conns, Forward(c)
      PROVE  conn \in hub' /\ conn \notin lost' /\ (HubNews => HubNews')
  <2>1. Head(ch[c]) \in Messages
    BY <1>2, TailOf DEF Forward
  <2>2. Append(wire[c], Head(ch[c])) # <<>>
    BY <2>1, AppendOf
  <2> QED
    BY <1>2, <2>2 DEF Forward
<1>3. ASSUME NEW c \in Conns, Leave(c)
      PROVE  conn \in hub' /\ conn \notin lost' /\ (HubNews => HubNews')
  <2>1. c # conn
    BY <1>3 DEF Leave
  <2> QED
    BY <1>3, <2>1 DEF Leave, Discard
<1>4. ASSUME NEW h \in Handlers, NotifyStart(h)
      PROVE  conn \in hub' /\ conn \notin lost' /\ (HubNews => HubNews')
  BY <1>4 DEF NotifyStart
<1>5. ASSUME NEW h \in Handlers, NotifyEnd(h)
      PROVE  conn \in hub' /\ conn \notin lost' /\ (HubNews => HubNews')
  BY <1>5 DEF NotifyEnd
<1>6. ASSUME NEW h \in Handlers, NEW c \in Conns, NotifySend(h, c)
      PROVE  conn \in hub' /\ conn \notin lost' /\ (HubNews => HubNews')
  <2>1. Head(outbox[h]) \in Messages
    BY <1>6, TailOf DEF NotifySend
  <2>2. Offered(c, Head(outbox[h])) # <<>>
    BY <2>1, OfferedIn
  <2> QED
    BY <1>6, <2>2 DEF NotifySend
<1> QED
  BY <1>1, <1>2, <1>3, <1>4, <1>5, <1>6 DEF ServerStep

LEMMA ServerStepKeeps == ASSUME PageInv, ServerStep, UNCHANGED pageVars PROVE PageInv'
<1>1. HubInv'
  BY ServerKeeps DEF PageInv
<1>2. PageUnchanged
  BY PageVars
<1>3. TypeOK'
  BY <1>1, <1>2 DEF PageUnchanged, PageInv, TypeOK, HubInv
<1>4. ShownBehind'
  BY <1>2 DEF PageUnchanged, PageInv, ShownBehind
<1>5. conn \in Conns => conn \in hub' /\ conn \notin lost' /\ (HubNews => HubNews')
  BY <1>2, NewsMoves DEF PageUnchanged
<1>6. StalePageHasNews'
  <2>1. CASE conn \in Conns
    BY <1>2, <1>5, <2>1
    DEF PageUnchanged, PageInv, StalePageHasNews, NewsUnderWay, HubNews
  <2>2. CASE conn \in {NoConn, Stopped}
    BY <1>2, <2>2 DEF PageUnchanged, StalePageHasNews, NewsUnderWay
  <2> QED
    BY <2>1, <2>2 DEF PageInv, TypeOK
<1> QED
  BY <1>1, <1>2, <1>3, <1>4, <1>5, <1>6 DEF PageInv, PageUnchanged

-----------------------------------------------------------------------------
(* The theorems *)

LEMMA PageStep == ASSUME PageInv, [Next]_vars PROVE PageInv'
<1>1. CASE Next
  BY <1>1, LoadPageKeeps, HandleEventKeeps, ReadPollKeeps, LoadedKeeps, LoadFailedKeeps,
     ConnectKeeps, RefusedKeeps, LoseConnectionKeeps, ChangeKeeps, DeleteKeeps,
     ServerStepKeeps DEF Next
<1>2. CASE UNCHANGED vars
  <2>1. HubUnchangedByName /\ PageUnchanged
    BY <1>2, HubVars, PageVars DEF vars
  <2>2. HubInv'
    BY <1>2, HubUnchanged DEF PageInv, vars
  <2> QED
    BY <2>1, <2>2 DEF PageInv, TypeOK, HubInv, ShownBehind, StalePageHasNews,
                      NewsUnderWay, HubUnchangedByName, PageUnchanged
<1> QED
  BY <1>1, <1>2

\* The state behind the page's promises holds always.
THEOREM PageInductive == Spec => []PageInv
<1>1. Init => PageInv
  BY PageStart
<1>2. PageInv /\ [Next]_vars => PageInv'
  BY PageStep
<1> QED
  BY <1>1, <1>2, PTL DEF Spec

\* No message is sent on a closed channel, whatever clients come and go while
\* any number of handlers notify (sse_hub.go).
THEOREM PageSendsSafe == Spec => []NoSendOnClosed
<1>1. PageInv => NoSendOnClosed
  BY HubInvSafe DEF PageInv
<1> QED
  BY <1>1, PageInductive, PTL

\* A page that is not current will load again, or a load failed, a change was not
\* announced, or its stream was refused (app.js, connectPollSSE and load).
THEOREM PageNews == Spec => []StalePageHasNews
<1>1. PageInv => StalePageHasNews
  BY DEF PageInv
<1> QED
  BY <1>1, PageInductive, PTL

\* What the page shows never goes back to an older state of the poll.
THEOREM PageForward == Spec => PageNeverGoesBack
<1>1. PageInv /\ [Next]_vars => [shown' >= shown]_vars
  <2> SUFFICES ASSUME PageInv, Next PROVE shown' >= shown
    OBVIOUS
  <2>1. shown \in Nat
    BY DEF PageInv, TypeOK
  <2>2. ASSUME NEW l \in Loads, Loaded(l) PROVE shown' >= shown
    <3>1. load[l].got \in Nat /\ shown <= load[l].got /\ shown' = load[l].got
      BY <2>2 DEF Loaded, PageInv, TypeOK, LoadStates, ShownBehind
    <3> QED
      BY <2>1, <3>1
  <2>3. ASSUME ~(\E l \in Loads : Loaded(l)) PROVE shown' = shown
    BY <2>3 DEF Next, LoadPage, HandleEvent, ReadPoll, LoadFailed, Connect, Refused,
                LoseConnection, Change, Delete, pageVars
  <2> QED
    BY <2>1, <2>2, <2>3
<1> QED
  BY <1>1, PageInductive, PTL DEF Spec, PageNeverGoesBack
=============================================================================
