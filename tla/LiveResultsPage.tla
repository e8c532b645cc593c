--------------------------- MODULE LiveResultsPage ---------------------------
(***************************************************************************)
(* The results page of the web client (src/web/static/app.js): three       *)
(* sections, each fetched from a list of its own, refreshed by the events  *)
(* of the httpserver process the page is connected to.                     *)
(*                                                                         *)
(* Of a section's data only matters whether it is what the store holds: a  *)
(* payload is the set of its current sections, and a change of a list      *)
(* takes its section out of every payload there is.  An event names the    *)
(* sections to fetch; the page copies what it shows, fetches into the      *)
(* copy, and shows the copy when the last answer has come.  Nothing keeps  *)
(* two such refreshes apart.  (The load of everything fetches the sections *)
(* one after the other; a refresh fetches its own at the same time.)       *)
(***************************************************************************)
EXTENDS SSEHub

CONSTANTS
  Refreshes,    \* refreshes that can be under way at once
  NoConn,       \* the page has no connection, and its EventSource tries again
  Stopped,      \* it has none, and its EventSource has given up
  MaxEvents,    \* bound on the changes and the connections that break, for TLC
  Faulty        \* fetches fail, and changes go without notification

Sections == {"myVotes", "publicStats", "myCreated"}

ASSUME PageAssumption ==
  /\ MaxEvents \in Nat /\ Faulty \in BOOLEAN
  /\ NoConn # Stopped /\ {NoConn, Stopped} \cap Conns = {}
  /\ Messages = (SUBSET Sections) \ {{}} /\ InitialMsg = Sections

VARIABLES
  changes,     \* changes so far
  shown,       \* currentPayload: the sections that are current on the page
  next,        \* nextPayload of each refresh
  todo,        \* the sections it has still to be answered
  running,     \* refreshes that have not assigned currentPayload yet
  serial,      \* those that fetch one section after the other
  alone,       \* refreshes of every section that nothing has disturbed so far
  disturbed,   \* since the last such refresh was shown, two have overlapped,
               \* one has failed, a change went unannounced, or a message that
               \* named a section alone was dropped
  conn,        \* the page's connection
  losses       \* connections broken so far

pageVars ==
  <<changes, shown, next, todo, running, serial, alone, disturbed, conn, losses>>
refreshVars == <<next, todo, running, serial, alone, disturbed>>
vars == <<hubVars, pageVars>>

\* Every variable holds a value of its type.
TypeOK ==
  /\ HubTypeOK
  /\ shown \subseteq Sections
  /\ next \in [Refreshes -> SUBSET Sections]
  /\ todo \in [Refreshes -> SUBSET Sections]
  /\ serial \subseteq running /\ alone \subseteq running
  /\ running \subseteq Refreshes
  /\ disturbed \in BOOLEAN
  /\ conn \in Conns \cup {NoConn, Stopped}
  /\ losses \in Nat /\ changes \in Nat

Init ==
  /\ HubInit
  /\ changes = 0
  /\ shown = {}
  /\ next = [t \in Refreshes |-> {}]
  /\ todo = [t \in Refreshes |-> {}]
  /\ running = {}
  /\ serial = {} /\ alone = {}
  /\ disturbed = FALSE
  /\ conn = NoConn
  /\ losses = 0

-----------------------------------------------------------------------------
(* A refresh: start, one answer per section, and the assignment at the end *)

\* Mutant: the copy is made of nothing, so that sections not asked for are lost.
CopiedEmpty == {}

\* { ...currentPayload }
Copied == shown

Start(t, sections) ==
  /\ t \notin running
  /\ next' = [next EXCEPT ![t] = Copied]
  /\ todo' = [todo EXCEPT ![t] = sections]
  /\ running' = running \cup {t}
  /\ alone' = IF running = {} /\ sections = Sections THEN {t} ELSE {}
  /\ disturbed' = (disturbed \/ running # {})

\* loadAllOnce awaits myVotes, then publicStats, then myCreated.
Before(s) == CASE s = "myVotes" -> {} [] s = "publicStats" -> {"myVotes"}
               [] s = "myCreated" -> {"myVotes", "publicStats"}

\* The server answers one of the fetches with what the store holds.
Fetch(t, s) ==
  /\ s \in todo[t]
  /\ t \in serial => todo[t] \cap Before(s) = {}
  /\ next' = [next EXCEPT ![t] = @ \cup {s}]
  /\ todo' = [todo EXCEPT ![t] = @ \ {s}]
  /\ UNCHANGED <<hubVars, changes, shown, running, serial, alone, disturbed,
                 conn, losses>>

\* The refresh is over; nothing looks at its payload any more.
Over(t) ==
  /\ running' = running \ {t}
  /\ serial' = serial \ {t}
  /\ alone' = alone \ {t}
  /\ next' = [next EXCEPT ![t] = {}]
  /\ todo' = [todo EXCEPT ![t] = {}]
  /\ UNCHANGED <<hubVars, changes, conn, losses>>

\* The last await is over: currentPayload = nextPayload.
Show(t) ==
  /\ t \in running
  /\ todo[t] = {}
  /\ shown' = next[t]
  /\ disturbed' = (disturbed /\ t \notin alone)
  /\ Over(t)

\* One of the fetches fails: the refresh is given up.
Fail(t) ==
  /\ Faulty
  /\ t \in running
  /\ todo[t] # {}
  /\ disturbed' = TRUE
  /\ UNCHANGED shown
  /\ Over(t)

\* The listener of invalidate.
HandleEvent ==
  /\ conn \in Conns
  /\ wire[conn] # <<>>
  /\ \E t \in Refreshes : Start(t, Head(wire[conn]))
  /\ Take(conn)
  /\ UNCHANGED <<changes, shown, serial, conn, losses>>

\* loadAllOnce, when the page opens or the user asks: every section anew.
LoadAllOnce ==
  /\ \E t \in Refreshes : Start(t, Sections) /\ serial' = serial \cup {t}
  /\ UNCHANGED <<hubVars, changes, shown, conn, losses>>

-----------------------------------------------------------------------------
(* The connection *)

Connect(c) ==
  /\ conn = NoConn
  /\ Add(c)
  /\ conn' = c
  /\ UNCHANGED <<changes, shown, refreshVars, losses>>

\* An answer other than 200, such as the rate limiter's 429 or a proxy's 503,
\* ends the EventSource for good.
Refused ==
  /\ Faulty
  /\ conn = NoConn
  /\ conn' = Stopped
  /\ UNCHANGED <<hubVars, changes, shown, refreshVars, losses>>

LoseConnection ==
  /\ conn \in Conns
  /\ changes + losses < MaxEvents
  /\ Lose(conn)
  /\ conn' = NoConn
  /\ losses' = losses + 1
  /\ UNCHANGED <<changes, shown, refreshVars>>

-----------------------------------------------------------------------------
(* Operations served by this process, and the notifications they end with *)

Changed(h, sections, msgs) ==
  /\ changes + losses < MaxEvents
  /\ changes' = changes + 1
  /\ shown' = shown \ sections
  /\ next' = [t \in Refreshes |-> next[t] \ sections]
  /\ outbox[h] = <<>>
  /\ \/ Enqueue(h, msgs) /\ UNCHANGED <<alone, disturbed>>
     \/ Faulty /\ alone' = {} /\ disturbed' = TRUE /\ UNCHANGED hubVars
  /\ UNCHANGED <<todo, running, serial, conn, losses>>

\* Mutant: the message names no section.
ResultsMsgEmpty == {}

\* Mutant: the notification names one section only.
ResultsMsgNarrow == {"publicStats"}

\* notifyResultsInvalidate names every section.
ResultsMsg == Sections

\* Vote, UndoVote, ClosePoll, DeletePoll: the poll may be in any of the lists.
ChangePoll(h) ==
  \E sections \in (SUBSET Sections) \ {{}} : Changed(h, sections, <<ResultsMsg>>)

\* CreatePoll by the user of this page: notifyUser, then broadcast when public.
CreateOwn(h) ==
  \/ Changed(h, {"myCreated"}, <<{"myCreated"}>>)
  \/ Changed(h, {"myCreated", "publicStats"}, <<{"myCreated"}, {"publicStats"}>>)

\* CreatePoll of a public poll by someone else.
CreatePublic(h) == Changed(h, {"publicStats"}, <<{"publicStats"}>>)

-----------------------------------------------------------------------------
(* The process, and what its full channels cost the page *)

\* Message m is dropped on the page's full channel, and names a section that
\* none of the messages queued there names.
LosesNews(m) ==
  /\ Len(ch[conn]) = BufferSize
  /\ ~(m \subseteq UNION {ch[conn][i] : i \in DOMAIN ch[conn]})

Server ==
  /\ ServerStep
  /\ LET dropped == \E h \in Handlers : NotifySend(h, conn) /\ LosesNews(Head(outbox[h]))
     IN  /\ disturbed' = (disturbed \/ dropped)
         /\ alone' = IF dropped THEN {} ELSE alone
  /\ UNCHANGED <<changes, shown, next, todo, running, serial, conn, losses>>

-----------------------------------------------------------------------------

Next ==
  \/ HandleEvent
  \/ LoadAllOnce
  \/ \E t \in Refreshes : Show(t) \/ Fail(t) \/ (\E s \in Sections : Fetch(t, s))
  \/ \E c \in Conns : Connect(c)
  \/ Refused
  \/ LoseConnection
  \/ \E h \in Handlers : ChangePoll(h) \/ CreateOwn(h) \/ CreatePublic(h)
  \/ Server

Spec == Init /\ [][Next]_vars

\* As for the poll page: everything but users is fair.
FairSpec ==
  /\ Spec
  /\ ServerFairness
  /\ WF_vars(Refused \/ \E c \in Conns : Connect(c))
  /\ WF_vars(HandleEvent)
  /\ \A t \in Refreshes : WF_vars(Show(t)) /\ WF_vars(\E s \in Sections : Fetch(t, s))

-----------------------------------------------------------------------------
(* Properties *)

\* A message that asks for section s is still on its way to the page.
Coming(s) ==
  \/ conn = NoConn
  \/ loop[conn] = "added"
  \/ \E i \in DOMAIN ch[conn] : s \in ch[conn][i]
  \/ \E i \in DOMAIN wire[conn] : s \in wire[conn][i]
  \/ \E h \in Handlers : \E i \in DOMAIN outbox[h] :
       s \in outbox[h][i] /\ (i > 1 \/ ~locked[h] \/ conn \in left[h])

\* A running refresh will fetch section s or has its current data.
BeingFetched(s) == \E t \in running : s \in todo[t] \cup next[t]

\* However changes, connections and refreshes interleave, a section that is not
\* current is about to be refreshed.  Excepted are a page whose refreshes have
\* overlapped or failed, that a change was not announced to, or whose full channel
\* has dropped the only message naming a section, until everything is fetched once
\* undisturbed, and a page whose event stream has ended for good (app.js,
\* connectResultsSSE; http.go, notifyResultsInvalidate; sse_hub.go, the notifies).
StaleSectionHasNews ==
  \/ disturbed \/ conn = Stopped
  \/ \A s \in Sections : s \in shown \/ Coming(s) \/ BeingFetched(s)

\* The same for the refresh of every section that nothing has disturbed: what it
\* will show is current, or about to be refreshed again.
NewsKept ==
  \/ conn = Stopped
  \/ /\ StaleSectionHasNews
     /\ \A t \in alone : \A s \in Sections : Coming(s) \/ s \in todo[t] \cup next[t]

\* What holds of the page with any buffer (app.js, connectResultsSSE and its
\* refreshes): the hub's invariant, a connection the hub knows, and undisturbed
\* refreshes that run by themselves and lose nothing of what is shown.
ResultsInv ==
  /\ TypeOK
  /\ HubInv
  /\ conn \in Conns => conn \in hub /\ conn \notin lost
  /\ \A t \in alone : running = {t}
  /\ ~disturbed => \A t \in running : running = {t} /\ shown \subseteq todo[t] \cup next[t]

\* The state behind StaleSectionHasNews, for any buffer and number of changes.
NewsInv == ResultsInv /\ NewsKept

\* 在线投票系统设计方案.md:602: within one process the live refresh works.
PageCatchesUp == <>[](shown = Sections)
=============================================================================
