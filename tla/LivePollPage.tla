---------------------------- MODULE LivePollPage ----------------------------
(***************************************************************************)
(* The poll page of the web client (src/web/static/app.js), kept current   *)
(* by the events of the httpserver process it is connected to.             *)
(*                                                                         *)
(* The poll is a version number: every vote, undo and close makes it one   *)
(* higher.  The page loads the poll when it opens, on every event and when *)
(* the user asks for it or has voted; a load that is asked for while one   *)
(* is in flight is made up for when that one ends.                         *)
(***************************************************************************)
EXTENDS SSEHub

CONSTANTS
  Loads,        \* loads that could be in flight at once
  NoConn,       \* the page has no connection, and its EventSource tries again
  Stopped,      \* it has none, and its EventSource has given up
  MaxChanges,   \* bound on the changes of the poll, for TLC
  MaxLosses,    \* bound on the connections that break, for TLC
  Faulty        \* loads fail, and changes go without notification: served by
                \* another pod, or done although their answer was an error

ASSUME PageAssumption ==
  /\ MaxChanges \in Nat /\ MaxLosses \in Nat /\ Faulty \in BOOLEAN
  /\ NoConn # Stopped /\ {NoConn, Stopped} \cap Conns = {} /\ Loads # {}

VARIABLES
  version,     \* the poll in the store
  gone,        \* it has been deleted
  shown,       \* the version the page shows, 0 before the first load
  load,        \* each load: not running, sent, or answered with a version
  loadQueued,  \* another load was asked for meanwhile
  conn,        \* the page's connection
  missed,      \* since the page last was current, a load has failed or a change
               \* went without notification
  losses       \* connections broken so far

pageVars == <<version, gone, shown, load, loadQueued, conn, missed, losses>>
vars == <<hubVars, pageVars>>

LoadStates == [state: {"none", "sent", "read", "missing"}, got: Nat]

NoLoad == [state |-> "none", got |-> 0]

\* Every variable holds a value of its type, and the channels and the stream
\* hold no more messages than they have room for.
TypeOK ==
  /\ HubTypeOK
  /\ version \in Nat \ {0} /\ gone \in BOOLEAN
  /\ shown \in Nat
  /\ load \in [Loads -> LoadStates]
  /\ loadQueued \in BOOLEAN
  /\ conn \in Conns \cup {NoConn, Stopped}
  /\ missed \in BOOLEAN
  /\ losses \in Nat

\* The page has just been opened: its first load is sent by LoadPage.
Init ==
  /\ HubInit
  /\ version = 1
  /\ gone = FALSE
  /\ shown = 0
  /\ load = [l \in Loads |-> NoLoad]
  /\ loadQueued = FALSE
  /\ conn = NoConn
  /\ missed = FALSE
  /\ losses = 0

-----------------------------------------------------------------------------
(* load(), its answer, and the finally block *)

Send(l) == load' = [load EXCEPT ![l] = [state |-> "sent", got |-> 0]]

LoadInFlight == \E l \in Loads : load[l].state # "none"

\* Which of the slots is taken when all are free makes no difference.
FirstLoad == CHOOSE l \in Loads : TRUE

\* Mutant: a load does not look whether one is in flight.
LoadAlways ==
  /\ \E l \in Loads : load[l].state = "none" /\ Send(l)
  /\ UNCHANGED loadQueued

\* load(): one at a time, the others are remembered as one.
Load ==
  IF LoadInFlight THEN loadQueued' = TRUE /\ UNCHANGED load
                  ELSE Send(FirstLoad) /\ UNCHANGED loadQueued

\* The server answers GET /polls/{id} with what the store holds at this moment.
ReadPoll(l) ==
  /\ load[l].state = "sent"
  /\ load' = [load EXCEPT ![l] = IF gone THEN [state |-> "missing", got |-> 0]
                                 ELSE [state |-> "read", got |-> version]]
  /\ UNCHANGED <<hubVars, version, gone, shown, loadQueued, conn, missed, losses>>

\* Mutant: the finally block forgets the queued load.
SettledForgets(l) ==
  /\ load' = [load EXCEPT ![l] = NoLoad]
  /\ loadQueued' = FALSE

\* The finally block: the load that was asked for meanwhile is sent.
Settled(l) ==
  /\ loadQueued' = FALSE
  /\ IF loadQueued THEN Send(l) ELSE load' = [load EXCEPT ![l] = NoLoad]

Loaded(l) ==
  /\ load[l].state = "read"
  /\ shown' = load[l].got
  /\ missed' = (missed /\ load[l].got # version)
  /\ Settled(l)
  /\ UNCHANGED <<hubVars, version, gone, conn, losses>>

\* The poll is gone, or the request failed: the page keeps what it shows.
LoadFailed(l) ==
  /\ load[l].state = "missing" \/ (Faulty /\ load[l].state # "none")
  /\ missed' = TRUE
  /\ Settled(l)
  /\ UNCHANGED <<hubVars, version, gone, shown, conn, losses>>

-----------------------------------------------------------------------------
(* The page's events and the user *)

\* The first load of the page, the refresh button, or the load that follows the
\* user's own vote or undo.
LoadPage ==
  /\ Load
  /\ UNCHANGED <<hubVars, version, gone, shown, conn, missed, losses>>

\* new EventSource, and its attempts to connect again.
Connect(c) ==
  /\ conn = NoConn
  /\ Add(c)
  /\ conn' = c
  /\ UNCHANGED <<version, gone, shown, load, loadQueued, missed, losses>>

\* An answer other than 200, such as the rate limiter's 429 or a proxy's 503,
\* ends the EventSource for good.
Refused ==
  /\ Faulty
  /\ conn = NoConn
  /\ conn' = Stopped
  /\ UNCHANGED <<hubVars, version, gone, shown, load, loadQueued, missed, losses>>

\* The listener of poll_invalidate.
HandleEvent ==
  /\ conn \in Conns
  /\ Take(conn)
  /\ Load
  /\ UNCHANGED <<version, gone, shown, conn, missed, losses>>

\* The connection breaks; the server notices it later.
LoseConnection ==
  /\ conn \in Conns
  /\ losses < MaxLosses
  /\ Lose(conn)
  /\ conn' = NoConn
  /\ losses' = losses + 1
  /\ UNCHANGED <<version, gone, shown, load, loadQueued, missed>>

-----------------------------------------------------------------------------
(* Vote, UndoVote, ClosePoll and DeletePoll of any user, served by this process *)

\* The call has changed the poll.  Its notification follows, unless the
\* handler got an error or, for a delete, could not read the poll before.
Notified(h) ==
  /\ outbox[h] = <<>>
  /\ \/ Enqueue(h, <<InitialMsg>>) /\ UNCHANGED missed
     \/ Faulty /\ UNCHANGED hubVars /\ missed' = TRUE

Change(h) ==
  /\ ~gone
  /\ version <= MaxChanges
  /\ version' = version + 1
  /\ Notified(h)
  /\ UNCHANGED <<gone, shown, load, loadQueued, conn, losses>>

Delete(h) ==
  /\ ~gone
  /\ gone' = TRUE
  /\ Notified(h)
  /\ UNCHANGED <<version, shown, load, loadQueued, conn, losses>>

-----------------------------------------------------------------------------

Next ==
  \/ LoadPage
  \/ HandleEvent
  \/ \E l \in Loads : ReadPoll(l) \/ Loaded(l) \/ LoadFailed(l)
  \/ \E c \in Conns : Connect(c)
  \/ Refused
  \/ LoseConnection
  \/ \E h \in Handlers : Change(h) \/ Delete(h)
  \/ ServerStep /\ UNCHANGED pageVars

Spec == Init /\ [][Next]_vars

\* Goroutines are scheduled, requests answered, and the browser runs its
\* handlers and connects again.  Nothing makes users act, not even to load: the
\* first event alone must bring the page up to date.
FairSpec ==
  /\ Spec
  /\ ServerFairness
  /\ WF_vars(Refused \/ \E c \in Conns : Connect(c))
  /\ WF_vars(HandleEvent)
  /\ \A l \in Loads : WF_vars(ReadPoll(l)) /\ WF_vars(Loaded(l) \/ LoadFailed(l))

-----------------------------------------------------------------------------
(* Properties *)

\* What is still under way that will make the page load: a change not yet
\* announced to its connection, a message, a first event, a load.
NewsUnderWay ==
  \/ \E h \in Handlers : outbox[h] # <<>> /\ (~locked[h] \/ conn \in left[h])
  \/ conn = NoConn
  \/ loop[conn] = "added" \/ ch[conn] # <<>> \/ wire[conn] # <<>>
  \/ loadQueued
  \/ \E l \in Loads : \/ load[l].state = "sent"
                       \/ (load[l].state = "read" /\ load[l].got = version)

\* However messages are dropped, loads merged and connections replaced, a page
\* that does not show the current poll has something under way that will make
\* it load, unless a load has failed, a change was not announced here, or the
\* event stream has ended for good.
StalePageHasNews == gone \/ shown = version \/ missed \/ conn = Stopped \/ NewsUnderWay

\* What the page shows is not ahead of the poll, nor of the answer that may replace it.
ShownBehind ==
  /\ shown <= version
  /\ \A l \in Loads : load[l].state = "read" => shown <= load[l].got /\ load[l].got <= version

\* The state behind the page's promises, kept by every step (app.js, load and
\* connectPollSSE): the hub's invariant, one load at a time, a connection that the
\* hub knows and the server has no reason to leave, answers in the order of the
\* poll's versions, and news for a page that is not current.
PageInv ==
  /\ TypeOK
  /\ HubInv
  /\ \A l \in Loads \ {FirstLoad} : load[l] = NoLoad
  /\ conn \in Conns => conn \in hub /\ conn \notin lost
  /\ ShownBehind
  /\ StalePageHasNews

\* The page never shows an older state of the poll after a newer one.
PageNeverGoesBack == [][shown' >= shown]_vars

\* When changes come to an end, the page ends up showing the current poll,
\* under the same conditions.
PageCatchesUp == <>[](gone \/ shown = version \/ missed \/ conn = Stopped)
=============================================================================
