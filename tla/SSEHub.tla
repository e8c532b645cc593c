------------------------------- MODULE SSEHub -------------------------------
(***************************************************************************)
(* The event hub of one httpserver process, the stream loops that drain    *)
(* its connections, and the request handlers that notify through it.       *)
(* Source: src/internal/http/handler/{sse_hub.go, sse.go, http.go}.        *)
(*                                                                         *)
(* The connections are those that subscribe to one topic: the poll of the  *)
(* poll page, or the results page of one user.  A connection object is a   *)
(* slot in Conns that is used again once its loop has returned.            *)
(***************************************************************************)
EXTENDS Integers, Sequences, FiniteSets

CONSTANTS
  Conns,       \* connection objects
  Handlers,    \* requests the process serves at once
  Messages,    \* what an event asks the page to refresh
  InitialMsg,  \* the event a stream starts with
  BufferSize,  \* capacity of a connection's channel (16 in the code)
  WireSize     \* events written to a client that has not handled them yet

ASSUME HubAssumption ==
  /\ InitialMsg \in Messages
  /\ BufferSize \in Nat \ {0}
  /\ WireSize \in Nat \ {0}

VARIABLES
  hub,      \* conns / pollConns: the registered connections
  loop,     \* where the stream handler of each connection is
  ch,       \* the buffered channel of each connection
  wire,     \* events on their way to the browser
  lost,     \* connections whose client has gone: ctx.Done() is ready
  outbox,   \* the notifications each handler still has to make
  locked,   \* the handler is inside a notify and holds the read lock
  left      \* the connections that notify has not visited yet

hubVars == <<hub, loop, ch, wire, lost, outbox, locked, left>>

LoopStates == {"none", "added", "streaming"}

HubTypeOK ==
  /\ hub \subseteq Conns
  /\ loop \in [Conns -> LoopStates]
  /\ ch \in [Conns -> Seq(Messages)]
  /\ wire \in [Conns -> Seq(Messages)]
  /\ \A c \in Conns : Len(ch[c]) <= BufferSize /\ Len(wire[c]) <= WireSize
  /\ lost \subseteq Conns
  /\ outbox \in [Handlers -> Seq(Messages)]
  /\ locked \in [Handlers -> BOOLEAN]
  /\ left \in [Handlers -> SUBSET Conns]

HubInit ==
  /\ hub = {}
  /\ loop = [c \in Conns |-> "none"]
  /\ ch = [c \in Conns |-> <<>>]
  /\ wire = [c \in Conns |-> <<>>]
  /\ lost = {}
  /\ outbox = [h \in Handlers |-> <<>>]
  /\ locked = [h \in Handlers |-> FALSE]
  /\ left = [h \in Handlers |-> {}]

\* The write lock is free: no notify is under way.
WriteLock == \A h \in Handlers : ~locked[h]

-----------------------------------------------------------------------------
(* The stream handler of a connection *)

\* Mutant: the stream starts without its first event.
AddedSilent(c) == "streaming"

\* After add the handler writes the first event.
Added(c) == "added"

\* add / addPoll: a new connection object with an empty channel.
Add(c) ==
  /\ loop[c] = "none"
  /\ WriteLock
  /\ hub' = hub \cup {c}
  /\ loop' = [loop EXCEPT ![c] = Added(c)]
  /\ UNCHANGED <<ch, wire, lost, outbox, locked, left>>

\* The first event makes the page load once whatever it has missed.
WriteInitial(c) ==
  /\ loop[c] = "added"
  /\ Len(wire[c]) < WireSize
  /\ wire' = [wire EXCEPT ![c] = Append(@, InitialMsg)]
  /\ loop' = [loop EXCEPT ![c] = "streaming"]
  /\ UNCHANGED <<hub, ch, lost, outbox, locked, left>>

\* One turn of the loop: a message goes from the channel to the client.
Forward(c) ==
  /\ loop[c] = "streaming"
  /\ ch[c] # <<>>
  /\ Len(wire[c]) < WireSize
  /\ wire' = [wire EXCEPT ![c] = Append(@, Head(ch[c]))]
  /\ ch' = [ch EXCEPT ![c] = Tail(@)]
  /\ UNCHANGED <<hub, loop, lost, outbox, locked, left>>

\* Mutant: the channel is closed but the connection stays registered.
DiscardRegistered(c) ==
  /\ hub' = hub
  /\ loop' = [loop EXCEPT ![c] = "none"]
  /\ ch' = [ch EXCEPT ![c] = <<>>]
  /\ wire' = [wire EXCEPT ![c] = <<>>]
  /\ lost' = lost \ {c}

\* The connection leaves the hub, its channel is closed, and nothing refers to
\* the object any more.
Discard(c) ==
  /\ hub' = hub \ {c}
  /\ loop' = [loop EXCEPT ![c] = "none"]
  /\ ch' = [ch EXCEPT ![c] = <<>>]
  /\ wire' = [wire EXCEPT ![c] = <<>>]
  /\ lost' = lost \ {c}

\* Mutant: the connection is removed and closed without the lock.
LeaveUnlocked(c) ==
  /\ c \in lost
  /\ loop[c] # "none"
  /\ Discard(c)
  /\ UNCHANGED <<outbox, locked, left>>

\* The loop sees ctx.Done() and the deferred remove takes the connection out of
\* the hub and closes its channel.
Leave(c) ==
  /\ c \in lost
  /\ loop[c] # "none"
  /\ WriteLock
  /\ Discard(c)
  /\ UNCHANGED <<outbox, locked, left>>

-----------------------------------------------------------------------------
(* A request handler after the call it was made for *)

\* The operation succeeded: these notifications follow, one after the other.
Enqueue(h, msgs) ==
  /\ outbox[h] = <<>>
  /\ outbox' = [outbox EXCEPT ![h] = msgs]
  /\ UNCHANGED <<hub, loop, ch, wire, lost, locked, left>>

\* notifyPoll, notifyUser, broadcast: take the read lock, visit every
\* connection in no particular order, release it.
NotifyStart(h) ==
  /\ outbox[h] # <<>>
  /\ ~locked[h]
  /\ locked' = [locked EXCEPT ![h] = TRUE]
  /\ left' = [left EXCEPT ![h] = hub]
  /\ UNCHANGED <<hub, loop, ch, wire, lost, outbox>>

\* A send that does not wait: a full channel drops the message.
Offered(c, m) == IF Len(ch[c]) < BufferSize THEN Append(ch[c], m) ELSE ch[c]

NotifySend(h, c) ==
  /\ c \in left[h]
  /\ ch' = [ch EXCEPT ![c] = Offered(c, Head(outbox[h]))]
  /\ left' = [left EXCEPT ![h] = @ \ {c}]
  /\ UNCHANGED <<hub, loop, wire, lost, outbox, locked>>

NotifyEnd(h) ==
  /\ locked[h]
  /\ left[h] = {}
  /\ locked' = [locked EXCEPT ![h] = FALSE]
  /\ outbox' = [outbox EXCEPT ![h] = Tail(@)]
  /\ UNCHANGED <<hub, loop, ch, wire, lost, left>>

\* The client's side: the next event is taken from the wire, or the client
\* goes away.
Take(c) ==
  /\ wire[c] # <<>>
  /\ wire' = [wire EXCEPT ![c] = Tail(@)]
  /\ UNCHANGED <<hub, loop, ch, lost, outbox, locked, left>>

Lose(c) ==
  /\ lost' = lost \cup {c}
  /\ UNCHANGED <<hub, loop, ch, wire, outbox, locked, left>>

-----------------------------------------------------------------------------

\* The steps the process takes by itself, whatever the page does.
ServerStep ==
  \/ \E c \in Conns : WriteInitial(c) \/ Forward(c) \/ Leave(c)
  \/ \E h \in Handlers :
       NotifyStart(h) \/ NotifyEnd(h) \/ (\E c \in Conns : NotifySend(h, c))

ServerFairness ==
  /\ \A c \in Conns : /\ WF_hubVars(WriteInitial(c))
                      /\ WF_hubVars(Forward(c))
                      /\ WF_hubVars(Leave(c))
  /\ \A h \in Handlers :
       /\ WF_hubVars(NotifyStart(h))
       /\ WF_hubVars(NotifyEnd(h))
       /\ \A c \in Conns : WF_hubVars(NotifySend(h, c))

\* What keeps a send off a closed channel, step by step: the hub holds exactly the
\* connections whose loop runs, a notify goes through connections of the hub under
\* the lock, and only the loop of a lost connection leaves (sse_hub.go, sse.go).
HubInv ==
  /\ HubTypeOK
  /\ \A c \in Conns : c \in hub <=> loop[c] # "none"
  /\ \A h \in Handlers : /\ left[h] \subseteq hub
                         /\ locked[h] => outbox[h] # <<>>
                         /\ ~locked[h] => left[h] = {}
  /\ lost \subseteq hub

\* No message is ever sent on a closed channel, which would end the process:
\* a connection a notify has still to visit is one whose loop has not returned,
\* although clients leave at any time (sse_hub.go, remove and the notifies).
NoSendOnClosed ==
  \A h \in Handlers : \A c \in left[h] : loop[c] # "none"
=============================================================================
