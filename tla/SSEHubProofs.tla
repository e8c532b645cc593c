----------------------------- MODULE SSEHubProofs -----------------------------
(***************************************************************************)
(* The hub's invariant is kept by every step of the hub, whatever pages    *)
(* use it: the lemmas the theorems of the pages rest on.                   *)
(***************************************************************************)
EXTENDS SSEHub, SequenceTheorems, TLAPS

-----------------------------------------------------------------------------
(* Sequences *)

\* Taking the first of two or more leaves something.
LEMMA TailOf == ASSUME NEW S, NEW s \in Seq(S), s # <<>>
                PROVE  /\ Head(s) \in S /\ Tail(s) \in Seq(S)
                       /\ Len(Tail(s)) = Len(s) - 1 /\ Len(s) \in Nat \ {0}
BY HeadTailProperties, EmptySeq, LenProperties

\* What has been put on a queue is there.
LEMMA AppendOf == ASSUME NEW S, NEW s \in Seq(S), NEW m \in S
                  PROVE  /\ Append(s, m) \in Seq(S) /\ Append(s, m) # <<>>
                         /\ Len(Append(s, m)) = Len(s) + 1 /\ Len(s) \in Nat
<1>1. Append(s, m) \in Seq(S) /\ Len(Append(s, m)) = Len(s) + 1 /\ Len(s) \in Nat
  BY AppendProperties, LenProperties
<1> QED
  BY <1>1, EmptySeq

\* An offer keeps within the buffer and leaves something in it.
LEMMA OfferedIn ==
  ASSUME HubTypeOK, NEW c \in Conns, NEW m \in Messages
  PROVE  /\ Offered(c, m) \in Seq(Messages)
         /\ Len(Offered(c, m)) <= BufferSize /\ Offered(c, m) # <<>>
<1>1. ch[c] \in Seq(Messages) /\ Len(ch[c]) \in Nat /\ Len(ch[c]) <= BufferSize
  BY LenProperties DEF HubTypeOK
<1>2. BufferSize \in Nat /\ BufferSize > 0
  BY HubAssumption DEF HubAssumption
<1>3. CASE Len(ch[c]) < BufferSize
  BY <1>1, <1>2, <1>3, AppendOf DEF Offered
<1>4. CASE ~(Len(ch[c]) < BufferSize)
  <2>1. Offered(c, m) = ch[c] /\ Len(ch[c]) # 0
    BY <1>1, <1>2, <1>4 DEF Offered
  <2> QED
    BY <2>1, <1>1, EmptySeq
<1> QED
  BY <1>3, <1>4

-----------------------------------------------------------------------------
(* The steps of the hub *)

LEMMA HubStart == HubInit => HubInv
<1> SUFFICES ASSUME HubInit PROVE HubInv
  OBVIOUS
<1>1. <<>> \in Seq(Messages) /\ Len(<<>>) = 0
  BY EmptySeq
<1>2. BufferSize \in Nat /\ WireSize \in Nat
  BY HubAssumption DEF HubAssumption
<1> QED
  BY <1>1, <1>2 DEF HubInit, HubInv, HubTypeOK, LoopStates

LEMMA HubUnchanged == ASSUME HubInv, UNCHANGED hubVars PROVE HubInv'
BY DEF HubInv, HubTypeOK, hubVars

\* Connecting.
LEMMA AddKeeps == ASSUME HubInv, NEW c \in Conns, Add(c) PROVE HubInv'
BY DEF HubInv, HubTypeOK, LoopStates, Add, Added, WriteLock

\* The stream handler's steps.
LEMMA WriteInitialKeeps == ASSUME HubInv, NEW c \in Conns, WriteInitial(c) PROVE HubInv'
<1>1. InitialMsg \in Messages /\ WireSize \in Nat
  BY HubAssumption DEF HubAssumption
<1>2. /\ Append(wire[c], InitialMsg) \in Seq(Messages)
      /\ Len(Append(wire[c], InitialMsg)) = Len(wire[c]) + 1 /\ Len(wire[c]) \in Nat
  BY <1>1, AppendOf DEF HubInv, HubTypeOK
<1> QED
  BY <1>1, <1>2 DEF HubInv, HubTypeOK, LoopStates, WriteInitial

LEMMA ForwardKeeps == ASSUME HubInv, NEW c \in Conns, Forward(c) PROVE HubInv'
<1>1. /\ Head(ch[c]) \in Messages /\ Tail(ch[c]) \in Seq(Messages)
      /\ Len(Tail(ch[c])) = Len(ch[c]) - 1 /\ Len(ch[c]) \in Nat \ {0}
  BY TailOf DEF HubInv, HubTypeOK, Forward
<1>2. /\ Append(wire[c], Head(ch[c])) \in Seq(Messages)
      /\ Len(Append(wire[c], Head(ch[c]))) = Len(wire[c]) + 1 /\ Len(wire[c]) \in Nat
  BY <1>1, AppendOf DEF HubInv, HubTypeOK
<1>3. WireSize \in Nat /\ BufferSize \in Nat
  BY HubAssumption DEF HubAssumption
<1> QED
  BY <1>1, <1>2, <1>3 DEF HubInv, HubTypeOK, LoopStates, Forward

LEMMA LeaveKeeps == ASSUME HubInv, NEW c \in Conns, Leave(c) PROVE HubInv'
<1>1. <<>> \in Seq(Messages) /\ Len(<<>>) = 0
  BY EmptySeq
<1>2. BufferSize \in Nat /\ WireSize \in Nat
  BY HubAssumption DEF HubAssumption
<1> QED
  BY <1>1, <1>2 DEF HubInv, HubTypeOK, LoopStates, Leave, Discard, WriteLock

\* The notifies.
LEMMA NotifyStartKeeps == ASSUME HubInv, NEW h \in Handlers, NotifyStart(h) PROVE HubInv'
BY DEF HubInv, HubTypeOK, NotifyStart

LEMMA NotifySendKeeps ==
  ASSUME HubInv, NEW h \in Handlers, NEW c \in Conns, NotifySend(h, c)
  PROVE  HubInv'
<1>1. outbox[h] \in Seq(Messages) /\ outbox[h] # <<>>
  BY DEF HubInv, HubTypeOK, NotifySend
<1>2. Head(outbox[h]) \in Messages
  BY <1>1, TailOf
<1>3. /\ Offered(c, Head(outbox[h])) \in Seq(Messages)
      /\ Len(Offered(c, Head(outbox[h]))) <= BufferSize
  BY <1>2, OfferedIn DEF HubInv
<1> QED
  BY <1>3 DEF HubInv, HubTypeOK, NotifySend

LEMMA NotifyEndKeeps == ASSUME HubInv, NEW h \in Handlers, NotifyEnd(h) PROVE HubInv'
<1>1. Tail(outbox[h]) \in Seq(Messages)
  BY TailOf DEF HubInv, HubTypeOK, NotifyEnd
<1> QED
  BY <1>1 DEF HubInv, HubTypeOK, NotifyEnd

LEMMA ServerKeeps == ASSUME HubInv, ServerStep PROVE HubInv'
BY WriteInitialKeeps, ForwardKeeps, LeaveKeeps, NotifyStartKeeps, NotifySendKeeps,
   NotifyEndKeeps DEF ServerStep

\* A handler's notifications.
LEMMA EnqueueKeeps ==
  ASSUME HubInv, NEW h \in Handlers, NEW msgs \in Seq(Messages), Enqueue(h, msgs)
  PROVE  HubInv'
BY DEF HubInv, HubTypeOK, Enqueue

\* The client's side.
LEMMA TakeKeeps == ASSUME HubInv, NEW c \in Conns, Take(c) PROVE HubInv'
<1>1. /\ Tail(wire[c]) \in Seq(Messages) /\ Len(wire[c]) \in Nat \ {0}
      /\ Len(Tail(wire[c])) = Len(wire[c]) - 1
  BY TailOf DEF HubInv, HubTypeOK, Take
<1>2. WireSize \in Nat
  BY HubAssumption DEF HubAssumption
<1> QED
  BY <1>1, <1>2 DEF HubInv, HubTypeOK, Take

LEMMA LoseKeeps == ASSUME HubInv, NEW c \in hub, Lose(c) PROVE HubInv'
BY DEF HubInv, HubTypeOK, Lose

\* The invariant keeps sends off closed channels.
LEMMA HubInvSafe == HubInv => NoSendOnClosed
BY DEF HubInv, HubTypeOK, NoSendOnClosed
=============================================================================
