---------------------------- MODULE PacketQueue ----------------------------
(***************************************************************************)
(* The PacketQueue of a server, with the threads around it: producers (the *)
(* IOCP worker and, in the relay, one thread per ServerConnector) push     *)
(* under the mutex; a handler polls isEmpty without it, then pops under    *)
(* it, and pop ends the program if the queue is empty after all.           *)
(*                                                                         *)
(* The unlocked isEmpty races with push and pop.  It reads one word, the   *)
(* size of the queue, and so sees it before or after a push under way.     *)
(*                                                                         *)
(* A definition X_y before X is X with a plausible fault, as elsewhere.    *)
(***************************************************************************)
EXTENDS Integers, Sequences

CONSTANTS
  Producers,
  Handlers,   \* threads that run handlePacketThread
  Packets,
  MaxPushes,  \* bound: how many packets the producers receive
  Nobody

ASSUME QueueAssumption ==
  /\ Producers \cap Handlers = {}
  /\ Nobody \notin Producers \cup Handlers
  /\ MaxPushes \in Nat

\* runPacketManager starts its threads in a loop with i < 1.
ASSUME OneHandler == \E h \in Handlers : Handlers = {h}

Threads == Producers \cup Handlers

VARIABLES
  packetQueue,
  mutex,     \* the thread inside lock_guard, or Nobody
  pc,        \* where each thread is
  end,       \* the end of the queue as a push under way located it
  popped,    \* the packet a handler holds, as a sequence of at most one
  received,  \* history: every packet pushed, in the order of the pushes
  handled,   \* history: every packet handlePacket was called with
  exited     \* logAndExit was called

vars == <<packetQueue, mutex, pc, end, popped, received, handled, exited>>

Goto(t, from, to) == pc[t] = from /\ pc' = [pc EXCEPT ![t] = to]
Lock_Unheeded(t) == mutex' = t
Lock(t) == mutex = Nobody /\ mutex' = t
Unlock == mutex' = Nobody

\* PacketQueue::push.  Inside the mutex the end of the queue is located, then
\* the packet is stored there and the size written back.
BeginPush(t) ==
  /\ Len(received) < MaxPushes
  /\ Goto(t, "receive", "push")
  /\ Lock(t)
  /\ end' = [end EXCEPT ![t] = Len(packetQueue)]
  /\ UNCHANGED <<packetQueue, popped, received, handled, exited>>

Store_Moved(q, n, p) == Append(q, Nobody)
Store(q, n, p) == [i \in 1 .. n + 1 |-> IF i <= n /\ i <= Len(q) THEN q[i] ELSE p]

Push(t, p) ==
  /\ Goto(t, "push", "unlock")
  /\ packetQueue' = Store(packetQueue, end[t], p)
  /\ received' = Append(received, p)
  /\ UNCHANGED <<mutex, end, popped, handled, exited>>

EndPush_Locked(t) ==
  /\ Goto(t, "unlock", "receive")
  /\ UNCHANGED <<packetQueue, mutex, end, popped, received, handled, exited>>
EndPush(t) ==
  /\ Goto(t, "unlock", "receive")
  /\ Unlock
  /\ UNCHANGED <<packetQueue, end, popped, received, handled, exited>>

\* handlePacketThread: if (!packetQueue.isEmpty()).
IsEmpty_Unasked(h) ==
  /\ Goto(h, "poll", "pop")
  /\ UNCHANGED <<packetQueue, mutex, end, popped, received, handled, exited>>
IsEmpty(h) ==
  /\ packetQueue # <<>>
  /\ Goto(h, "poll", "pop")
  /\ UNCHANGED <<packetQueue, mutex, end, popped, received, handled, exited>>

\* PacketQueue::pop.
BeginPop(h) ==
  /\ Goto(h, "pop", "front")
  /\ Lock(h)
  /\ UNCHANGED <<packetQueue, end, popped, received, handled, exited>>

Pop(h) ==
  /\ Goto(h, "front", "handle")
  /\ IF packetQueue = <<>> THEN exited' = TRUE /\ UNCHANGED <<packetQueue, popped>>
     ELSE /\ popped' = [popped EXCEPT ![h] = <<Head(packetQueue)>>]
          /\ packetQueue' = Tail(packetQueue)
          /\ UNCHANGED exited
  /\ Unlock
  /\ UNCHANGED <<end, received, handled>>

\* handlePacket, as far as the queue can tell.
Handle(h) ==
  /\ Goto(h, "handle", "poll")
  /\ handled' = handled \o popped[h]
  /\ popped' = [popped EXCEPT ![h] = <<>>]
  /\ UNCHANGED <<packetQueue, mutex, end, received, exited>>

ProducerStep(t) == BeginPush(t) \/ (\E p \in Packets : Push(t, p)) \/ EndPush(t)
HandlerStep(h) == IsEmpty(h) \/ BeginPop(h) \/ Pop(h) \/ Handle(h)

Init ==
  /\ packetQueue = <<>>
  /\ mutex = Nobody
  /\ pc = [t \in Threads |-> IF t \in Producers THEN "receive" ELSE "poll"]
  /\ end = [t \in Producers |-> 0]
  /\ popped = [h \in Handlers |-> <<>>]
  /\ received = <<>>
  /\ handled = <<>>
  /\ exited = FALSE

Next ==
  /\ ~exited
  /\ (\E t \in Producers : ProducerStep(t)) \/ (\E h \in Handlers : HandlerStep(h))

Spec == Init /\ [][Next]_vars
FairSpec ==
  /\ Spec
  /\ \A t \in Producers : WF_vars(~exited /\ (EndPush(t) \/ \E p \in Packets : Push(t, p)))
  /\ \A h \in Handlers : WF_vars(~exited /\ HandlerStep(h))

TypeOK ==
  /\ packetQueue \in Seq(Packets)
  /\ mutex \in Threads \cup {Nobody}
  /\ pc \in [Threads -> {"receive", "push", "unlock", "poll", "pop", "front", "handle"}]
  /\ end \in [Producers -> Nat]
  /\ popped \in [Handlers -> Seq(Packets)]
  /\ received \in Seq(Packets)
  /\ handled \in Seq(Packets)
  /\ exited \in BOOLEAN

\* What isEmpty saw outside the mutex still holds inside it: pop never finds
\* the queue empty and never ends the program.
PopFindsPacket == ~exited

\* Packets are handled in the order they were pushed, each of them once: what
\* was pushed is what was handled, what a handler holds, and what is queued.
InHand == popped[CHOOSE h \in Handlers : TRUE]
HandledInOrder == received = handled \o InHand \o packetQueue

\* A packet that was pushed is handled, once the producers leave the mutex alone
\* (which they do, after MaxPushes pushes: nothing says the mutex is fair).
AllHandled == \A n \in 1 .. MaxPushes : (Len(received) >= n) ~> (Len(handled) >= n)
=============================================================================
