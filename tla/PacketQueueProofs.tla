------------------------- MODULE PacketQueueProofs -------------------------
(***************************************************************************)
(* Proofs about PacketQueue, for any number of producers, packets and      *)
(* pushes, and one handler thread.                                         *)
(***************************************************************************)
EXTENDS PacketQueue, SequenceTheorems, TLAPS

Handler == CHOOSE h \in Handlers : TRUE

\* Who is where, and what a thread that is inside push or pop may rely on.
PlacesOK ==
  /\ \A t \in Producers : pc[t] \in {"receive", "push", "unlock"}
  /\ \A h \in Handlers : pc[h] \in {"poll", "pop", "front", "handle"}

\* The lock_guard of push and of pop: whoever is inside holds the mutex.
MutualExclusion ==
  \A t \in Threads : pc[t] \in {"push", "unlock", "front"} => mutex = t

\* Nobody moves the end of the queue between the two halves of a push.
EndIsStill == \A t \in Producers : pc[t] = "push" => end[t] = Len(packetQueue)

\* Only the handler takes packets away, so what it saw in isEmpty is still
\* there when it pops.
SeenPacketStays == \A h \in Handlers : pc[h] \in {"pop", "front"} => packetQueue # <<>>

HandsEmpty == \A h \in Handlers : pc[h] # "handle" => popped[h] = <<>>

IInv ==
  /\ TypeOK /\ PlacesOK /\ MutualExclusion /\ EndIsStill
  /\ SeenPacketStays /\ HandsEmpty
  /\ PopFindsPacket /\ HandledInOrder

\* There is one handler thread.
LEMMA OnlyHandler == Handler \in Handlers /\ (\A h \in Handlers : h = Handler)
BY OneHandler DEF Handler

\* Storing a packet at the true end of the queue appends it.
LEMMA StoreAppends ==
  ASSUME NEW q \in Seq(Packets), NEW p \in Packets
  PROVE  Store(q, Len(q), p) = Append(q, p) /\ Append(q, p) \in Seq(Packets)
<1> DEFINE n == Len(q)
            S == Store(q, n, p)
            A == Append(q, p)
<1>1. A \in Seq(Packets) /\ Len(A) = n + 1
  BY AppendProperties
<1>2. n \in Nat /\ q \in [1 .. n -> Packets]
  BY LenProperties
<1>3. S \in [1 .. n + 1 -> Packets]
  BY <1>2 DEF Store
<1>4. S \in Seq(Packets) /\ Len(S) = n + 1
  BY <1>2, <1>3
<1>5. \A i \in 1 .. n + 1 : S[i] = A[i]
  BY <1>2, AppendProperties DEF Store
<1>6. S = A
  <2> HIDE DEF S, A, n
  <2> QED BY <1>1, <1>4, <1>5, SeqEqual
<1> QED BY <1>1, <1>6

\* What a sequence of packets followed by a queue becomes when one is pushed.
LEMMA ConcatAppend ==
  ASSUME NEW s \in Seq(Packets), NEW q \in Seq(Packets), NEW p \in Packets
  PROVE  s \o Append(q, p) = Append(s \o q, p)
<1>1. Append(q, p) = q \o <<p>> /\ Append(s \o q, p) = (s \o q) \o <<p>>
  BY AppendIsConcat, ConcatProperties
<1>2. <<p>> \in Seq(Packets)
  OBVIOUS
<1> QED BY <1>1, <1>2, ConcatAssociative

\* ...and when its first packet moves to the handler.
LEMMA ConcatHead ==
  ASSUME NEW s \in Seq(Packets), NEW q \in Seq(Packets), q # <<>>
  PROVE  (s \o <<>>) \o q = (s \o <<Head(q)>>) \o Tail(q)
<1>1. Head(q) \in Packets /\ Tail(q) \in Seq(Packets) /\ <<Head(q)>> \in Seq(Packets)
  BY HeadTailProperties
<1>2. q = <<Head(q)>> \o Tail(q)
  <2>1. Len(<<Head(q)>> \o Tail(q)) = Len(q)
    BY <1>1, HeadTailProperties, ConcatProperties, LenProperties
  <2>2. \A i \in 1 .. Len(q) : q[i] = (<<Head(q)>> \o Tail(q))[i]
    BY <1>1, HeadTailProperties, ConcatProperties, LenProperties
  <2>3. <<Head(q)>> \o Tail(q) \in Seq(Packets)
    BY <1>1, ConcatProperties
  <2> QED BY <2>1, <2>2, <2>3, SeqEqual
<1>3. s \o <<>> = s
  BY ConcatEmptySeq
<1>4. (s \o <<Head(q)>>) \o Tail(q) = s \o (<<Head(q)>> \o Tail(q))
  BY <1>1, ConcatAssociative
<1> QED BY <1>2, <1>3, <1>4

\* The initial states satisfy the inductive invariant.
LEMMA InitIInv == Init => IInv
<1> SUFFICES ASSUME Init PROVE IInv
  OBVIOUS
<1>1. pc \in [Threads -> {"receive", "poll"}] /\ mutex \in Threads \cup {Nobody}
  BY DEF Init
<1>2. end \in [Producers -> Nat] /\ popped \in [Handlers -> Seq(Packets)]
  BY EmptySeq DEF Init
<1>3. TypeOK
  BY <1>1, <1>2, EmptySeq DEF Init, TypeOK
<1>4. PlacesOK
  BY QueueAssumption DEF Init, PlacesOK, Threads
<1>5. MutualExclusion /\ EndIsStill /\ SeenPacketStays /\ HandsEmpty
  BY QueueAssumption DEF Init, MutualExclusion, EndIsStill, SeenPacketStays, HandsEmpty, Threads
<1>6. PopFindsPacket /\ HandledInOrder
  BY OnlyHandler, EmptySeq, ConcatEmptySeq DEF Init, PopFindsPacket, HandledInOrder, InHand, Handler
<1> QED BY <1>3, <1>4, <1>5, <1>6 DEF IInv

\* The order of the packets survives every step.
LEMMA NextOrder == IInv /\ [Next]_vars => HandledInOrder'
<1> SUFFICES ASSUME IInv, [Next]_vars PROVE HandledInOrder'
  OBVIOUS
<1> USE OnlyHandler DEF IInv, TypeOK
<1>0. popped[Handler] \in Seq(Packets) /\ InHand = popped[Handler]
  BY DEF InHand, Handler
<1>1. ASSUME NEW t \in Producers, NEW p \in Packets, Push(t, p) PROVE HandledInOrder'
  <2>1. pc[t] = "push" /\ end[t] = Len(packetQueue)
    BY <1>1 DEF Push, Goto, EndIsStill
  <2>2. packetQueue' = Append(packetQueue, p) /\ received' = Append(received, p)
    BY <1>1, <2>1, StoreAppends DEF Push
  <2>3. handled' = handled /\ InHand' = InHand
    BY <1>1 DEF Push, InHand
  <2>4. handled \o InHand \in Seq(Packets)
    BY <1>0, ConcatProperties
  <2> QED BY <2>2, <2>3, <2>4, ConcatAppend DEF HandledInOrder
<1>2. ASSUME NEW h \in Handlers, Pop(h) PROVE HandledInOrder'
  <2>1. packetQueue # <<>> /\ popped[Handler] = <<>>
    BY <1>2 DEF Pop, Goto, SeenPacketStays, HandsEmpty
  <2>2. InHand' = <<Head(packetQueue)>> /\ packetQueue' = Tail(packetQueue)
    BY <1>2, <2>1 DEF Pop, InHand, Handler
  <2>3. handled' = handled /\ received' = received
    BY <1>2 DEF Pop
  <2> QED BY <1>0, <2>1, <2>2, <2>3, ConcatHead DEF HandledInOrder
<1>3. ASSUME NEW h \in Handlers, Handle(h) PROVE HandledInOrder'
  <2>1. handled' = handled \o InHand /\ InHand' = <<>>
    BY <1>0, <1>3 DEF Handle, InHand, Handler
  <2>2. packetQueue' = packetQueue /\ received' = received
    BY <1>3 DEF Handle
  <2>3. handled \o InHand \in Seq(Packets)
    BY <1>0, ConcatProperties
  <2> QED BY <2>1, <2>2, <2>3, ConcatEmptySeq DEF HandledInOrder
<1>4. ASSUME UNCHANGED <<packetQueue, popped, received, handled>> PROVE HandledInOrder'
  BY <1>4 DEF HandledInOrder, InHand
<1> QED
  BY <1>1, <1>2, <1>3, <1>4
  DEF Next, vars, ProducerStep, HandlerStep, BeginPush, EndPush, IsEmpty, BeginPop

\* Every step keeps the types.
LEMMA NextTypeOK == IInv /\ [Next]_vars => TypeOK'
<1> SUFFICES ASSUME IInv, [Next]_vars PROVE TypeOK'
  OBVIOUS
<1> USE DEF IInv, TypeOK, Goto, Lock, Unlock, Threads
<1>1. ASSUME NEW t \in Producers, BeginPush(t) PROVE TypeOK'
  <2>1. Len(packetQueue) \in Nat
    BY LenProperties
  <2> QED BY <1>1, <2>1 DEF BeginPush
<1>2. ASSUME NEW t \in Producers, NEW p \in Packets, Push(t, p) PROVE TypeOK'
  <2>1. packetQueue' \in Seq(Packets)
    BY <1>2, StoreAppends DEF Push, EndIsStill
  <2>2. received' \in Seq(Packets)
    BY <1>2, AppendProperties DEF Push
  <2> QED BY <1>2, <2>1, <2>2 DEF Push
<1>3. ASSUME NEW t \in Producers, EndPush(t) PROVE TypeOK'
  BY <1>3 DEF EndPush
<1>4. ASSUME NEW h \in Handlers, IsEmpty(h) PROVE TypeOK'
  BY <1>4 DEF IsEmpty
<1>5. ASSUME NEW h \in Handlers, BeginPop(h) PROVE TypeOK'
  BY <1>5 DEF BeginPop
<1>6. ASSUME NEW h \in Handlers, Pop(h) PROVE TypeOK'
  <2>1. packetQueue # <<>>
    BY <1>6 DEF Pop, SeenPacketStays
  <2>2. Tail(packetQueue) \in Seq(Packets) /\ <<Head(packetQueue)>> \in Seq(Packets)
    BY <2>1, HeadTailProperties
  <2>3. packetQueue' \in Seq(Packets) /\ popped' \in [Handlers -> Seq(Packets)]
    BY <1>6, <2>1, <2>2 DEF Pop
  <2> QED BY <1>6, <2>1, <2>3 DEF Pop
<1>7. ASSUME NEW h \in Handlers, Handle(h) PROVE TypeOK'
  <2>1. handled' \in Seq(Packets)
    BY <1>7, ConcatProperties DEF Handle
  <2>2. popped' \in [Handlers -> Seq(Packets)]
    BY <1>7, EmptySeq DEF Handle
  <2> QED BY <1>7, <2>1, <2>2 DEF Handle
<1>8. CASE UNCHANGED vars
  BY <1>8 DEF vars
<1> QED
  BY <1>1, <1>2, <1>3, <1>4, <1>5, <1>6, <1>7, <1>8 DEF Next, ProducerStep, HandlerStep

\* Every step keeps what the threads rely on.
LEMMA NextRely ==
  IInv /\ [Next]_vars =>
    /\ PlacesOK' /\ MutualExclusion' /\ EndIsStill' /\ SeenPacketStays' /\ HandsEmpty'
    /\ PopFindsPacket'
<1> DEFINE Rely == /\ PlacesOK /\ MutualExclusion /\ EndIsStill /\ SeenPacketStays /\ HandsEmpty
                   /\ PopFindsPacket
<1> SUFFICES ASSUME IInv, [Next]_vars PROVE Rely'
  OBVIOUS
<1> USE QueueAssumption, OnlyHandler
    DEF IInv, TypeOK, Goto, Lock, Unlock, Threads, PlacesOK, MutualExclusion, EndIsStill,
        SeenPacketStays, HandsEmpty, PopFindsPacket
<1>1. ASSUME NEW t \in Producers, BeginPush(t) PROVE Rely'
  BY <1>1 DEF BeginPush
<1>2. ASSUME NEW t \in Producers, NEW p \in Packets, Push(t, p) PROVE Rely'
  <2>1. packetQueue' # <<>>
    BY <1>2, StoreAppends, AppendProperties DEF Push
  <2> QED BY <1>2, <2>1 DEF Push
<1>3. ASSUME NEW t \in Producers, EndPush(t) PROVE Rely'
  BY <1>3 DEF EndPush
<1>4. ASSUME NEW h \in Handlers, IsEmpty(h) PROVE Rely'
  BY <1>4 DEF IsEmpty
<1>5. ASSUME NEW h \in Handlers, BeginPop(h) PROVE Rely'
  BY <1>5 DEF BeginPop
<1>6. ASSUME NEW h \in Handlers, Pop(h) PROVE Rely'
  BY <1>6 DEF Pop
<1>7. ASSUME NEW h \in Handlers, Handle(h) PROVE Rely'
  BY <1>7 DEF Handle
<1>8. CASE UNCHANGED vars
  BY <1>8 DEF vars
<1> QED
  BY <1>1, <1>2, <1>3, <1>4, <1>5, <1>6, <1>7, <1>8 DEF Next, ProducerStep, HandlerStep

\* The inductive invariant always holds.
LEMMA Invariance == Spec => []IInv
<1>1. IInv /\ [Next]_vars => IInv'
  BY NextTypeOK, NextOrder, NextRely DEF IInv
<1> QED BY InitIInv, <1>1, PTL DEF Spec

\* The variables of the queue always have their types.
THEOREM QueueTyped == Spec => []TypeOK
BY Invariance, PTL DEF IInv

\* With one handler thread, pop never finds the queue empty, although isEmpty
\* is asked without the mutex (PacketQueue.cpp, handlePacketThread).
THEOREM PopNeverFails == Spec => []PopFindsPacket
BY Invariance, PTL DEF IInv

\* Packets are handled in the order of their pushes, none lost and none twice.
THEOREM QueueIsFifo == Spec => []HandledInOrder
BY Invariance, PTL DEF IInv
=============================================================================
