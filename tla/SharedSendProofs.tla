-------------------------- MODULE SharedSendProofs --------------------------
(***************************************************************************)
(* Proofs about SharedSend, for any size of the kernel's buffer, any number*)
(* of packets, and both kinds of sender.                                   *)
(***************************************************************************)
EXTENDS SharedSend, SequenceTheorems, TLAPS

\* What is in the buffer, by where the handler is in sendMessage.
BufferHolds ==
  /\ sends = 0 => handler = "idle"
  /\ handler \in {"idle", "WSASend"} => sendBuffer[1] = sends /\ sendBuffer[2] = sends
  /\ handler = "memset" => clears /\ sendBuffer[1] = 0 /\ sendBuffer[2] = sends - 1
  /\ handler = "cleared" => clears /\ sendBuffer[1] = 0 /\ sendBuffer[2] = 0
  /\ handler = "memcpy" => /\ sendBuffer[1] = sends
                           /\ sendBuffer[2] = sends - 1 \/ (clears /\ sendBuffer[2] = 0)

\* The kernel takes no more than it was asked to send, and the receiver no more
\* than the kernel took.
Bounded == Len(transmitted) <= 2 * Operations /\ got <= Len(transmitted)

\* Once sendMessage has returned the buffer holds the last packet, so whatever
\* the kernel took of that operation is this packet.
LastIsWhole ==
  handler = "idle" => \A i \in DOMAIN transmitted : i > 2 * sends - 2 => transmitted[i] = sends

\* While every operation completed at once each packet went out whole.
AtOnce ==
  ~everPended => /\ Len(transmitted) = 2 * Operations
                 /\ \A i \in DOMAIN transmitted : transmitted[i] = (i + 1) \div 2

\* While no receive was short every frame began where a packet did.
WholeSoFar ==
  NeverShort => got = 2 * Len(frames) /\ (\A k \in DOMAIN frames : frames[k].at = 2 * k - 1)

\* Where the next frame begins counts the receives that were short, up to one.
Starts(k) == IF k \in DOMAIN frames THEN frames[k].at ELSE got + 1
OneShortShifts ==
  \A k \in 1 .. Len(frames) + 1 :
    /\ ShortsBefore(k) = {} => Starts(k) % 2 = 1
    /\ \A j \in DOMAIN frames : ShortsBefore(k) = {j} => Starts(k) % 2 = 0

SendInv == TypeOK /\ BufferHolds /\ Bounded /\ NeverOlder /\ LastIsWhole /\ AtOnce
IInv == SendInv /\ WholeSoFar /\ OneShortShifts

\* The two halves of a buffer are a sequence of two.
LEMMA BufferIsSeq ==
  ASSUME NEW S, NEW b \in [1 .. 2 -> S]
  PROVE  b \in Seq(S) /\ Len(b) = 2
<1>1. b \in Seq(S)
  BY SeqDef
<1> QED BY <1>1, LenProperties

\* The kernel takes a whole buffer...
LEMMA TakesBuffer ==
  ASSUME NEW S, NEW s \in Seq(S), NEW b \in [1 .. 2 -> S]
  PROVE  /\ s \o b \in Seq(S)
         /\ Len(s \o b) = Len(s) + 2
         /\ \A i \in 1 .. Len(s) : (s \o b)[i] = s[i]
         /\ (s \o b)[Len(s) + 1] = b[1]
         /\ (s \o b)[Len(s) + 2] = b[2]
<1>1. /\ s \o b \in Seq(S) /\ Len(s \o b) = Len(s) + 2
      /\ \A i \in 1 .. Len(s) + 2 : (s \o b)[i] = IF i <= Len(s) THEN s[i] ELSE b[i - Len(s)]
  <2>1. b \in Seq(S) /\ Len(b) = 2
    BY BufferIsSeq
  <2>2. /\ s \o b \in Seq(S) /\ Len(s \o b) = Len(s) + Len(b)
        /\ \A i \in 1 .. Len(s) + Len(b) :
             (s \o b)[i] = IF i <= Len(s) THEN s[i] ELSE b[i - Len(s)]
    BY <2>1, ConcatProperties
  <2> QED BY <2>1, <2>2
<1>2. Len(s) \in Nat
  BY LenProperties
<1> QED BY <1>1, <1>2

\* Odd and even places, and the packet a place belongs to.
LEMMA Places ==
  ASSUME NEW a \in Nat
  PROVE  /\ (2 * a) \div 2 = a /\ (2 * a + 1) \div 2 = a
         /\ (a + 2) % 2 = a % 2
         /\ a % 2 = 1 => (a + 1) % 2 = 0
OBVIOUS

\* ...or one half of it.
LEMMA TakesHalf ==
  ASSUME NEW S, NEW s \in Seq(S), NEW h \in S
  PROVE  /\ Append(s, h) \in Seq(S)
         /\ Len(Append(s, h)) = Len(s) + 1
         /\ \A i \in 1 .. Len(s) : Append(s, h)[i] = s[i]
         /\ Append(s, h)[Len(s) + 1] = h
BY AppendProperties, LenProperties

LEMMA InitIInv == Init => IInv
<1> SUFFICES ASSUME Init PROVE IInv
  OBVIOUS
<1> USE DEF Init
<1>1. SendInv
  <2>1. Len(transmitted) = 0 /\ DOMAIN transmitted = {}
    OBVIOUS
  <2>2. TypeOK
    <3>1. sendBuffer \in [1 .. 2 -> 0 .. MaxSends]
      BY SendAssumption
    <3>2. transmitted \in Seq(0 .. MaxSends) /\ frames \in Seq([at : Nat, size : 1 .. 2])
      BY EmptySeq
    <3>3. clears \in BOOLEAN /\ everPended \in BOOLEAN
      OBVIOUS
    <3>4. /\ sends \in 0 .. MaxSends /\ got \in Nat
          /\ handler \in {"idle", "memset", "cleared", "memcpy", "WSASend"}
      BY SendAssumption
    <3> HIDE DEF Init
    <3> QED BY <3>1, <3>2, <3>3, <3>4 DEF TypeOK
  <2>3. BufferHolds /\ Bounded
    BY <2>1 DEF BufferHolds, Bounded, Operations
  <2>4. NeverOlder /\ LastIsWhole /\ AtOnce
    BY <2>1 DEF NeverOlder, LastIsWhole, AtOnce, Operations
  <2> QED BY <2>2, <2>3, <2>4 DEF SendInv
<1>2. WholeSoFar
  BY DEF WholeSoFar
<1>3. OneShortShifts
  BY DEF OneShortShifts, Starts, ShortsBefore
<1> QED BY <1>1, <1>2, <1>3 DEF IInv

\* The steps of the handler that send nothing yet leave the kernel what it had.
LEMMA HandlerPreserves ==
  ASSUME SendInv, BeginClear \/ EndClear \/ BeginCopy \/ EndCopy
  PROVE  SendInv'
<1> USE SendAssumption DEF SendInv, TypeOK
<1>1. TypeOK'
  BY DEF BeginClear, EndClear, BeginCopy, EndCopy
<1>2. BufferHolds'
  BY DEF BufferHolds, BeginClear, EndClear, BeginCopy, EndCopy
<1>3. Operations' = Operations /\ transmitted' = transmitted /\ got' = got
  BY DEF Operations, BeginClear, EndClear, BeginCopy, EndCopy, BufferHolds
<1>4. Bounded' /\ AtOnce'
  BY <1>3 DEF Bounded, AtOnce, BeginClear, EndClear, BeginCopy, EndCopy
<1>5. NeverOlder'
  BY DEF NeverOlder, BeginClear, EndClear, BeginCopy, EndCopy
<1>6. LastIsWhole'
  BY DEF LastIsWhole, BeginClear, EndClear, BeginCopy, EndCopy
<1> QED BY <1>1, <1>2, <1>4, <1>5, <1>6

\* WSASend takes the whole packet, or only makes it the last operation.
LEMMA SendPreserves ==
  ASSUME SendInv, Send
  PROVE  SendInv'
<1>1. /\ sends \in Nat /\ sends > 0 /\ sends <= MaxSends /\ MaxSends \in Nat
      /\ sendBuffer[1] = sends /\ sendBuffer[2] = sends
      /\ sendBuffer \in [1 .. 2 -> 0 .. MaxSends]
      /\ transmitted \in Seq(0 .. MaxSends)
  BY SendAssumption DEF SendInv, TypeOK, Send, BufferHolds
<1>2. /\ handler = "WSASend" /\ handler' = "idle"
      /\ UNCHANGED <<clears, sends, sendBuffer, got, frames>>
  BY DEF Send
<1>3. Operations = sends - 1 /\ Operations' = sends
  BY <1>2 DEF Operations
<1>4. Len(transmitted) \in Nat /\ DOMAIN transmitted = 1 .. Len(transmitted)
  BY <1>1, LenProperties
<1>5. Len(transmitted) <= 2 * sends - 2 /\ got <= Len(transmitted)
  BY <1>1, <1>3 DEF SendInv, Bounded
<1>6. BufferHolds'
  BY <1>1, <1>2 DEF BufferHolds
<1>7. CASE everPended' /\ transmitted' = transmitted
  <2>1. TypeOK'
    BY <1>1, <1>2, <1>7 DEF SendInv, TypeOK
  <2>2. Bounded'
    BY <1>1, <1>2, <1>3, <1>4, <1>5, <1>7 DEF Bounded
  <2>3. NeverOlder'
    BY <1>2, <1>7 DEF SendInv, NeverOlder
  <2>4. LastIsWhole'
    BY <1>1, <1>2, <1>4, <1>5, <1>7 DEF LastIsWhole
  <2>5. AtOnce'
    BY <1>7 DEF AtOnce
  <2> QED BY <1>6, <2>1, <2>2, <2>3, <2>4, <2>5 DEF SendInv
<1>8. CASE ~Pending /\ transmitted' = transmitted \o sendBuffer /\ everPended' = everPended
  <2>1. Len(transmitted) = 2 * sends - 2
    <3>1. ~(Len(transmitted) < 2 * (sends - 1))
      BY <1>3, <1>8 DEF Pending
    <3> QED BY <1>1, <1>4, <1>5, <3>1
  <2>2. /\ transmitted' \in Seq(0 .. MaxSends)
        /\ Len(transmitted') = 2 * sends
        /\ \A i \in 1 .. Len(transmitted) : transmitted'[i] = transmitted[i]
        /\ transmitted'[2 * sends - 1] = sends
        /\ transmitted'[2 * sends] = sends
    <3>1. /\ transmitted' \in Seq(0 .. MaxSends)
          /\ Len(transmitted') = Len(transmitted) + 2
          /\ \A i \in 1 .. Len(transmitted) : transmitted'[i] = transmitted[i]
          /\ transmitted'[Len(transmitted) + 1] = sends
          /\ transmitted'[Len(transmitted) + 2] = sends
      BY <1>1, <1>8, TakesBuffer
    <3>2. Len(transmitted) + 1 = 2 * sends - 1 /\ Len(transmitted) + 2 = 2 * sends
      BY <1>1, <2>1
    <3> QED BY <3>1, <3>2
  <2>3. DOMAIN transmitted' = 1 .. 2 * sends
    BY <2>2, LenProperties
  <2>4. \A i \in DOMAIN transmitted' :
          \/ i \in DOMAIN transmitted /\ transmitted'[i] = transmitted[i]
          \/ i \in {2 * sends - 1, 2 * sends} /\ transmitted'[i] = sends
    <3> SUFFICES ASSUME NEW i \in 1 .. 2 * sends
                 PROVE  \/ i \in 1 .. Len(transmitted) /\ transmitted'[i] = transmitted[i]
                        \/ i \in {2 * sends - 1, 2 * sends} /\ transmitted'[i] = sends
      BY <1>4, <2>3
    <3>1. i \in 1 .. Len(transmitted) \/ i = 2 * sends - 1 \/ i = 2 * sends
      BY <1>1, <2>1
    <3> QED BY <2>2, <3>1
  <2>5. \A i \in {2 * sends - 1, 2 * sends} : (i + 1) \div 2 = sends
    BY <1>1, Places
  <2>6. TypeOK'
    BY <1>1, <1>2, <1>8, <2>2 DEF SendInv, TypeOK
  <2>7. Bounded'
    BY <1>1, <1>2, <1>3, <1>4, <1>5, <2>1, <2>2 DEF Bounded, SendInv, TypeOK
  <2>8. NeverOlder'
    BY <1>1, <1>2, <2>4, <2>5 DEF SendInv, NeverOlder
  <2>9. LastIsWhole'
    BY <1>1, <1>2, <1>4, <2>1, <2>4 DEF LastIsWhole
  <2>10. AtOnce'
    <3> SUFFICES ASSUME ~everPended'
                 PROVE  \A i \in DOMAIN transmitted' : transmitted'[i] = (i + 1) \div 2
      BY <1>3, <2>2 DEF AtOnce
    <3>1. \A i \in DOMAIN transmitted : transmitted[i] = (i + 1) \div 2
      BY <1>8 DEF SendInv, AtOnce
    <3> QED BY <2>4, <2>5, <3>1
  <2> QED BY <1>6, <2>6, <2>7, <2>8, <2>9, <2>10 DEF SendInv
<1> QED BY <1>7, <1>8 DEF Send

\* What the kernel reads late is of the packet it was asked for, or of one that
\* was sent after it.
LEMMA KernelPreserves ==
  ASSUME SendInv, KernelReads
  PROVE  SendInv'
<1> USE SendAssumption DEF SendInv, TypeOK
<1> DEFINE n == Len(transmitted) + 1
           half == sendBuffer[IF Even(Len(transmitted)) THEN 1 ELSE 2]
<1>1. /\ transmitted' \in Seq(0 .. MaxSends)
      /\ Len(transmitted') = n
      /\ \A i \in 1 .. Len(transmitted) : transmitted'[i] = transmitted[i]
      /\ transmitted'[n] = half
  BY TakesHalf DEF KernelReads
<1>2. n <= 2 * Operations /\ Operations' = Operations
  BY DEF KernelReads, Pending, Operations
<1>3. sends > 0
  BY <1>2 DEF Operations, BufferHolds
<1>4. half \in {sends, sends - 1} \/ (clears /\ half = 0)
  BY <1>3 DEF BufferHolds
<1>5. handler = "idle" => half = sends
  BY <1>3 DEF BufferHolds
<1>6. (n + 1) \div 2 <= Operations
  BY <1>2, <1>3 DEF Operations
<1>7. (n + 1) \div 2 <= half \/ (clears /\ half = 0)
  BY <1>4, <1>5, <1>6 DEF Operations
<1>8. TypeOK' /\ BufferHolds' /\ Bounded'
  BY <1>1, <1>2 DEF KernelReads, BufferHolds, Bounded
<1>9. \A i \in DOMAIN transmitted' : i \in DOMAIN transmitted \/ i = n
  BY <1>1
<1>10. NeverOlder'
  BY <1>1, <1>4, <1>7, <1>9 DEF NeverOlder, KernelReads
<1>11. LastIsWhole'
  BY <1>1, <1>5, <1>9 DEF LastIsWhole, KernelReads
<1>12. AtOnce'
  BY <1>2 DEF AtOnce, KernelReads
<1> QED BY <1>8, <1>10, <1>11, <1>12

\* The receiver leaves the sender alone, and never takes more than there is.
LEMMA ReceivePreserves ==
  ASSUME IInv, Receive
  PROVE  IInv'
<1> USE DEF IInv
<1> PICK n \in 1 .. 2 :
      /\ n <= OnTheirWay
      /\ got' = got + n
      /\ frames' = Append(frames, [at |-> got + 1, size |-> n])
      /\ UNCHANGED <<clears, sends, handler, sendBuffer, transmitted, everPended>>
  BY DEF Receive
<1> DEFINE F == [at : Nat, size : 1 .. 2]
           new == [at |-> got + 1, size |-> n]
<1>1. /\ frames \in Seq(F) /\ got \in Nat /\ new \in F /\ Len(transmitted) \in Nat
      /\ DOMAIN frames = 1 .. Len(frames) /\ Len(frames) \in Nat
  BY LenProperties DEF SendInv, TypeOK
<1> PICK m \in Nat : m = Len(frames) + 1
  BY <1>1
<1>2. /\ frames' \in Seq(F) /\ Len(frames') = m /\ DOMAIN frames' = 1 .. m
      /\ \A k \in 1 .. Len(frames) : frames'[k] = frames[k]
      /\ frames'[m] = new
  BY <1>1, TakesHalf, LenProperties
<1>3. SendInv'
  <2>1. TypeOK'
    BY <1>1, <1>2 DEF SendInv, TypeOK
  <2>2. got' <= Len(transmitted')
    BY <1>1 DEF OnTheirWay
  <2> QED BY <2>1, <2>2 DEF SendInv, BufferHolds, Bounded, Operations, NeverOlder, LastIsWhole, AtOnce
<1>4. WholeSoFar'
  <2> SUFFICES ASSUME NeverShort'
               PROVE  got' = 2 * m /\ (\A k \in 1 .. m : frames'[k].at = 2 * k - 1)
    BY <1>1, <1>2 DEF WholeSoFar
  <2>0. \A k \in 1 .. m : frames'[k].size = 2
    BY <1>2 DEF NeverShort
  <2>1. NeverShort /\ n = 2
    <3>1. m \in 1 .. m /\ frames'[m].size = n
      BY <1>1, <1>2
    <3>2. NeverShort
      BY <1>1, <1>2, <2>0 DEF NeverShort
    <3> QED BY <2>0, <3>1, <3>2
  <2>2. got = 2 * Len(frames) /\ (\A k \in 1 .. Len(frames) : frames[k].at = 2 * k - 1)
    BY <1>1, <2>1 DEF WholeSoFar
  <2>3. \A k \in 1 .. m : k \in 1 .. Len(frames) \/ k = m
    BY <1>1
  <2>4. got' = 2 * m /\ frames'[m].at = 2 * m - 1
    BY <1>1, <1>2, <2>1, <2>2
  <2> QED BY <1>2, <2>2, <2>3, <2>4
<1>5. OneShortShifts'
  <2>1. \A k \in 1 .. m : ShortsBefore(k)' = ShortsBefore(k) /\ Starts(k)' = Starts(k)
    BY <1>1, <1>2 DEF ShortsBefore, Starts
  <2>2. ShortsBefore(m + 1)' = ShortsBefore(m) \cup (IF n = 1 THEN {m} ELSE {})
    <3>1. ShortsBefore(m + 1)' = {j \in 1 .. m : frames'[j].size = 1}
      BY DEF ShortsBefore
    <3>2. ShortsBefore(m) = {j \in 1 .. Len(frames) : frames[j].size = 1}
      BY <1>1 DEF ShortsBefore
    <3>3. frames'[m].size = n
      BY <1>2
    <3>4. 1 .. m = (1 .. Len(frames)) \cup {m}
      BY <1>1
    <3> QED BY <1>2, <3>1, <3>2, <3>3, <3>4
  <2>3. Starts(m + 1)' = got + n + 1 /\ Starts(m) = got + 1
    BY <1>1, <1>2 DEF Starts
  <2>4. m \notin ShortsBefore(m)
    BY <1>1 DEF ShortsBefore
  <2>5. ASSUME ShortsBefore(m + 1)' = {}
        PROVE  Starts(m + 1)' % 2 = 1
    <3>1. n = 2 /\ ShortsBefore(m) = {}
      BY <2>2, <2>5
    <3>2. (got + 1) % 2 = 1
      BY <1>1, <2>3, <3>1 DEF OneShortShifts
    <3> QED BY <1>1, <2>3, <3>1, <3>2, Places
  <2>6. ASSUME NEW j \in DOMAIN frames', ShortsBefore(m + 1)' = {j}
        PROVE  Starts(m + 1)' % 2 = 0
    <3>1. CASE n = 1
      <4>1. ShortsBefore(m) = {}
        BY <2>2, <2>4, <2>6, <3>1
      <4>2. (got + 1) % 2 = 1
        BY <1>1, <2>3, <4>1 DEF OneShortShifts
      <4> QED BY <1>1, <2>3, <3>1, <4>2, Places
    <3>2. CASE n = 2
      <4>1. ShortsBefore(m) = {j} /\ j \in DOMAIN frames
        BY <1>1, <2>2, <2>6, <3>2 DEF ShortsBefore
      <4>2. \A i \in DOMAIN frames : ShortsBefore(m) = {i} => Starts(m) % 2 = 0
        <5>1. m \in 1 .. Len(frames) + 1
          BY <1>1
        <5> QED BY <5>1, Zenon DEF OneShortShifts
      <4>3. (got + 1) % 2 = 0
        BY <2>3, <4>1, <4>2
      <4> QED BY <1>1, <2>3, <3>2, <4>3, Places
    <3> QED BY <3>1, <3>2
  <2>7. \A k \in 1 .. m : \A j \in DOMAIN frames' :
          ShortsBefore(k)' = {j} => j \in DOMAIN frames
    BY <1>1, <1>2 DEF ShortsBefore
  <2>8. \A k \in 1 .. m :
          /\ ShortsBefore(k)' = {} => Starts(k)' % 2 = 1
          /\ \A j \in DOMAIN frames' : ShortsBefore(k)' = {j} => Starts(k)' % 2 = 0
    BY <1>1, <2>1, <2>7 DEF OneShortShifts
  <2>9. Len(frames') + 1 = m + 1 /\ (\A k \in 1 .. m + 1 : k \in 1 .. m \/ k = m + 1)
    BY <1>1, <1>2
  <2> QED BY <2>5, <2>6, <2>8, <2>9 DEF OneShortShifts
<1> QED BY <1>3, <1>4, <1>5

\* What the receiver has is left alone by the sender and by the kernel.
LEMMA FramesKept ==
  ASSUME WholeSoFar, OneShortShifts, UNCHANGED <<got, frames>>
  PROVE  WholeSoFar' /\ OneShortShifts'
<1>1. WholeSoFar'
  BY DEF WholeSoFar, NeverShort
<1>2. OneShortShifts'
  BY DEF OneShortShifts, Starts, ShortsBefore
<1> QED BY <1>1, <1>2

LEMMA NextIInv == IInv /\ [Next]_vars => IInv'
<1> SUFFICES ASSUME IInv, [Next]_vars PROVE IInv'
  OBVIOUS
<1>1. CASE BeginClear \/ EndClear \/ BeginCopy \/ EndCopy
  <2>1. UNCHANGED <<got, frames>>
    BY <1>1 DEF BeginClear, EndClear, BeginCopy, EndCopy
  <2> QED BY <1>1, <2>1, HandlerPreserves, FramesKept DEF IInv
<1>2. CASE Send
  <2>1. UNCHANGED <<got, frames>>
    BY <1>2 DEF Send
  <2> QED BY <1>2, <2>1, SendPreserves, FramesKept DEF IInv
<1>3. CASE KernelReads
  <2>1. UNCHANGED <<got, frames>>
    BY <1>3 DEF KernelReads
  <2> QED BY <1>3, <2>1, KernelPreserves, FramesKept DEF IInv
<1>4. CASE Receive
  BY <1>4, ReceivePreserves
<1>5. CASE UNCHANGED vars
  <2>1. SendInv'
    BY <1>5 DEF IInv, vars, SendInv, TypeOK, BufferHolds, Bounded, Operations, NeverOlder, LastIsWhole, AtOnce
  <2>2. UNCHANGED <<got, frames>>
    BY <1>5 DEF vars
  <2> QED BY <2>1, <2>2, FramesKept DEF IInv
<1> QED BY <1>1, <1>2, <1>3, <1>4, <1>5 DEF Next

LEMMA Inductive == Spec => []IInv
<1>1. Init => IInv
  BY InitIInv
<1>2. IInv /\ [Next]_vars => IInv'
  BY NextIInv
<1> QED BY <1>1, <1>2, PTL DEF Spec

\* Every variable of the two ends and of the kernel between them keeps its type.
THEOREM Typed == Spec => []TypeOK
<1>1. IInv => TypeOK
  BY DEF IInv, SendInv
<1> QED BY <1>1, Inductive, PTL

\* A sendBuffer that is used again before the kernel read it loses packets to
\* later ones, never to earlier ones, and puts zeros in only where it is cleared.
THEOREM LaterBytesOnly == Spec => []NeverOlder
<1>1. IInv => NeverOlder
  BY DEF IInv, SendInv
<1> QED BY <1>1, Inductive, PTL

\* A packet that no other one followed goes out unharmed, even if it had to wait.
THEOREM LastPacketGoesOut == Spec => []LastGoesOut
<1>1. IInv => LastGoesOut
  <2> SUFFICES ASSUME IInv, handler = "idle", sends > 0, ~Pending
               PROVE  transmitted[2 * sends - 1] = sends /\ transmitted[2 * sends] = sends
    BY DEF LastGoesOut
  <2>1. sends \in Nat /\ transmitted \in Seq(0 .. MaxSends)
    BY DEF IInv, SendInv, TypeOK
  <2>2. Len(transmitted) = 2 * sends
    BY <2>1 DEF IInv, SendInv, Bounded, Pending, Operations
  <2>3. 2 * sends - 1 \in DOMAIN transmitted /\ 2 * sends \in DOMAIN transmitted
    BY <2>1, <2>2
  <2> QED BY <2>1, <2>3 DEF IInv, SendInv, LastIsWhole
<1> QED BY <1>1, Inductive, PTL

\* Where nothing pends and no receive is short, the receiver handles the packets
\* as they were sent: the FIFO links the other modules take for granted.
THEOREM LinksAreFifo == Spec => []PacketsArriveWhole
<1>1. IInv => PacketsArriveWhole
  <2> SUFFICES ASSUME IInv, ~everPended, NeverShort, NEW k \in DOMAIN frames
               PROVE  /\ frames[k].at = 2 * k - 1
                      /\ transmitted[2 * k - 1] = k /\ transmitted[2 * k] = k
    BY DEF PacketsArriveWhole
  <2>1. /\ transmitted \in Seq(0 .. MaxSends) /\ got \in Nat
        /\ frames \in Seq([at : Nat, size : 1 .. 2])
    BY DEF IInv, SendInv, TypeOK
  <2>2. frames[k].at = 2 * k - 1 /\ 2 * Len(frames) <= Len(transmitted)
    BY <2>1 DEF IInv, SendInv, WholeSoFar, Bounded
  <2>3. 2 * k - 1 \in DOMAIN transmitted /\ 2 * k \in DOMAIN transmitted /\ k \in Nat
    BY <2>1, <2>2
  <2>4. \A i \in DOMAIN transmitted : transmitted[i] = (i + 1) \div 2
    BY DEF IInv, SendInv, AtOnce
  <2>5. (2 * k - 1 + 1) \div 2 = k /\ (2 * k + 1) \div 2 = k
    BY <2>3
  <2> QED BY <2>2, <2>3, <2>4, <2>5
<1> QED BY <1>1, Inductive, PTL

\* A frame after one short receive begins in the midst of a packet.
THEOREM ShortSpoils == Spec => []SpoiltAfterShort
<1>1. IInv => SpoiltAfterShort
  <2> SUFFICES ASSUME IInv, NEW j \in DOMAIN frames, NEW k \in DOMAIN frames, ShortsBefore(k) = {j}
               PROVE  Even(frames[k].at)
    BY DEF SpoiltAfterShort
  <2>1. frames \in Seq([at : Nat, size : 1 .. 2])
    BY DEF IInv, SendInv, TypeOK
  <2>2. k \in 1 .. Len(frames) + 1
    BY <2>1
  <2> QED BY <2>2 DEF IInv, OneShortShifts, Starts, Even
<1> QED BY <1>1, Inductive, PTL
=============================================================================
