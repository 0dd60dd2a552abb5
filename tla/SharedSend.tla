----------------------------- MODULE SharedSend -----------------------------
(***************************************************************************)
(* One direction of a connection, below the whole packets of Network.      *)
(*                                                                         *)
(* The sender copies each packet into its one sendBuffer and calls WSASend.*)
(* While less than SO_SNDBUF is on its way the kernel takes a copy at once;*)
(* otherwise the operation stays pending, and the kernel reads the buffer  *)
(* when there is room, whatever it holds by then, also in the midst of the *)
(* next memcpy.  Nothing in sendMessage waits for the completion.          *)
(*                                                                         *)
(* The receiver takes what one receive returns for one frame, without      *)
(* looking at transferredBytes; the buffer it receives into is zeroed.     *)
(*                                                                         *)
(* A frame is modelled by two halves, the coarsest shape in which it can be*)
(* torn by a memcpy or cut by a receive.  Packets are numbered as sent, and*)
(* a half is the number of the packet whose bytes it carries.              *)
(***************************************************************************)
EXTENDS Integers, Sequences

CONSTANTS
  SndFrames,  \* SO_SNDBUF, in frames
  MaxSends    \* bound: packets sent

ASSUME SendAssumption == SndFrames \in Nat \ {0} /\ MaxSends \in Nat

VARIABLES
  clears,       \* whether the sender is a ClientInfo, which clears its buffer first
  sends,        \* packets handed to sendMessage
  handler,      \* where in sendMessage its thread is, or "idle"
  sendBuffer,   \* its two halves; 0 is no packet
  transmitted,  \* the halves the kernel took from the sender, in order
  got,          \* how many of them the receiver has
  frames,       \* what it took for frames: where each starts, and its halves
  everPended    \* history: an operation did not complete at once

vars == <<clears, sends, handler, sendBuffer, transmitted, got, frames, everPended>>

Even(n) == n % 2 = 0

\* The operations WSASend was called for.  The kernel serves them in order, so
\* one is pending as long as it took fewer halves than they have.
Operations == IF handler = "idle" THEN sends ELSE sends - 1
Pending == Len(transmitted) < 2 * Operations
OnTheirWay == Len(transmitted) - got

\* ClientInfo::sendMessage, memset: first one half of the buffer is zeros...
BeginClear ==
  /\ clears
  /\ handler = "idle" /\ sends < MaxSends
  /\ sends' = sends + 1
  /\ handler' = "memset"
  /\ sendBuffer' = [sendBuffer EXCEPT ![1] = 0]
  /\ UNCHANGED <<clears, transmitted, got, frames, everPended>>

\* ...then the other.
EndClear ==
  /\ handler = "memset"
  /\ handler' = "cleared"
  /\ sendBuffer' = [sendBuffer EXCEPT ![2] = 0]
  /\ UNCHANGED <<clears, sends, transmitted, got, frames, everPended>>

\* sendMessage, memcpy: first one half of the packet is in the buffer...
BeginCopy ==
  /\ \/ ~clears /\ handler = "idle" /\ sends < MaxSends /\ sends' = sends + 1
     \/ handler = "cleared" /\ sends' = sends
  /\ handler' = "memcpy"
  /\ sendBuffer' = [sendBuffer EXCEPT ![1] = sends']
  /\ UNCHANGED <<clears, transmitted, got, frames, everPended>>

\* ...then the other.
EndCopy_Cut ==
  /\ handler = "memcpy"
  /\ handler' = "WSASend"
  /\ UNCHANGED <<clears, sends, sendBuffer, transmitted, got, frames, everPended>>
EndCopy ==
  /\ handler = "memcpy"
  /\ handler' = "WSASend"
  /\ sendBuffer' = [sendBuffer EXCEPT ![2] = sends]
  /\ UNCHANGED <<clears, sends, transmitted, got, frames, everPended>>

\* sendMessage, WSASend: the kernel copies the buffer, or WSA_IO_PENDING.
Send_Again ==
  /\ handler = "WSASend"
  /\ handler' = "idle"
  /\ transmitted' = transmitted \o sendBuffer \o sendBuffer
  /\ UNCHANGED <<clears, sends, sendBuffer, got, frames, everPended>>
Send ==
  /\ handler = "WSASend"
  /\ handler' = "idle"
  /\ \/ /\ ~Pending /\ OnTheirWay <= 2 * (SndFrames - 1)
        /\ transmitted' = transmitted \o sendBuffer
        /\ UNCHANGED everPended
     \/ /\ Pending \/ OnTheirWay > 2 * (SndFrames - 1)
        /\ everPended' = TRUE
        /\ UNCHANGED transmitted
  /\ UNCHANGED <<clears, sends, sendBuffer, got, frames>>

\* The kernel reads the next half of the oldest pending operation.
KernelReads ==
  /\ Pending
  /\ OnTheirWay < 2 * SndFrames
  /\ transmitted' = Append(transmitted, sendBuffer[IF Even(Len(transmitted)) THEN 1 ELSE 2])
  /\ UNCHANGED <<clears, sends, handler, sendBuffer, got, frames, everPended>>

\* workerThread of the receiver, and the receive it posted: a whole frame, or
\* as much as there was.
Receive_Once ==
  \E n \in 1 .. 2 :
    /\ frames = <<>>
    /\ n <= OnTheirWay
    /\ got' = got + n
    /\ frames' = Append(frames, [at |-> got + 1, size |-> n])
    /\ UNCHANGED <<clears, sends, handler, sendBuffer, transmitted, everPended>>
Receive_Empty ==
  \E n \in 0 .. 2 :
    /\ n <= OnTheirWay
    /\ got' = got + n
    /\ frames' = Append(frames, [at |-> got + 1, size |-> n])
    /\ UNCHANGED <<clears, sends, handler, sendBuffer, transmitted, everPended>>
Receive_Discards ==
  \E n \in 1 .. 2 :
    /\ n <= OnTheirWay
    /\ got' = got + OnTheirWay
    /\ frames' = Append(frames, [at |-> got + 1, size |-> n])
    /\ UNCHANGED <<clears, sends, handler, sendBuffer, transmitted, everPended>>
Receive ==
  \E n \in 1 .. 2 :
    /\ n <= OnTheirWay
    /\ got' = got + n
    /\ frames' = Append(frames, [at |-> got + 1, size |-> n])
    /\ UNCHANGED <<clears, sends, handler, sendBuffer, transmitted, everPended>>

Init ==
  /\ clears \in BOOLEAN
  /\ sends = 0
  /\ handler = "idle"
  /\ sendBuffer = <<0, 0>>
  /\ transmitted = <<>>
  /\ got = 0
  /\ frames = <<>>
  /\ everPended = FALSE

Next == BeginClear \/ EndClear \/ BeginCopy \/ EndCopy \/ Send \/ KernelReads \/ Receive

Spec == Init /\ [][Next]_vars

\* The handler finishes a sendMessage it began, the kernel transmits, and the
\* worker receives.  Nobody has to send.
FairSpec ==
  /\ Spec
  /\ WF_vars(EndClear) /\ WF_vars(handler = "cleared" /\ BeginCopy)
  /\ WF_vars(EndCopy) /\ WF_vars(Send)
  /\ WF_vars(KernelReads) /\ WF_vars(Receive)

TypeOK ==
  /\ clears \in BOOLEAN
  /\ sends \in 0 .. MaxSends
  /\ handler \in {"idle", "memset", "cleared", "memcpy", "WSASend"}
  /\ sendBuffer \in [1 .. 2 -> 0 .. MaxSends]
  /\ transmitted \in Seq(0 .. MaxSends)
  /\ got \in Nat
  /\ frames \in Seq([at : Nat, size : 1 .. 2])
  /\ everPended \in BOOLEAN

\* While every operation completed at once and every receive returned a whole
\* frame, what the receiver handles are the packets, each once, whole, and in
\* order: the links of module Network.
NeverShort == \A k \in DOMAIN frames : frames[k].size = 2
PacketsArriveWhole ==
  ~everPended /\ NeverShort =>
    \A k \in DOMAIN frames :
      /\ frames[k].at = 2 * k - 1
      /\ transmitted[2 * k - 1] = k /\ transmitted[2 * k] = k

\* Whatever is pending, the operation of a packet sends its bytes or those of
\* later packets, never older ones and never something that was not sent; zeros
\* only where the buffer is cleared.
NeverOlder ==
  \A i \in DOMAIN transmitted :
    \/ (i + 1) \div 2 <= transmitted[i] /\ transmitted[i] <= sends
    \/ clears /\ transmitted[i] = 0

\* The last packet of a burst goes out unharmed: only packets that another one
\* followed can be overwritten.
LastGoesOut ==
  handler = "idle" /\ sends > 0 /\ ~Pending =>
    transmitted[2 * sends - 1] = sends /\ transmitted[2 * sends] = sends

\* After one receive that was short nothing the receiver handles is a packet,
\* until another one is short too.
ShortsBefore(k) == {j \in 1 .. k - 1 : frames[j].size = 1}
SpoiltAfterShort ==
  \A j, k \in DOMAIN frames : ShortsBefore(k) = {j} => Even(frames[k].at)

\* Every byte of every packet handed over arrives, its own or a later one's.
EverythingArrives ==
  \A n \in 1 .. MaxSends : (sends >= n) ~> (got >= 2 * n)
=============================================================================
