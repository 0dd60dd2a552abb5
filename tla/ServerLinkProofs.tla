-------------------------- MODULE ServerLinkProofs -------------------------
(***************************************************************************)
(* Proofs about ServerLink, for any number of relays, one after the other, *)
(* and of requests.                                                        *)
(***************************************************************************)
EXTENDS ServerLink, SequenceTheorems, TLAPS

Ended == {"gone", "crashed"}

\* The types of what the properties depend on.
PhaseType ==
  /\ phase \in [Relays -> {"none", "connect", "running", "gone", "crashed"}]
  /\ tcp \in [Relays -> {"none", "connecting", "established", "fin", "rst"}]
SockType ==
  /\ relayServSock \in 0 .. MaxRelays
  /\ accepting \in {"accept", "receive"}
  /\ sock \in [Relays -> {"none", "open", "closed"}]
PostedType == posted \in [Relays -> Nat] /\ writes \in [Relays -> Nat]
Frames(R) == [asker : R, last : BOOLEAN]
LinkType ==
  /\ toRelay \in [Relays -> Seq(Frames(Relays))]
  /\ packetQueue \in Seq(Relays) /\ handling \in Relays \cup {0}
SetType == overlapped \subseteq inherited /\ inherited \subseteq Relays
Types == PhaseType /\ SockType /\ PostedType /\ LinkType /\ SetType

\* A relay starts when those before it have ended...
OneAtATime == \A q, r \in Relays : q < r /\ phase[r] # "none" => phase[q] \in Ended

\* ...and its connection is there while it runs, and over when it has ended.
TcpOK ==
  \A r \in Relays :
    /\ phase[r] = "none" => tcp[r] = "none"
    /\ Running(r) => tcp[r] \in {"connecting", "established"}
    /\ phase[r] \in Ended => tcp[r] \in {"none", "fin", "rst"}
    /\ sock[r] # "none" => tcp[r] \in {"established", "fin", "rst"}

\* relayServSock is the last connection accepted, and none before it is left to
\* accept.
Accepted ==
  /\ \A r \in Relays : sock[r] # "none" => r <= relayServSock
  /\ relayServSock # 0 => sock[relayServSock] # "none"
  /\ relayServSock = 0 => accepting = "accept" /\ packetQueue = <<>> /\ handling = 0
  /\ \A q \in Relays : q < relayServSock /\ sock[q] = "none" => tcp[q] = "none"

\* Operations belong to connections that were accepted.
Operating == \A r \in Relays : posted[r] > 0 \/ writes[r] > 0 => sock[r] # "none"

\* A relay accepted when nothing older was to be dequeued has the worker to itself...
NothingOld ==
  \A r \in Relays :
    relayServSock = r /\ r \notin overlapped =>
      \A q \in Relays : posted[q] > 0 \/ writes[q] > 0 => q = r

\* ...and the handler, when no older request was left either.
OwnWork ==
  \A r \in Relays : r \notin inherited =>
    /\ toRelay[r] \in Seq(Frames({r}))
    /\ relayServSock = r => packetQueue \in Seq({r}) /\ handling \in {r, 0}

\* The first relay inherits nothing.
FirstInherits == 1 \notin inherited
MainAndWorker == server \in {"main", "worker"} => phase[1] = "gone"
Crashes == \A r \in Relays : phase[r] = "crashed" => ~ServerUp \/ r \in inherited

RelayInv == OneAtATime /\ TcpOK
ServerInv == Accepted /\ Operating
LinkInv == RelayHeard /\ NothingOld /\ OwnWork /\ ClosedOnlyIfOverlapped
EndInv == FirstInherits /\ MainAndWorker /\ Crashes
IInv == Types /\ RelayInv /\ ServerInv /\ LinkInv /\ EndInv

LEMMA First == 1 \in Relays /\ (\A r \in Relays : r \in Nat /\ r >= 1)
BY LinkAssumption DEF Relays

\* Once a relay after the first was started, or a relay has ended, the first one has; and
\* while the server lives it ended by its user.
LEMMA FirstGone ==
  ASSUME IInv, ServerUp, NEW q \in Relays, phase[q] # "none", q = 1 => phase[q] \in Ended
  PROVE  phase[1] = "gone"
<1>1. phase[1] \in Ended
  BY First DEF IInv, RelayInv, OneAtATime, Ended
<1>2. phase[1] # "crashed"
  BY First DEF IInv, EndInv, Crashes, FirstInherits
<1> QED BY <1>1, <1>2 DEF Ended

LEMMA InitIInv == Init => IInv
<1> SUFFICES ASSUME Init PROVE IInv
  OBVIOUS
<1> USE LinkAssumption, First DEF Init, Relays
<1>1. PhaseType
  BY DEF PhaseType
<1>2. SockType
  BY DEF SockType
<1>3. PostedType
  BY DEF PostedType
<1>4. LinkType
  BY DEF LinkType
<1>5. SetType
  BY DEF SetType
<1>6. OneAtATime
  BY DEF OneAtATime
<1>7. TcpOK
  BY DEF TcpOK, Running, Ended
<1>8. Accepted
  BY DEF Accepted
<1>9. Operating
  BY DEF Operating
<1>10. RelayHeard
  BY DEF RelayHeard, Running
<1>11. NothingOld
  BY DEF NothingOld
<1>12. OwnWork
  BY DEF OwnWork
<1>13. ClosedOnlyIfOverlapped
  BY DEF ClosedOnlyIfOverlapped, Running
<1>14. FirstInherits /\ MainAndWorker /\ Crashes
  BY DEF FirstInherits, MainAndWorker, Crashes
<1> QED BY <1>1, <1>2, <1>3, <1>4, <1>5, <1>6, <1>7, <1>8, <1>9, <1>10, <1>11, <1>12, <1>13, <1>14
     DEF IInv, Types, RelayInv, ServerInv, LinkInv, EndInv

\* A relay starts, its connection is established, and it goes on to run.
LEMMA StartPreserves ==
  ASSUME IInv, NEW r \in Relays, Connect(r) \/ Establish(r) \/ Listen(r) PROVE IInv'
<1> USE First
<1>1. UNCHANGED <<sock, posted, writes, relayServSock, accepting, packetQueue, handling,
                  overlapped, inherited, server, toRelay>>
  BY DEF Connect, Establish, Listen, tcpVars, relayVars, serverVars, acceptVars, handlerVars
<1>2. \/ /\ phase[r] = "none" /\ \A q \in Relays : q < r => phase[q] \in Ended
         /\ phase' = [phase EXCEPT ![r] = "connect"]
         /\ tcp' = [tcp EXCEPT ![r] = "connecting"]
      \/ /\ tcp[r] = "connecting" /\ tcp' = [tcp EXCEPT ![r] = "established"]
         /\ phase' = phase
      \/ /\ phase[r] = "connect" /\ phase' = [phase EXCEPT ![r] = "running"]
         /\ tcp' = tcp
  BY LinkAssumption DEF Connect, Establish, Listen, Ended, Relays, tcpVars, serverVars, relayVars
<1>3. \A q \in Relays : /\ (Running(q)' => Running(q) \/ sock[q] = "none")
                         /\ (phase[q] \in Ended <=> phase'[q] \in Ended)
                         /\ (phase'[q] = phase[q] \/ phase'[q] \notin Ended)
                         /\ (phase[q] \in Ended => phase'[q] = phase[q])
  BY <1>2 DEF IInv, Types, PhaseType, RelayInv, TcpOK, Running, Ended
<1>4. \A q \in Relays : q < relayServSock /\ sock[q] = "none" => tcp'[q] = "none"
  <2> SUFFICES ASSUME NEW q \in Relays, q < relayServSock, sock[q] = "none", tcp'[q] # "none"
               PROVE  FALSE
    OBVIOUS
  <2>1. tcp[q] = "none"
    BY DEF IInv, ServerInv, Accepted
  <2>2. q = r /\ phase[q] = "none"
    BY <1>2, <2>1 DEF IInv, Types, PhaseType
  <2>3. relayServSock \in Relays /\ sock[relayServSock] # "none"
    BY LinkAssumption DEF IInv, Types, SockType, ServerInv, Accepted, Relays
  <2>4. phase[relayServSock] # "none"
    BY <2>3 DEF IInv, RelayInv, TcpOK
  <2> QED BY <2>2, <2>3, <2>4 DEF IInv, RelayInv, OneAtATime, Ended
<1>5. PhaseType'
  BY <1>2 DEF IInv, Types, PhaseType
<1>6. SockType'
  BY <1>1 DEF IInv, Types, SockType
<1>7. PostedType'
  BY <1>1 DEF IInv, Types, PostedType
<1>8. LinkType'
  BY <1>1 DEF IInv, Types, LinkType
<1>9. SetType'
  BY <1>1 DEF IInv, Types, SetType
<1>10. OneAtATime'
  BY <1>2, <1>3 DEF IInv, Types, PhaseType, RelayInv, OneAtATime, TcpOK, Running
<1>11. TcpOK'
  BY <1>1, <1>2 DEF IInv, Types, PhaseType, RelayInv, TcpOK, Running, Ended
<1>12. Accepted'
  BY <1>1, <1>4 DEF IInv, ServerInv, Accepted
<1>13. Operating'
  BY <1>1 DEF IInv, ServerInv, Operating
<1>14. RelayHeard'
  BY <1>1, <1>3 DEF IInv, LinkInv, RelayHeard, ServerUp
<1>15. NothingOld'
  BY <1>1 DEF IInv, LinkInv, NothingOld
<1>16. OwnWork'
  BY <1>1 DEF IInv, LinkInv, OwnWork
<1>17. ClosedOnlyIfOverlapped'
  BY <1>1, <1>3 DEF IInv, LinkInv, ClosedOnlyIfOverlapped
<1>18. FirstInherits' /\ MainAndWorker'
  BY <1>1, <1>3 DEF IInv, EndInv, FirstInherits, MainAndWorker, Ended
<1>19. Crashes'
  BY <1>1, <1>3 DEF IInv, EndInv, Crashes, ServerUp, Ended
<1> QED BY <1>5, <1>6, <1>7, <1>8, <1>9, <1>10, <1>11, <1>12, <1>13, <1>14, <1>15, <1>16, <1>17,
     <1>18, <1>19
     DEF IInv, Types, RelayInv, ServerInv, LinkInv, EndInv

\* A relay ends, by its user, or by what it inherited, or with the server.
LEMMA EndsPreserves ==
  ASSUME IInv, NEW r \in Relays, NEW how \in Ended, Running(r), Ends(r, how),
         how = "crashed" => ~ServerUp \/ r \in inherited,
         UNCHANGED serverVars
  PROVE  IInv'
<1> USE First
<1>1. UNCHANGED <<sock, posted, writes, relayServSock, accepting, packetQueue, handling,
                  overlapped, inherited, server>>
  BY DEF serverVars, acceptVars, handlerVars
<1>2. /\ phase' = [phase EXCEPT ![r] = how]
      /\ toRelay' = [toRelay EXCEPT ![r] = <<>>]
      /\ \/ tcp[r] = "connecting" /\ tcp' = [tcp EXCEPT ![r] = "none"]
         \/ \E end \in {"fin", "rst"} : tcp' = [tcp EXCEPT ![r] = end]
  BY DEF Ends
<1>3. \A q \in Relays : /\ (Running(q)' => Running(q))
                         /\ (phase[q] \in Ended => phase'[q] = phase[q])
                         /\ (phase'[q] # "none" => phase[q] # "none")
  BY <1>2 DEF IInv, Types, PhaseType, Running, Ended
<1>4. PhaseType'
  BY <1>2 DEF IInv, Types, PhaseType, Ended
<1>5. SockType'
  BY <1>1 DEF IInv, Types, SockType
<1>6. PostedType'
  BY <1>1 DEF IInv, Types, PostedType
<1>7. LinkType'
  BY <1>1, <1>2, EmptySeq DEF IInv, Types, LinkType
<1>8. SetType'
  BY <1>1 DEF IInv, Types, SetType
<1>9. OneAtATime'
  BY <1>3 DEF IInv, RelayInv, OneAtATime
<1>10. TcpOK'
  BY <1>1, <1>2 DEF IInv, Types, PhaseType, RelayInv, TcpOK, Running, Ended
<1>11. Accepted'
  BY <1>1, <1>2 DEF IInv, Types, PhaseType, SockType, RelayInv, OneAtATime, TcpOK, Running,
                    Ended, ServerInv, Accepted, Relays
<1>12. Operating'
  BY <1>1 DEF IInv, ServerInv, Operating
<1>13. RelayHeard'
  BY <1>1, <1>3 DEF IInv, LinkInv, RelayHeard, ServerUp
<1>14. NothingOld'
  BY <1>1 DEF IInv, LinkInv, NothingOld
<1>15. OwnWork'
  BY <1>1, <1>2, EmptySeq DEF IInv, Types, LinkType, LinkInv, OwnWork
<1>16. ClosedOnlyIfOverlapped'
  BY <1>1, <1>3 DEF IInv, LinkInv, ClosedOnlyIfOverlapped
<1>17. FirstInherits' /\ MainAndWorker'
  BY <1>1, <1>3 DEF IInv, EndInv, FirstInherits, MainAndWorker, Ended
<1>18. Crashes'
  BY <1>1, <1>2 DEF IInv, Types, PhaseType, EndInv, Crashes, ServerUp
<1> QED BY <1>4, <1>5, <1>6, <1>7, <1>8, <1>9, <1>10, <1>11, <1>12, <1>13, <1>14, <1>15, <1>16,
     <1>17, <1>18
     DEF IInv, Types, RelayInv, ServerInv, LinkInv, EndInv

\* A packet is taken from the link.
LEMMA AnswerPreserves ==
  ASSUME IInv, NEW r \in Relays, toRelay[r] # <<>>, toRelay' = [toRelay EXCEPT ![r] = Tail(@)],
         UNCHANGED <<phase, tcp, serverVars>>
  PROVE  IInv'
<1> USE First
<1>1. UNCHANGED <<phase, tcp, sock, posted, writes, relayServSock, accepting, packetQueue,
                  handling, overlapped, inherited, server>>
  BY DEF serverVars, acceptVars, handlerVars
<1>2. /\ toRelay \in [Relays -> Seq(Frames(Relays))] /\ Tail(toRelay[r]) \in Seq(Frames(Relays))
      /\ \A S : toRelay[r] \in Seq(S) => Tail(toRelay[r]) \in Seq(S)
  BY HeadTailProperties DEF IInv, Types, LinkType
<1>3. PhaseType'
  BY <1>1 DEF IInv, Types, PhaseType
<1>4. SockType'
  BY <1>1 DEF IInv, Types, SockType
<1>5. PostedType'
  BY <1>1 DEF IInv, Types, PostedType
<1>6. LinkType'
  BY <1>1, <1>2 DEF IInv, Types, LinkType
<1>7. SetType'
  BY <1>1 DEF IInv, Types, SetType
<1>8. OneAtATime'
  BY <1>1 DEF IInv, RelayInv, OneAtATime
<1>9. TcpOK'
  BY <1>1 DEF IInv, RelayInv, TcpOK, Running
<1>10. Accepted'
  BY <1>1 DEF IInv, ServerInv, Accepted
<1>11. Operating'
  BY <1>1 DEF IInv, ServerInv, Operating
<1>12. RelayHeard'
  BY <1>1 DEF IInv, LinkInv, RelayHeard, Running, ServerUp
<1>13. NothingOld'
  BY <1>1 DEF IInv, LinkInv, NothingOld
<1>14. OwnWork'
  BY <1>1, <1>2 DEF IInv, LinkInv, OwnWork
<1>15. ClosedOnlyIfOverlapped'
  BY <1>1 DEF IInv, LinkInv, ClosedOnlyIfOverlapped, Running
<1>16. FirstInherits' /\ MainAndWorker' /\ Crashes'
  BY <1>1 DEF IInv, EndInv, FirstInherits, MainAndWorker, Crashes, ServerUp
<1> QED BY <1>3, <1>4, <1>5, <1>6, <1>7, <1>8, <1>9, <1>10, <1>11, <1>12, <1>13, <1>14, <1>15,
     <1>16
     DEF IInv, Types, RelayInv, ServerInv, LinkInv, EndInv

\* A step that changes no more of what the invariant is about than that a send is done, or
\* that the server ends, by its handler or when the first relay is gone.
LEMMA QuietPreserves ==
  ASSUME IInv,
         UNCHANGED <<phase, tcp, toRelay, acceptVars, sock, posted, packetQueue, handling>>,
         \/ writes' = writes
         \/ \E q \in Relays : writes[q] > 0 /\ writes' = [writes EXCEPT ![q] = @ - 1],
         \/ server' = server
         \/ server' = "handler"
         \/ server' = "main" /\ phase[1] = "gone"
  PROVE  IInv'
<1> USE First
<1>1. UNCHANGED <<phase, tcp, toRelay, sock, posted, relayServSock, accepting, packetQueue,
                  handling, overlapped, inherited>>
  BY DEF acceptVars
<1>2. writes' \in [Relays -> Nat] /\ (\A q \in Relays : writes'[q] > 0 => writes[q] > 0)
  BY DEF IInv, Types, PostedType
<1>3. PhaseType'
  BY <1>1 DEF IInv, Types, PhaseType
<1>4. SockType'
  BY <1>1 DEF IInv, Types, SockType
<1>5. PostedType'
  BY <1>1, <1>2 DEF IInv, Types, PostedType
<1>6. LinkType'
  BY <1>1 DEF IInv, Types, LinkType
<1>7. SetType'
  BY <1>1 DEF IInv, Types, SetType
<1>8. OneAtATime'
  BY <1>1 DEF IInv, RelayInv, OneAtATime
<1>9. TcpOK'
  BY <1>1 DEF IInv, RelayInv, TcpOK, Running
<1>10. Accepted'
  BY <1>1 DEF IInv, ServerInv, Accepted
<1>11. Operating'
  BY <1>1, <1>2 DEF IInv, ServerInv, Operating
<1>12. RelayHeard'
  BY <1>1 DEF IInv, LinkInv, RelayHeard, Running, ServerUp
<1>13. NothingOld'
  BY <1>1, <1>2 DEF IInv, LinkInv, NothingOld
<1>14. OwnWork'
  BY <1>1 DEF IInv, LinkInv, OwnWork
<1>15. ClosedOnlyIfOverlapped'
  BY <1>1 DEF IInv, LinkInv, ClosedOnlyIfOverlapped, Running
<1>16. FirstInherits' /\ MainAndWorker' /\ Crashes'
  BY <1>1 DEF IInv, EndInv, FirstInherits, MainAndWorker, Crashes, ServerUp
<1> QED BY <1>3, <1>4, <1>5, <1>6, <1>7, <1>8, <1>9, <1>10, <1>11, <1>12, <1>13, <1>14, <1>15,
     <1>16
     DEF IInv, Types, RelayInv, ServerInv, LinkInv, EndInv

\* The server accepts the next connection; it is later than the last one.
LEMMA AcceptPreserves ==
  ASSUME IInv, NEW r \in Relays, Accept(r) PROVE IInv'
<1> USE First
<1>1. UNCHANGED <<phase, tcp, toRelay, posted, writes, packetQueue, handling, server>>
  BY DEF Accept, relayVars, tcpVars, handlerVars
<1>2. /\ accepting' = "receive" /\ relayServSock' = r
      /\ sock[r] = "none" /\ tcp[r] \in {"established", "fin", "rst"}
      /\ sock' = [sock EXCEPT ![r] = "open"]
      /\ overlapped' = IF Operations = {} THEN overlapped ELSE overlapped \cup {r}
      /\ inherited' = IF Operations = {} /\ packetQueue = <<>> /\ handling = 0
                      THEN inherited ELSE inherited \cup {r}
  BY DEF Accept, NextInBacklog
<1>3. \A q \in Relays : q < r /\ sock[q] = "none" => tcp[q] = "none"
  BY LinkAssumption DEF Accept, NextInBacklog, Relays
<1>4. relayServSock \in Nat /\ relayServSock < r /\ r \in Nat
  BY <1>2, LinkAssumption DEF IInv, Types, SockType, ServerInv, Accepted, Relays
<1>5. Operations = {} => \A q \in Relays : ~(posted[q] > 0) /\ ~(writes[q] > 0)
  BY DEF Operations
<1>6. \A q \in Relays : Running(q)' <=> Running(q)
  BY <1>1 DEF Running
<1>7. \A q \in Relays : sock[q] # "none" => ~Running(q)
  BY <1>2, <1>4 DEF IInv, Types, PhaseType, RelayInv, OneAtATime, TcpOK, ServerInv, Accepted,
                    Running, Ended
<1>8. r = 1 => Operations = {} /\ packetQueue = <<>> /\ handling = 0
  <2> SUFFICES ASSUME r = 1 PROVE Operations = {} /\ packetQueue = <<>> /\ handling = 0
    OBVIOUS
  <2>1. relayServSock = 0
    BY <1>4
  <2>2. packetQueue = <<>> /\ handling = 0
    BY <2>1 DEF IInv, ServerInv, Accepted
  <2>3. \A q \in Relays : sock[q] = "none"
    BY <2>1 DEF IInv, ServerInv, Accepted
  <2> QED BY <2>2, <2>3 DEF IInv, ServerInv, Operating, Operations
<1>9. PhaseType'
  BY <1>1 DEF IInv, Types, PhaseType
<1>10. SockType'
  BY <1>2, LinkAssumption DEF IInv, Types, SockType, Relays
<1>11. PostedType'
  BY <1>1 DEF IInv, Types, PostedType
<1>12. LinkType'
  BY <1>1 DEF IInv, Types, LinkType
<1>13. SetType'
  BY <1>2 DEF IInv, Types, SetType
<1>14. OneAtATime'
  BY <1>1 DEF IInv, RelayInv, OneAtATime
<1>15. TcpOK'
  BY <1>1, <1>2, <1>6 DEF IInv, Types, SockType, RelayInv, TcpOK
<1>16. Accepted'
  BY <1>1, <1>2, <1>3, <1>4 DEF IInv, Types, SockType, ServerInv, Accepted, Relays
<1>17. Operating'
  BY <1>1, <1>2 DEF IInv, Types, SockType, ServerInv, Operating
<1>18. RelayHeard'
  BY <1>2, <1>6, <1>7 DEF IInv, Types, SockType, RelayHeard
<1>19. NothingOld'
  BY <1>1, <1>2, <1>5 DEF NothingOld
<1>20. OwnWork'
  <2> SUFFICES ASSUME NEW q \in Relays, q \notin inherited'
               PROVE  /\ toRelay'[q] \in Seq(Frames({q}))
                      /\ relayServSock' = q => packetQueue' \in Seq({q}) /\ handling' \in {q, 0}
    BY DEF OwnWork
  <2>1. toRelay[q] \in Seq(Frames({q}))
    BY <1>2 DEF IInv, LinkInv, OwnWork
  <2>2. q = r => packetQueue = <<>> /\ handling = 0
    BY <1>2
  <2> QED BY <1>1, <1>2, <2>1, <2>2, EmptySeq
<1>21. ClosedOnlyIfOverlapped'
  BY <1>2, <1>6, <1>7 DEF IInv, Types, SockType, ClosedOnlyIfOverlapped
<1>22. FirstInherits' /\ MainAndWorker'
  BY <1>1, <1>2, <1>8 DEF IInv, EndInv, FirstInherits, MainAndWorker
<1>23. Crashes'
  BY <1>1, <1>2 DEF IInv, EndInv, Crashes, ServerUp
<1> QED BY <1>9, <1>10, <1>11, <1>12, <1>13, <1>14, <1>15, <1>16, <1>17, <1>18, <1>19, <1>20,
     <1>21, <1>22, <1>23
     DEF IInv, Types, RelayInv, ServerInv, LinkInv, EndInv

\* A receive is posted on relayServSock, for a packet that came or at the start.
LEMMA ReceivePreserves ==
  ASSUME IInv, NEW before, ReceiveMessage(before), relayServSock # 0,
         \/ accepting = "receive" /\ before = posted /\ packetQueue' = packetQueue /\ accepting' = "accept"
         \/ \E r \in Relays : /\ posted[r] > 0 /\ sock[r] = "open"
                               /\ before = [posted EXCEPT ![r] = @ - 1]
                               /\ packetQueue' = Append(packetQueue, r)
                               /\ accepting' = accepting,
         UNCHANGED <<phase, tcp, toRelay, relayServSock, writes, handling, overlapped,
                     inherited, server>>
  PROVE  IInv'
<1> USE First
<1> DEFINE s == relayServSock
<1>1. UNCHANGED <<phase, tcp, toRelay, relayServSock, writes, handling, overlapped, inherited,
                  server, sock>>
  BY DEF ReceiveMessage
<1>2. s \in Relays /\ sock[s] # "none"
  BY LinkAssumption DEF IInv, Types, SockType, ServerInv, Accepted, Relays
<1>3. before \in [Relays -> Nat] /\ (\A q \in Relays : before[q] > 0 => posted[q] > 0)
  <2>1. CASE before = posted
    BY <2>1 DEF IInv, Types, PostedType
  <2>2. ASSUME NEW r \in Relays, posted[r] > 0, before = [posted EXCEPT ![r] = @ - 1]
        PROVE  before \in [Relays -> Nat] /\ (\A q \in Relays : before[q] > 0 => posted[q] > 0)
    BY <2>2 DEF IInv, Types, PostedType
  <2> QED BY <2>1, <2>2
<1>4. \/ sock[s] = "open" /\ posted' = [before EXCEPT ![s] = @ + 1]
      \/ (sock[s] = "closed" \/ tcp[s] = "rst") /\ posted' = before
  BY DEF ReceiveMessage
<1>5. posted' \in [Relays -> Nat] /\ (\A q \in Relays : posted'[q] > 0 => posted[q] > 0 \/ q = s)
  BY <1>2, <1>3, <1>4
<1>6. \A q \in Relays : Running(q)' <=> Running(q)
  BY <1>1 DEF Running
<1>7. packetQueue' = packetQueue \/ (\E r \in Relays : posted[r] > 0 /\ packetQueue' = Append(packetQueue, r))
  OBVIOUS
<1>8. accepting' \in {"accept", "receive"} /\ packetQueue' \in Seq(Relays)
  <2>1. packetQueue \in Seq(Relays)
    BY DEF IInv, Types, LinkType
  <2>2. \A q \in Relays : Append(packetQueue, q) \in Seq(Relays)
    BY <2>1, AppendProperties
  <2> QED BY <1>7, <2>1, <2>2 DEF IInv, Types, SockType
<1>9. s \in Relays /\ Running(s) /\ sock[s] = "open" => posted'[s] > 0
  BY <1>2, <1>3, <1>4 DEF IInv, RelayInv, TcpOK, Types, PostedType
<1>10. s \notin inherited => packetQueue' \in Seq({s})
  <2> SUFFICES ASSUME s \notin inherited PROVE packetQueue' \in Seq({s})
    OBVIOUS
  <2>1. packetQueue \in Seq({s}) /\ s \notin overlapped
    BY <1>2 DEF IInv, Types, SetType, LinkInv, OwnWork
  <2>2. ASSUME NEW r \in Relays, posted[r] > 0, packetQueue' = Append(packetQueue, r)
        PROVE  packetQueue' \in Seq({s})
    <3>1. r = s
      BY <1>2, <2>1, <2>2 DEF IInv, LinkInv, NothingOld
    <3> QED BY <2>1, <2>2, <3>1, AppendProperties
  <2> QED BY <1>7, <2>1, <2>2
<1>11. PhaseType'
  BY <1>1 DEF IInv, Types, PhaseType
<1>12. SockType'
  BY <1>1, <1>8 DEF IInv, Types, SockType
<1>13. PostedType'
  BY <1>1, <1>5 DEF IInv, Types, PostedType
<1>14. LinkType'
  BY <1>1, <1>8 DEF IInv, Types, LinkType
<1>15. SetType'
  BY <1>1 DEF IInv, Types, SetType
<1>16. OneAtATime'
  BY <1>1 DEF IInv, RelayInv, OneAtATime
<1>17. TcpOK'
  BY <1>1 DEF IInv, RelayInv, TcpOK, Running
<1>18. Accepted'
  BY <1>1 DEF IInv, ServerInv, Accepted
<1>19. Operating'
  BY <1>1, <1>2, <1>5 DEF IInv, ServerInv, Operating
<1>20. RelayHeard'
  BY <1>1, <1>6, <1>9 DEF IInv, LinkInv, RelayHeard, ServerUp
<1>21. NothingOld'
  BY <1>1, <1>5 DEF IInv, LinkInv, NothingOld
<1>22. OwnWork'
  BY <1>1, <1>10 DEF IInv, LinkInv, OwnWork
<1>23. ClosedOnlyIfOverlapped'
  BY <1>1 DEF IInv, LinkInv, ClosedOnlyIfOverlapped, Running
<1>24. FirstInherits' /\ MainAndWorker' /\ Crashes'
  BY <1>1 DEF IInv, EndInv, FirstInherits, MainAndWorker, Crashes, ServerUp
<1> QED BY <1>11, <1>12, <1>13, <1>14, <1>15, <1>16, <1>17, <1>18, <1>19, <1>20, <1>21, <1>22,
     <1>23, <1>24
     DEF IInv, Types, RelayInv, ServerInv, LinkInv, EndInv

\* An operation that did not succeed is dequeued: that of a relay that has ended, or
\* of a connection the server closed.
LEMMA DequeuePreserves ==
  ASSUME IInv, ServerUp, NEW q \in Relays,
         \/ posted[q] > 0 /\ posted' = [posted EXCEPT ![q] = @ - 1] /\ writes' = writes
         \/ writes[q] > 0 /\ writes' = [writes EXCEPT ![q] = @ - 1] /\ posted' = posted,
         tcp[q] \in {"fin", "rst"} \/ sock[q] = "closed",
         \/ Disconnected \/ WorkerExits
         \/ sock' = sock /\ server' = server,
         UNCHANGED <<phase, tcp, toRelay, acceptVars, packetQueue, handling>>
  PROVE  IInv'
<1> USE First
<1> DEFINE s == relayServSock
<1>1. UNCHANGED <<phase, tcp, toRelay, relayServSock, accepting, packetQueue, handling,
                  overlapped, inherited>>
  BY DEF acceptVars
<1>2. s \in Relays /\ sock[q] # "none" /\ sock[s] # "none"
  BY LinkAssumption DEF IInv, Types, SockType, ServerInv, Operating, Accepted, Relays
<1>3. sock' = sock \/ sock' = [sock EXCEPT ![s] = "closed"]
  BY DEF Disconnected, WorkerExits
<1>4. server' = server \/ server' = "worker"
  BY DEF Disconnected, WorkerExits
<1>5. /\ posted' \in [Relays -> Nat] /\ writes' \in [Relays -> Nat]
      /\ \A r \in Relays : posted'[r] > 0 => posted[r] > 0
      /\ \A r \in Relays : writes'[r] > 0 => writes[r] > 0
      /\ \A r \in Relays : posted'[r] = posted[r] \/ r = q
  BY DEF IInv, Types, PostedType
<1>6. \A r \in Relays : Running(r)' <=> Running(r)
  BY <1>1 DEF Running
<1>7. \A r \in Relays : sock[r] # "none" <=> sock'[r] # "none"
  BY <1>2, <1>3 DEF IInv, Types, SockType
<1>8. \A r \in Relays : Running(r) /\ sock[r] = "open" => r # q
  BY DEF IInv, RelayInv, TcpOK
<1>9. \A r \in Relays : Running(r) /\ sock'[r] = "closed" => r \in overlapped
  <2> SUFFICES ASSUME NEW r \in Relays, Running(r), sock[r] = "open", sock'[r] = "closed", r \notin overlapped
               PROVE  FALSE
    BY <1>2, <1>7 DEF IInv, Types, SockType, LinkInv, ClosedOnlyIfOverlapped
  <2>1. r = s /\ r # q
    BY <1>2, <1>3, <1>8 DEF IInv, Types, SockType
  <2> QED BY <2>1 DEF IInv, LinkInv, NothingOld
<1>10. phase[1] = "gone"
  <2>1. phase[q] # "none"
    BY <1>2 DEF IInv, RelayInv, TcpOK
  <2>2. q = 1 => phase[q] \in Ended
    <3> SUFFICES ASSUME q = 1, Running(1) PROVE FALSE
      BY <2>1 DEF IInv, Types, PhaseType, Running, Ended
    <3>1. sock[1] = "closed"
      BY DEF IInv, RelayInv, TcpOK
    <3> QED BY <3>1 DEF IInv, Types, SetType, LinkInv, ClosedOnlyIfOverlapped, EndInv, FirstInherits
  <2> QED BY <2>1, <2>2, FirstGone
<1>11. PhaseType'
  BY <1>1 DEF IInv, Types, PhaseType
<1>12. SockType'
  BY <1>1, <1>3 DEF IInv, Types, SockType
<1>13. PostedType'
  BY <1>5 DEF PostedType
<1>14. LinkType'
  BY <1>1 DEF IInv, Types, LinkType
<1>15. SetType'
  BY <1>1 DEF IInv, Types, SetType
<1>16. OneAtATime'
  BY <1>1 DEF IInv, RelayInv, OneAtATime
<1>17. TcpOK'
  BY <1>1, <1>6, <1>7 DEF IInv, RelayInv, TcpOK
<1>18. Accepted'
  BY <1>1, <1>2, <1>7 DEF IInv, ServerInv, Accepted
<1>19. Operating'
  BY <1>1, <1>5, <1>7 DEF IInv, ServerInv, Operating
<1>20. RelayHeard'
  BY <1>1, <1>2, <1>3, <1>5, <1>6, <1>8 DEF IInv, Types, SockType, LinkInv, RelayHeard, ServerUp
<1>21. NothingOld'
  BY <1>1, <1>5 DEF IInv, LinkInv, NothingOld
<1>22. OwnWork'
  BY <1>1 DEF IInv, LinkInv, OwnWork
<1>23. ClosedOnlyIfOverlapped'
  BY <1>1, <1>6, <1>9 DEF ClosedOnlyIfOverlapped
<1>24. FirstInherits' /\ MainAndWorker' /\ Crashes'
  BY <1>1, <1>4, <1>10 DEF IInv, EndInv, FirstInherits, MainAndWorker, Crashes, ServerUp
<1> QED BY <1>11, <1>12, <1>13, <1>14, <1>15, <1>16, <1>17, <1>18, <1>19, <1>20, <1>21, <1>22,
     <1>23, <1>24
     DEF IInv, Types, RelayInv, ServerInv, LinkInv, EndInv

\* The handler takes a request, whose relay may have ended.
LEMMA HandlePreserves ==
  ASSUME IInv, Handle PROVE IInv'
<1> USE First
<1>1. UNCHANGED <<phase, tcp, toRelay, sock, posted, writes, relayServSock, accepting,
                  overlapped, inherited, server>>
  BY DEF Handle, relayVars, tcpVars, acceptVars
<1>2. packetQueue # <<>> /\ packetQueue' = Tail(packetQueue) /\ handling' = Head(packetQueue)
  BY DEF Handle
<1>3. /\ packetQueue' \in Seq(Relays) /\ handling' \in Relays
      /\ \A S : packetQueue \in Seq(S) => packetQueue' \in Seq(S) /\ handling' \in S
  BY <1>2, HeadTailProperties DEF IInv, Types, LinkType
<1>4. PhaseType'
  BY <1>1 DEF IInv, Types, PhaseType
<1>5. SockType'
  BY <1>1 DEF IInv, Types, SockType
<1>6. PostedType'
  BY <1>1 DEF IInv, Types, PostedType
<1>7. LinkType'
  BY <1>1, <1>3 DEF IInv, Types, LinkType
<1>8. SetType'
  BY <1>1 DEF IInv, Types, SetType
<1>9. OneAtATime'
  BY <1>1 DEF IInv, RelayInv, OneAtATime
<1>10. TcpOK'
  BY <1>1 DEF IInv, RelayInv, TcpOK, Running
<1>11. Accepted'
  BY <1>1, <1>2 DEF IInv, ServerInv, Accepted
<1>12. Operating'
  BY <1>1 DEF IInv, ServerInv, Operating
<1>13. RelayHeard'
  BY <1>1 DEF IInv, LinkInv, RelayHeard, Running, ServerUp
<1>14. NothingOld'
  BY <1>1 DEF IInv, LinkInv, NothingOld
<1>15. OwnWork'
  <2> SUFFICES ASSUME NEW q \in Relays, q \notin inherited, relayServSock = q
               PROVE  packetQueue' \in Seq({q}) /\ handling' \in {q, 0}
    BY <1>1 DEF IInv, LinkInv, OwnWork
  <2>1. packetQueue \in Seq({q})
    BY DEF IInv, LinkInv, OwnWork
  <2>2. packetQueue' \in Seq({q}) /\ handling' \in {q}
    BY <1>3, <2>1
  <2> QED BY <2>2
<1>16. ClosedOnlyIfOverlapped'
  BY <1>1 DEF IInv, LinkInv, ClosedOnlyIfOverlapped, Running
<1>17. FirstInherits' /\ MainAndWorker' /\ Crashes'
  BY <1>1 DEF IInv, EndInv, FirstInherits, MainAndWorker, Crashes, ServerUp
<1> QED BY <1>4, <1>5, <1>6, <1>7, <1>8, <1>9, <1>10, <1>11, <1>12, <1>13, <1>14, <1>15, <1>16,
     <1>17
     DEF IInv, Types, RelayInv, ServerInv, LinkInv, EndInv

\* A packet goes to the relay that is there now.
LEMMA SendPreserves ==
  ASSUME IInv, SendMessage PROVE IInv'
<1> USE First
<1> DEFINE s == relayServSock
           frame == [asker |-> handling, last |-> toSend = 1]
<1>1. UNCHANGED <<phase, tcp, sock, posted, relayServSock, accepting, packetQueue,
                  overlapped, inherited, server>>
  BY DEF SendMessage, relayVars, acceptVars
<1>2. /\ handling # 0 /\ handling' \in {handling, 0}
      /\ toRelay' = toRelay \/ toRelay' = [toRelay EXCEPT ![s] = Append(@, frame)]
      /\ writes' = writes \/ writes' = [writes EXCEPT ![s] = @ + 1]
  BY DEF SendMessage
<1>3. s \in Relays /\ sock[s] # "none" /\ handling \in Relays
  BY <1>2, LinkAssumption DEF IInv, Types, SockType, LinkType, ServerInv, Accepted, Relays
<1>4. /\ writes' \in [Relays -> Nat]
      /\ \A q \in Relays : writes'[q] > 0 => writes[q] > 0 \/ q = s
  <2>1. writes \in [Relays -> Nat]
    BY DEF IInv, Types, PostedType
  <2>2. CASE writes' = writes
    BY <2>1, <2>2
  <2>3. CASE writes' = [writes EXCEPT ![s] = @ + 1]
    <3> HIDE DEF s
    <3> QED BY <1>3, <2>1, <2>3
  <2> QED BY <1>2, <2>2, <2>3
<1>5. \A R : handling \in R => frame \in Frames(R)
  BY DEF Frames
<1> HIDE DEF frame
<1>6. toRelay' \in [Relays -> Seq(Frames(Relays))]
  <2>1. toRelay \in [Relays -> Seq(Frames(Relays))] /\ toRelay[s] \in Seq(Frames(Relays))
    BY <1>3 DEF IInv, Types, LinkType
  <2>2. Append(toRelay[s], frame) \in Seq(Frames(Relays))
    BY <1>3, <1>5, <2>1, AppendProperties
  <2> QED BY <1>2, <1>3, <2>1, <2>2
<1>7. \A q \in Relays : q \notin inherited => toRelay'[q] \in Seq(Frames({q}))
  <2> SUFFICES ASSUME NEW q \in Relays, q \notin inherited PROVE toRelay'[q] \in Seq(Frames({q}))
    OBVIOUS
  <2>1. toRelay[q] \in Seq(Frames({q})) /\ toRelay \in [Relays -> Seq(Frames(Relays))]
    BY DEF IInv, Types, LinkType, LinkInv, OwnWork
  <2>2. CASE q = s
    <3>1. handling \in {q}
      BY <1>2, <2>2 DEF IInv, LinkInv, OwnWork
    <3>2. Append(toRelay[q], frame) \in Seq(Frames({q}))
      BY <1>5, <2>1, <3>1, AppendProperties
    <3> QED BY <1>2, <2>1, <2>2, <3>2
  <2>3. CASE q # s
    BY <1>2, <2>1, <2>3
  <2> QED BY <2>2, <2>3
<1>8. PhaseType'
  BY <1>1 DEF IInv, Types, PhaseType
<1>9. SockType'
  BY <1>1 DEF IInv, Types, SockType
<1>10. PostedType'
  BY <1>1, <1>4 DEF IInv, Types, PostedType
<1>11. LinkType'
  BY <1>1, <1>2, <1>6 DEF IInv, Types, LinkType
<1>12. SetType'
  BY <1>1 DEF IInv, Types, SetType
<1>13. OneAtATime'
  BY <1>1 DEF IInv, RelayInv, OneAtATime
<1>14. TcpOK'
  BY <1>1 DEF IInv, RelayInv, TcpOK, Running
<1>15. Accepted'
  BY <1>1, <1>2 DEF IInv, ServerInv, Accepted
<1>16. Operating'
  BY <1>1, <1>3, <1>4 DEF IInv, ServerInv, Operating
<1>17. RelayHeard'
  BY <1>1 DEF IInv, LinkInv, RelayHeard, Running, ServerUp
<1>18. NothingOld'
  BY <1>1, <1>4 DEF IInv, LinkInv, NothingOld
<1>19. OwnWork'
  BY <1>1, <1>2, <1>7 DEF IInv, LinkInv, OwnWork
<1>20. ClosedOnlyIfOverlapped'
  BY <1>1 DEF IInv, LinkInv, ClosedOnlyIfOverlapped, Running
<1>21. FirstInherits' /\ MainAndWorker' /\ Crashes'
  BY <1>1 DEF IInv, EndInv, FirstInherits, MainAndWorker, Crashes, ServerUp
<1> QED BY <1>8, <1>9, <1>10, <1>11, <1>12, <1>13, <1>14, <1>15, <1>16, <1>17, <1>18, <1>19,
     <1>20, <1>21
     DEF IInv, Types, RelayInv, ServerInv, LinkInv, EndInv

LEMMA NextIInv == IInv /\ [Next]_vars => IInv'
<1> SUFFICES ASSUME IInv, [Next]_vars PROVE IInv'
  OBVIOUS
<1> USE First
<1>1. CASE AcceptReceives
  <2>1. relayServSock # 0 /\ UNCHANGED <<phase, tcp, toRelay, relayServSock, writes, handling,
                                         overlapped, inherited, server, packetQueue>>
    BY <1>1 DEF AcceptReceives, relayVars, tcpVars, handlerVars, IInv, ServerInv, Accepted
  <2> QED BY <1>1, <2>1, ReceivePreserves DEF AcceptReceives
<1>2. ASSUME NEW r \in Relays, Connect(r) \/ Establish(r) \/ Listen(r) PROVE IInv'
  BY <1>2, StartPreserves
<1>3. ASSUME NEW r \in Relays, Request(r) PROVE IInv'
  BY <1>3, QuietPreserves DEF Request, serverVars, handlerVars
<1>4. ASSUME NEW r \in Relays, Answer(r) PROVE IInv'
  <2>1. CASE toRelay' = [toRelay EXCEPT ![r] = Tail(@)] /\ UNCHANGED <<phase, tcp>>
    BY <1>4, <2>1, AnswerPreserves DEF Answer
  <2>2. CASE Head(toRelay[r]).asker # r /\ Ends(r, "crashed")
    <3>1. Running(r) /\ toRelay[r] # <<>> /\ UNCHANGED serverVars
      BY <1>4 DEF Answer, Running
    <3>2. r \in inherited
      <4> SUFFICES ASSUME r \notin inherited PROVE FALSE
        OBVIOUS
      <4>1. toRelay[r] \in Seq(Frames({r}))
        BY DEF IInv, LinkInv, OwnWork
      <4>2. Head(toRelay[r]) \in Frames({r})
        BY <3>1, <4>1, HeadTailProperties
      <4> QED BY <2>2, <4>2 DEF Frames
    <3> QED BY <2>2, <3>1, <3>2, EndsPreserves DEF Ended
  <2> QED BY <1>4, <2>1, <2>2 DEF Answer
<1>5. ASSUME NEW r \in Relays, NoticeServerEnd(r) PROVE IInv'
  <2>1. Running(r) /\ Ends(r, "crashed") /\ UNCHANGED serverVars
    BY <1>5 DEF NoticeServerEnd, Running
  <2>2. ~ServerUp \/ r \in inherited
    BY <1>5, <2>1 DEF NoticeServerEnd, IInv, Types, SetType, LinkInv, ClosedOnlyIfOverlapped
  <2> QED BY <2>1, <2>2, EndsPreserves DEF Ended
<1>6. ASSUME NEW r \in Relays, Quit(r) PROVE IInv'
  BY <1>6, EndsPreserves DEF Quit, Ended
<1>7. ASSUME NEW r \in Relays, Accept(r) PROVE IInv'
  BY <1>7, AcceptPreserves
<1>8. ASSUME NEW r \in Relays, AcceptFails(r) PROVE IInv'
  <2>1. ServerUp /\ phase[r] \in Ended
    BY <1>8 DEF AcceptFails, IInv, Types, PhaseType, RelayInv, TcpOK, Running, Ended
  <2>2. phase[1] = "gone"
    BY <2>1, FirstGone DEF Ended
  <2> QED BY <1>8, <2>2, QuietPreserves DEF AcceptFails, relayVars, tcpVars, handlerVars
<1>9. ASSUME NEW r \in Relays, Worker(r) PROVE IInv'
  <2>1. /\ posted[r] > 0 /\ sock[r] = "open" /\ packetQueue' = Append(packetQueue, r)
        /\ ReceiveMessage([posted EXCEPT ![r] = @ - 1])
        /\ UNCHANGED <<phase, tcp, toRelay, relayServSock, accepting, writes, handling,
                       overlapped, inherited, server>>
    BY <1>9 DEF Worker, relayVars, acceptVars, handlerVars
  <2>2. relayServSock # 0
    BY <2>1, LinkAssumption DEF IInv, Types, SockType, ServerInv, Accepted, Relays
  <2> QED BY <2>1, <2>2, ReceivePreserves
<1>10. ASSUME NEW r \in Relays, WorkerSeesFailedReceive(r) PROVE IInv'
  BY <1>10, DequeuePreserves DEF WorkerSeesFailedReceive, Failed, relayVars, handlerVars
<1>11. ASSUME NEW r \in Relays, WorkerSeesFailedSend(r) PROVE IInv'
  BY <1>11, DequeuePreserves DEF WorkerSeesFailedSend, Failed, relayVars, handlerVars
<1>12. ASSUME NEW r \in Relays, WorkerSeesEnd(r) PROVE IInv'
  BY <1>12, DequeuePreserves DEF WorkerSeesEnd, relayVars, handlerVars
<1>13. ASSUME NEW r \in Relays, WorkerSeesSent(r) PROVE IInv'
  BY <1>13, QuietPreserves DEF WorkerSeesSent, relayVars, tcpVars, handlerVars
<1>14. CASE HandlerStep
  BY <1>14, HandlePreserves, SendPreserves DEF HandlerStep
<1>15. CASE HandlerEnds
  BY <1>15, QuietPreserves DEF HandlerEnds, relayVars, tcpVars, handlerVars
<1>16. CASE UNCHANGED vars
  BY <1>16, QuietPreserves DEF vars, relayVars, tcpVars, serverVars, handlerVars
<1> QED BY <1>1, <1>2, <1>3, <1>4, <1>5, <1>6, <1>7, <1>8, <1>9, <1>10, <1>11, <1>12, <1>13,
     <1>14, <1>15, <1>16
     DEF Next, RelayStep, WorkerStep

LEMMA Inductive == Spec => []IInv
<1>1. IInv /\ [Next]_vars => IInv'
  BY NextIInv
<1> QED BY <1>1, InitIInv, PTL DEF Spec

\* However often the relay is started again, the one that runs is listened to
\* while its socket is open, although receives are posted on relayServSock.
THEOREM CurrentRelayHeard == Spec => []RelayHeard
<1>1. IInv => RelayHeard
  BY DEF IInv, LinkInv
<1> QED BY <1>1, Inductive, PTL

\* Only an operation left over from an older connection closes the socket of a
\* relay that runs.
THEOREM ClosedByOldOperations == Spec => []ClosedOnlyIfOverlapped
<1>1. IInv => ClosedOnlyIfOverlapped
  BY DEF IInv, LinkInv
<1> QED BY <1>1, Inductive, PTL

\* The main thread and the worker of a server end it only after a user ended the first
\* relay, and a relay crashes under a living server only by what it inherited.
THEOREM EndsAreCaused == Spec => []EndsHaveACause
<1>1. IInv => EndsHaveACause
  BY DEF IInv, EndInv, MainAndWorker, Crashes, EndsHaveACause
<1> QED BY <1>1, Inductive, PTL
=============================================================================
