----------------------------- MODULE ServerLink -----------------------------
(***************************************************************************)
(* The connection between the relay and the login or the game server, whose*)
(* IOCPServer is one code.  A relay process may end at any time; its user  *)
(* starts the next one, while the server, its queue and its one            *)
(* relayServSock live on.                                                  *)
(*                                                                         *)
(* Four threads share relayServSock without a lock: the main thread stores *)
(* what it accepted there, the worker posts receives on it and closes it,  *)
(* the handler sends on it.  The worker never asks whether what completed  *)
(* belongs to the connection that relayServSock is by now.                 *)
(*                                                                         *)
(* A frame is known by the relay process that asked for it.                *)
(***************************************************************************)
EXTENDS Naturals, Sequences, FiniteSetsExt

CONSTANTS
  MaxRelays,    \* bound: relay processes started, one after the other
  MaxRequests,  \* bound: requests they send in all
  MaxAnswers,   \* most packets the handler sends for one request
  MaxPending    \* bound: sends pending on one connection

ASSUME LinkAssumption ==
  /\ MaxRelays \in Nat \ {0} /\ MaxRequests \in Nat \ {0}
  /\ MaxAnswers \in Nat \ {0} /\ MaxPending \in Nat

Relays == 1 .. MaxRelays

VARIABLES
  \* the relay processes (ServerConnector)
  phase,          \* "none", "connect", "running", "gone" (ended by its user), "crashed"
  hears,          \* the relays whose connector has a receive posted
  sent,           \* how many requests each relay has sent
  answered,       \* how many answers to them each has received
  \* TCP
  tcp,            \* "none", "connecting", "established", "fin", "rst": the relay's end
  toServer,       \* how many frames are on their way to the server
  toRelay,        \* the frames on their way to the relay
  \* the server (IOCPServer)
  server,         \* "up", or the thread that ended it: "main", "worker", "handler"
  relayServSock,  \* 0 before the first accept
  accepting,      \* the main thread: "accept" or "receive"
  sock,           \* the server's sockets: "none", "open", "closed"
  posted,         \* receives posted on each
  writes,         \* sends pending on each
  lastError,      \* WSAGetLastError() of the worker
  packetQueue,    \* the requests, by who asked
  handling,       \* the request the handler is at, or 0
  toSend,         \* how many packets it will still send for it
  \* history of the accepted relays, for the properties
  overlapped,     \* an operation on an older connection was still to be dequeued
  inherited       \* the same, or an older request was not answered yet

relayVars == <<phase, hears, sent, answered>>
tcpVars == <<tcp, toServer, toRelay>>
acceptVars == <<relayServSock, accepting, overlapped, inherited>>
handlerVars == <<handling, toSend>>
serverVars == <<server, acceptVars, sock, posted, writes, lastError, packetQueue, handlerVars>>
vars == <<relayVars, tcpVars, serverVars>>

ServerUp == server = "up"
Running(r) == phase[r] \in {"connect", "running"}

(***************************************************************************)
(* A relay process.                                                        *)
(***************************************************************************)

\* connectWithServer.  The socket does not block: connect() returns before the
\* connection is there.  A relay starts when the one before it has ended, since
\* both listen on RELAY_SERVER_PORT.
Connect(r) ==
  /\ phase[r] = "none"
  /\ \A q \in 1 .. r - 1 : phase[q] \in {"gone", "crashed"}
  /\ ServerUp
  /\ phase' = [phase EXCEPT ![r] = "connect"]
  /\ tcp' = [tcp EXCEPT ![r] = "connecting"]
  /\ UNCHANGED <<hears, sent, answered, toServer, toRelay, serverVars>>

\* The three-way handshake; the server has a backlog, and need not accept yet.
Establish(r) ==
  /\ tcp[r] = "connecting"
  /\ ServerUp
  /\ tcp' = [tcp EXCEPT ![r] = "established"]
  /\ UNCHANGED <<relayVars, toServer, toRelay, serverVars>>

\* connectWithServer, its receiveMessage: a receive on a socket that is not
\* connected fails, is logged, and never posted again.
Listen(r) ==
  /\ phase[r] = "connect"
  /\ phase' = [phase EXCEPT ![r] = "running"]
  /\ hears' = IF tcp[r] = "established" THEN hears \cup {r} ELSE hears
  /\ UNCHANGED <<sent, answered, tcpVars, serverVars>>

\* sendMessage, for a request of a client.
Request(r) ==
  /\ phase[r] = "running"
  /\ tcp[r] = "established"
  /\ MapThenSumSet(LAMBDA q : sent[q], Relays) < MaxRequests
  /\ sent' = [sent EXCEPT ![r] = @ + 1]
  /\ toServer' = IF sock[r] = "closed" THEN toServer ELSE [toServer EXCEPT ![r] = @ + 1]
  /\ UNCHANGED <<phase, hears, answered, tcp, toRelay, serverVars>>

\* The process is gone; its stack says so with FIN or RST.
Ends(r, how) ==
  /\ phase' = [phase EXCEPT ![r] = how]
  /\ \E end \in IF tcp[r] = "connecting" THEN {"none"} ELSE {"fin", "rst"} :
       tcp' = [tcp EXCEPT ![r] = end]
  /\ toRelay' = [toRelay EXCEPT ![r] = <<>>]

\* handleIO and handlePacket.  A packet for a request of an earlier relay names a
\* client this one does not know, or by chance one it does: the first ends it.
Answer(r) ==
  /\ phase[r] = "running" /\ r \in hears
  /\ toRelay[r] # <<>>
  /\ LET frame == Head(toRelay[r])
     IN \/ /\ toRelay' = [toRelay EXCEPT ![r] = Tail(@)]
           /\ answered' = IF frame = [asker |-> r, last |-> TRUE]
                          THEN [answered EXCEPT ![r] = @ + 1] ELSE answered
           /\ UNCHANGED <<phase, tcp>>
        \/ /\ frame.asker # r
           /\ Ends(r, "crashed")
           /\ UNCHANGED answered
  /\ UNCHANGED <<hears, sent, toServer, serverVars>>

\* handleIO, when the connection is over.  The completion key is the socket
\* itself, and both branches dereference it as a pointer: the relay ends.
NoticeServerEnd(r) ==
  /\ phase[r] = "running" /\ r \in hears
  /\ sock[r] = "closed" \/ ~ServerUp
  /\ Ends(r, "crashed")
  /\ UNCHANGED <<hears, sent, answered, toServer, serverVars>>

\* The user closes its window, or it ends for a reason of its own.
Quit(r) ==
  /\ Running(r)
  /\ Ends(r, "gone")
  /\ UNCHANGED <<hears, sent, answered, toServer, serverVars>>

(***************************************************************************)
(* The server.                                                             *)
(***************************************************************************)

\* receiveMessage: one more receive, on whatever relayServSock is.  Completing
\* later is WSA_IO_PENDING; a failure is only logged.
ReceiveMessage_NoPending(before) ==
  /\ posted' = before
  /\ sock' = [sock EXCEPT ![relayServSock] = "closed"]
ReceiveMessage(before) ==
  /\ \/ /\ sock[relayServSock] = "open"
        /\ posted' = [before EXCEPT ![relayServSock] = @ + 1]
     \/ /\ sock[relayServSock] = "closed" \/ tcp[relayServSock] = "rst"
        /\ posted' = before
  /\ UNCHANGED sock

\* The connection at the head of the backlog.
NextInBacklog(r) ==
  /\ accepting = "accept"
  /\ tcp[r] \in {"established", "fin", "rst"}
  /\ sock[r] = "none"
  /\ \A q \in 1 .. r - 1 : sock[q] = "none" => tcp[q] = "none"

\* acceptConnection, up to CreateIoCompletionPort...
Operations == {q \in Relays : posted[q] > 0 \/ writes[q] > 0}
Accept(r) ==
  /\ ServerUp
  /\ NextInBacklog(r)
  /\ accepting' = "receive"
  /\ relayServSock' = r
  /\ sock' = [sock EXCEPT ![r] = "open"]
  /\ overlapped' = IF Operations = {} THEN overlapped ELSE overlapped \cup {r}
  /\ inherited' = IF Operations = {} /\ packetQueue = <<>> /\ handling = 0
                  THEN inherited ELSE inherited \cup {r}
  /\ UNCHANGED <<relayVars, tcpVars, server, posted, writes, lastError, packetQueue, handlerVars>>

\* ...and its receiveMessage.
AcceptReceives ==
  /\ ServerUp
  /\ accepting = "receive"
  /\ accepting' = "accept"
  /\ ReceiveMessage(posted)
  /\ UNCHANGED <<relayVars, tcpVars, server, relayServSock, overlapped, inherited,
                 writes, lastError, packetQueue, handlerVars>>

\* acceptConnection, a connection that was reset in the backlog: logAndExit.
AcceptFails(r) ==
  /\ ServerUp
  /\ NextInBacklog(r)
  /\ tcp[r] = "rst"
  /\ server' = "main"
  /\ UNCHANGED <<relayVars, tcpVars, acceptVars, sock, posted, writes, lastError, packetQueue, handlerVars>>

\* workerThread: a frame, and the next receive.  Any call of it may leave an error
\* behind, but the one that fails does.
Worker_NoReceive(r) ==
  /\ ServerUp
  /\ posted[r] > 0 /\ sock[r] = "open" /\ toServer[r] > 0
  /\ toServer' = [toServer EXCEPT ![r] = @ - 1]
  /\ packetQueue' = Append(packetQueue, r)
  /\ posted' = [posted EXCEPT ![r] = @ - 1]
  /\ UNCHANGED <<relayVars, tcp, toRelay, server, acceptVars, sock, writes, lastError, handlerVars>>
Worker(r) ==
  /\ ServerUp
  /\ posted[r] > 0 /\ sock[r] = "open" /\ toServer[r] > 0
  /\ toServer' = [toServer EXCEPT ![r] = @ - 1]
  /\ packetQueue' = Append(packetQueue, r)
  /\ LET before == [posted EXCEPT ![r] = @ - 1]
     IN /\ ReceiveMessage(before)
        /\ lastError' \in IF posted' = before THEN {"other"} ELSE {lastError, "WSA_IO_PENDING", "other"}
  /\ UNCHANGED <<relayVars, tcp, toRelay, server, acceptVars, writes, handlerVars>>

\* workerThread, "RelayServer disconnected": it closes relayServSock.  Closing a
\* closed socket is an error of its own.
Disconnected ==
  /\ sock' = [sock EXCEPT ![relayServSock] = "closed"]
  /\ toServer' = [toServer EXCEPT ![relayServSock] = 0]
  /\ lastError' = IF sock[relayServSock] = "open" THEN "ERROR_NETNAME_DELETED" ELSE "other"
  /\ UNCHANGED server
\* workerThread, any other error: logAndExit.
WorkerExits ==
  /\ server' = "worker"
  /\ UNCHANGED <<sock, toServer, lastError>>

\* workerThread, an operation that failed: the relay's end, or the server closed
\* the socket under it, which may also cancel it with another error.
Failed(r) == Disconnected \/ (sock[r] = "closed" /\ WorkerExits)
WorkerSeesFailedReceive(r) ==
  /\ ServerUp
  /\ posted[r] > 0
  /\ tcp[r] = "rst" \/ sock[r] = "closed"
  /\ posted' = [posted EXCEPT ![r] = @ - 1]
  /\ Failed(r)
  /\ UNCHANGED <<relayVars, tcp, toRelay, acceptVars, writes, packetQueue, handlerVars>>
WorkerSeesFailedSend(r) ==
  /\ ServerUp
  /\ writes[r] > 0
  /\ tcp[r] \in {"fin", "rst"} \/ sock[r] = "closed"
  /\ writes' = [writes EXCEPT ![r] = @ - 1]
  /\ Failed(r)
  /\ UNCHANGED <<relayVars, tcp, toRelay, acceptVars, posted, packetQueue, handlerVars>>

\* workerThread, a send that succeeded after all.
WorkerSeesSent(r) ==
  /\ ServerUp
  /\ writes[r] > 0
  /\ writes' = [writes EXCEPT ![r] = @ - 1]
  /\ UNCHANGED <<relayVars, tcpVars, server, acceptVars, sock, posted, lastError, packetQueue, handlerVars>>

\* workerThread, a receive of no bytes: the relay's FIN.  It sets no error, so
\* an earlier one of this thread decides.
WorkerSeesEnd(r) ==
  /\ ServerUp
  /\ posted[r] > 0 /\ sock[r] = "open"
  /\ tcp[r] = "fin" /\ toServer[r] = 0
  /\ posted' = [posted EXCEPT ![r] = @ - 1]
  /\ \/ lastError = "WSA_IO_PENDING" /\ UNCHANGED <<sock, toServer, lastError, server>>
     \/ lastError = "ERROR_NETNAME_DELETED" /\ Disconnected
     \/ lastError = "other" /\ WorkerExits
  /\ UNCHANGED <<relayVars, tcp, toRelay, acceptVars, writes, packetQueue, handlerVars>>

\* handlePacketThread takes a request, for which handlePacket sends packets, the
\* one to the asker last...
Handle ==
  /\ ServerUp
  /\ handling = 0
  /\ packetQueue # <<>>
  /\ packetQueue' = Tail(packetQueue)
  /\ handling' = Head(packetQueue)
  /\ toSend' \in 1 .. MaxAnswers
  /\ UNCHANGED <<relayVars, tcpVars, server, acceptVars, sock, posted, writes, lastError>>

\* ...each by sendMessage, to whatever relayServSock is.  The operation may be
\* pending when sendMessage returns; a failure at once is only logged.
SendMessage ==
  /\ ServerUp
  /\ handling # 0
  /\ LET s == relayServSock
         frame == [asker |-> handling, last |-> toSend = 1]
     IN /\ toRelay' = IF sock[s] = "open" /\ tcp[s] = "established"
                      THEN [toRelay EXCEPT ![s] = Append(@, frame)] ELSE toRelay
        /\ \/ UNCHANGED writes
           \/ sock[s] = "open" /\ writes[s] < MaxPending /\ writes' = [writes EXCEPT ![s] = @ + 1]
  /\ toSend' = toSend - 1
  /\ handling' = IF toSend = 1 THEN 0 ELSE handling
  /\ UNCHANGED <<relayVars, tcp, toServer, server, acceptVars, sock, posted, lastError, packetQueue>>

\* handlePacket ends the process: the room is null, or a buffer throws.
HandlerEnds ==
  /\ ServerUp
  /\ handling # 0
  /\ server' = "handler"
  /\ UNCHANGED <<relayVars, tcpVars, acceptVars, sock, posted, writes, lastError, packetQueue, handlerVars>>

(***************************************************************************)
(* Together.                                                               *)
(***************************************************************************)
Init ==
  /\ phase = [r \in Relays |-> "none"] /\ hears = {}
  /\ sent = [r \in Relays |-> 0] /\ answered = [r \in Relays |-> 0]
  /\ tcp = [r \in Relays |-> "none"]
  /\ toServer = [r \in Relays |-> 0] /\ toRelay = [r \in Relays |-> <<>>]
  /\ server = "up" /\ relayServSock = 0 /\ accepting = "accept"
  /\ sock = [r \in Relays |-> "none"]
  /\ posted = [r \in Relays |-> 0] /\ writes = [r \in Relays |-> 0]
  /\ lastError = "other" /\ packetQueue = <<>> /\ handling = 0 /\ toSend = 0
  /\ overlapped = {} /\ inherited = {}

RelayStep(r) == Listen(r) \/ Answer(r) \/ NoticeServerEnd(r)
WorkerStep(r) ==
  \/ Worker(r) \/ WorkerSeesFailedReceive(r) \/ WorkerSeesEnd(r)
  \/ WorkerSeesFailedSend(r) \/ WorkerSeesSent(r)
HandlerStep == Handle \/ SendMessage
Next ==
  \/ AcceptReceives \/ HandlerStep \/ HandlerEnds
  \/ \E r \in Relays :
       \/ Connect(r) \/ Establish(r) \/ RelayStep(r) \/ Request(r) \/ Quit(r)
       \/ Accept(r) \/ AcceptFails(r) \/ WorkerStep(r)

Spec == Init /\ [][Next]_vars

\* Threads run while they can.  Nobody has to start a relay, use it or end it.
FairSpec ==
  /\ Spec
  /\ WF_vars(AcceptReceives) /\ WF_vars(HandlerStep)
  /\ \A r \in Relays :
       /\ WF_vars(Establish(r)) /\ WF_vars(RelayStep(r)) /\ WF_vars(Accept(r))
       /\ WF_vars(WorkerStep(r))

\* A relay that runs and was accepted is listened to, unless the server closed
\* its socket: the receive survives that the worker posts it for whichever
\* connection relayServSock is at that moment.
RelayHeard ==
  \A r \in Relays :
    Running(r) /\ sock[r] = "open" /\ ServerUp =>
      relayServSock = r /\ (posted[r] > 0 \/ accepting = "receive")

\* The server closes the socket of a relay that runs only if it accepted it with
\* operations on an older connection still to be dequeued.
ClosedOnlyIfOverlapped ==
  \A r \in Relays : Running(r) /\ sock[r] = "closed" => r \in overlapped

\* Until the first relay was ended, by its user or for a reason of its own, only
\* the handler of its requests can end the server.  And what the server sends or
\* closes ends a relay, while the server lives, only if it still had operations
\* or requests of an older one when it accepted this one.
EndsHaveACause ==
  /\ server \in {"main", "worker"} => phase[1] = "gone"
  /\ \A r \in Relays : phase[r] = "crashed" => ~ServerUp \/ r \in inherited

\* A request is answered, unless its relay ended, did not hear, or was closed,
\* or the server ended.
RequestAnswered ==
  \A r \in Relays, n \in 1 .. MaxRequests :
    (sent[r] >= n) ~> \/ answered[r] >= n \/ ~Running(r) \/ r \notin hears
                      \/ sock[r] = "closed" \/ ~ServerUp
=============================================================================
