---------------------------- MODULE RelayServer ----------------------------
(***************************************************************************)
(* The relay.  The main thread accepts clients; the IOCP worker receives   *)
(* from them, notices that they are gone and pushes what it received to    *)
(* the PacketQueue; one thread for each of the two ServerConnectors pushes *)
(* the servers' packets to the same queue; the handler thread pops it,     *)
(* sends requests on and looks up the client of every reply by the first   *)
(* string of the packet.                                                   *)
(*                                                                         *)
(* The map clients is locked in addClientInfo and removeClientInfo but not *)
(* in getClientInfo nor where the worker erases, so the handler of         *)
(* ACCEPT_LOG_IN is two steps here: the worker may come between.           *)
(*                                                                         *)
(* A definition X_y before X is X with a plausible fault; no other         *)
(* definition uses it, and the checks use it to see a property fail.       *)
(***************************************************************************)
EXTENDS Network

CONSTANT MinGap  \* fewest milliseconds between two accepted clients

\* The connection an ACCEPT_LOG_IN is about, and the account it gets.
Rekeying == [c : Conns, id : Users]

ASSUME RelayAssumption ==
  /\ MinGap \in {0, 1}
  /\ Nobody \notin Rekeying

VARIABLES
  clients,    \* IOCPServer::clients; a missing entry and a null one are Nobody
  cid,        \* ClientInfo::id of each accepted connection
  now,        \* the clock createUniqueKey reads
  relayQ,     \* PacketQueue of [pb, from]; from is the pClientInfo, or Nobody
  rekey,      \* the handler inside ACCEPT_LOG_IN, or Nobody
  failing,    \* connections with a failed operation the worker will still dequeue
  lastError,  \* WSAGetLastError() of the worker thread
  relayUp

relayVars == <<clients, cid, now, relayQ, rekey, failing, lastError, relayUp>>

\* addClientInfo and removeClientInfo.
AddClient_Lost(id, c) == UNCHANGED clients
AddClient(id, c) == clients' = [clients EXCEPT ![id] = c]
RemoveClient_Kept(id) == UNCHANGED clients
RemoveClient(id) == clients' = [clients EXCEPT ![id] = Nobody]

\* The milliseconds in which createUniqueKey may make the next "UID-<millis>".
NextMillis_Seconds == {1}
NextMillis == (now + MinGap .. now + 1) \cap Keys

\* acceptConnection.
Accept(c) ==
  /\ relayUp
  /\ conn[c] = "pending"
  /\ \E t \in NextMillis :
       /\ now' = t
       /\ AddClient(t, c)
       /\ cid' = [cid EXCEPT ![c] = t]
  /\ conn' = [conn EXCEPT ![c] = "up"]
  /\ UNCHANGED <<relayQ, rekey, failing, lastError, relayUp, c2r, r2c, loginQ, l2r, gameQ, g2r>>

\* workerThread, a completed read: push, then post the next receive.  That
\* leaves WSA_IO_PENDING behind, or what a success leaves of the last error when
\* the data is there already, and fails at once when the reset of the connection
\* is: then nothing is posted.
ReceiveFromClient(c) ==
  /\ relayUp
  /\ conn[c] \in {"up", "reset", "eof"}
  /\ c2r[c] # <<>>
  /\ c2r' = [c2r EXCEPT ![c] = Tail(@)]
  /\ relayQ' = Append(relayQ, [pb |-> Head(c2r[c]), from |-> c])
  /\ \/ /\ lastError' \in {lastError, "WSA_IO_PENDING", "other"}
        /\ UNCHANGED conn
     \/ /\ conn[c] = "reset"
        /\ conn' = [conn EXCEPT ![c] = "stale"]
        /\ lastError' = "other"
  /\ UNCHANGED <<clients, cid, now, rekey, failing, relayUp, r2c, loginQ, l2r, gameQ, g2r>>

\* "Client disconnected": erase whatever the map has under the id, and close.
Drop(c) ==
  /\ RemoveClient(cid[c])
  /\ conn' = [conn EXCEPT ![c] = "closed"]
  /\ c2r' = [c2r EXCEPT ![c] = <<>>]

\* workerThread, a read that failed: the client's RST.
NoticeReset(c) ==
  /\ relayUp
  /\ conn[c] = "reset"
  /\ Drop(c)
  /\ lastError' = "ERROR_NETNAME_DELETED"
  /\ UNCHANGED <<cid, now, relayQ, rekey, failing, relayUp, r2c, loginQ, l2r, gameQ, g2r>>

\* workerThread, a read of no bytes: the client's FIN.  The completion
\* succeeded and set no error, so the branch is chosen by an older one.
NoticeEof(c) ==
  /\ relayUp
  /\ conn[c] = "eof"
  /\ c2r[c] = <<>>
  /\ \/ /\ lastError = "WSA_IO_PENDING"
        /\ conn' = [conn EXCEPT ![c] = "stale"]
        /\ UNCHANGED <<clients, c2r, relayUp>>
     \/ /\ lastError = "ERROR_NETNAME_DELETED"
        /\ Drop(c)
        /\ UNCHANGED relayUp
     \/ /\ lastError = "other"
        /\ relayUp' = FALSE
        /\ UNCHANGED <<clients, conn, c2r>>
  /\ UNCHANGED <<cid, now, relayQ, rekey, failing, lastError, r2c, loginQ, l2r, gameQ, g2r>>

\* workerThread, a write that failed: the same branch, whenever it comes.  If
\* the read was still outstanding, closing the socket makes it fail in turn,
\* perhaps with an error that ends the relay.
NoticeFailedWrite(c) ==
  /\ relayUp
  /\ c \in failing
  /\ failing' = IF conn[c] \in {"reset", "eof"} THEN failing ELSE failing \ {c}
  /\ \/ Drop(c) /\ lastError' = "ERROR_NETNAME_DELETED" /\ UNCHANGED relayUp
     \/ conn[c] = "closed" /\ relayUp' = FALSE /\ UNCHANGED <<clients, conn, c2r, lastError>>
  /\ UNCHANGED <<cid, now, relayQ, rekey, r2c, loginQ, l2r, gameQ, g2r>>

\* ServerConnector::handleIO: the packets of the servers have no ClientInfo.
ReceiveFromLogin ==
  /\ relayUp
  /\ l2r # <<>>
  /\ l2r' = Tail(l2r)
  /\ relayQ' = Append(relayQ, [pb |-> Head(l2r), from |-> Nobody])
  /\ UNCHANGED <<clients, cid, now, rekey, failing, lastError, relayUp, conn, c2r, r2c, loginQ, gameQ, g2r>>

ReceiveFromGame ==
  /\ relayUp
  /\ g2r # <<>>
  /\ g2r' = Tail(g2r)
  /\ relayQ' = Append(relayQ, [pb |-> Head(g2r), from |-> Nobody])
  /\ UNCHANGED <<clients, cid, now, rekey, failing, lastError, relayUp, conn, c2r, r2c, loginQ, l2r, gameQ>>

\* ClientInfo::sendMessage.  A write to a client that is gone is lost; it may
\* complete, with an error, later.
SendTo(c, p) ==
  \/ /\ conn[c] = "up"
     /\ r2c' = [r2c EXCEPT ![c] = Append(@, p)]
     /\ UNCHANGED failing
  \/ /\ conn[c] # "up"
     /\ failing' \in {failing, IF conn[c] = "closed" THEN failing ELSE failing \cup {c}}
     /\ UNCHANGED r2c

\* The packet handlePacketThread pops.
PopRelay(types) ==
  /\ relayUp
  /\ rekey = Nobody
  /\ relayQ # <<>>
  /\ Head(relayQ).pb.type \in types
  /\ relayQ' = Tail(relayQ)

Stamp(p, key) == [type |-> p.type, id |-> p.id, password |-> p.password, key |-> key]

\* REQ_LOG_IN, REQ_REGISTER.  The id is the one the connection has by now.
ForwardToLogin ==
  /\ PopRelay(LoginRequests)
  /\ loginQ' = Append(loginQ, Stamp(Head(relayQ).pb, cid[Head(relayQ).from]))
  /\ UNCHANGED <<clients, cid, now, rekey, failing, lastError, relayUp, conn, c2r, r2c, l2r, gameQ, g2r>>

\* REQ_HOST_ROOM, REQ_ENTER_ROOM, PlAYER_TURN_OVER.
ForwardToGame ==
  /\ PopRelay(GameRequests)
  /\ gameQ' = Append(gameQ, Head(relayQ).pb)
  /\ UNCHANGED <<clients, cid, now, rekey, failing, lastError, relayUp, conn, c2r, r2c, loginQ, l2r, g2r>>

GameReplies == RoomReplies \cup {"ALLOW_PLAY_GAME", "DEAL_CARDS", "PLAYER_TURN"}

\* Every server packet but ACCEPT_LOG_IN.  Nothing checks that the client is
\* still in the map: a null ClientInfo ends the process.
ForwardToClient ==
  /\ PopRelay((LoginReplies \ {"ACCEPT_LOG_IN"}) \cup GameReplies)
  /\ LET p == Head(relayQ).pb
         c == clients[p.to]
     IN \/ c # Nobody /\ SendTo(c, p) /\ UNCHANGED relayUp
        \/ c = Nobody /\ relayUp' = FALSE /\ UNCHANGED <<failing, r2c>>
  /\ UNCHANGED <<clients, cid, now, rekey, lastError, conn, c2r, loginQ, l2r, gameQ, g2r>>

\* ACCEPT_LOG_IN: getClientInfo, removeClientInfo and setId...
BeginRekey ==
  /\ PopRelay({"ACCEPT_LOG_IN"})
  /\ LET p == Head(relayQ).pb
         c == clients[p.to]
     IN /\ RemoveClient(p.to)
        /\ \/ /\ c # Nobody
              /\ cid' = [cid EXCEPT ![c] = p.id]
              /\ rekey' = [c |-> c, id |-> p.id]
              /\ UNCHANGED relayUp
           \/ /\ c = Nobody
              /\ relayUp' = FALSE
              /\ UNCHANGED <<cid, rekey>>
  /\ UNCHANGED <<now, failing, lastError, links>>

\* ...addClientInfo and the reply to the client.
FinishRekey_NotAdded ==
  /\ relayUp
  /\ rekey # Nobody
  /\ rekey' = Nobody
  /\ SendTo(rekey.c, [type |-> "ACCEPT_LOG_IN", to |-> rekey.id])
  /\ UNCHANGED <<clients, cid, now, relayQ, lastError, relayUp, conn, c2r, loginQ, l2r, gameQ, g2r>>
FinishRekey ==
  /\ relayUp
  /\ rekey # Nobody
  /\ rekey' = Nobody
  /\ AddClient(rekey.id, rekey.c)
  /\ SendTo(rekey.c, [type |-> "ACCEPT_LOG_IN", to |-> rekey.id])
  /\ UNCHANGED <<cid, now, relayQ, lastError, relayUp, conn, c2r, loginQ, l2r, gameQ, g2r>>

HandleRelayPacket ==
  ForwardToLogin \/ ForwardToGame \/ ForwardToClient \/ BeginRekey \/ FinishRekey

\* The IOCP worker.
RelayWorker(c) ==
  ReceiveFromClient(c) \/ NoticeReset(c) \/ NoticeEof(c) \/ NoticeFailedWrite(c)

RelayInit ==
  /\ clients = [i \in Ids |-> Nobody]
  /\ cid = [c \in Conns |-> Nobody]
  /\ now = 0
  /\ relayQ = <<>>
  /\ rekey = Nobody
  /\ failing = {}
  /\ lastError = "other"
  /\ relayUp = TRUE

RelayPacket == [pb : ClientPacket, from : Conns] \cup [pb : ServerPacket, from : {Nobody}]

RelayTypeOK ==
  /\ clients \in [Ids -> Conns \cup {Nobody}]
  /\ cid \in [Conns -> Ids \cup {Nobody}]
  /\ now \in 0 .. MaxMillis
  /\ relayQ \in Seq(RelayPacket)
  /\ rekey \in Rekeying \cup {Nobody}
  /\ failing \subseteq Conns
  /\ lastError \in {"other", "WSA_IO_PENDING", "ERROR_NETNAME_DELETED"}
  /\ relayUp \in BOOLEAN
=============================================================================
