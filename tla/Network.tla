------------------------------ MODULE Network ------------------------------
(***************************************************************************)
(* What the four programs share: the packets of PacketType.h, with the     *)
(* fields their handlers write and read, and the TCP links and packet      *)
(* queues the packets travel through.                                      *)
(*                                                                         *)
(*   client c  --c2r[c]-->  relay  --loginQ-->  login server               *)
(*             <--r2c[c]--         <--l2r----                              *)
(*                                 --gameQ--->  game server                *)
(*                                 <--g2r----                              *)
(*                                                                         *)
(* A link is a FIFO of whole packets: every send writes one DATA_BUF_SIZE  *)
(* frame and every receive is taken to return one.  loginQ and gameQ are   *)
(* the link from the relay followed by the server's PacketQueue: a single  *)
(* receiving thread moves packets from one to the other, in order.         *)
(***************************************************************************)
EXTENDS Integers, Sequences, FiniteSets

CONSTANTS
  Conns,       \* client processes; each opens one connection to the relay
  Users,       \* account names
  Passwords,
  RoomNames,
  CardTypes,   \* values of enum CardType
  HandSize,    \* MAX_CARDS_ON_HAND
  MaxMillis,   \* bound: distinct milliseconds in which clients are accepted
  Nobody       \* the empty string, the null pointer, the missing row

\* An account name is never a key that createUniqueKey makes, or a number.
ASSUME NetworkAssumption ==
  /\ IsFiniteSet(CardTypes)
  /\ HandSize \in Nat \ {0}
  /\ MaxMillis \in Nat
  /\ Users \cap (1 .. MaxMillis) = {}
  /\ Nobody \notin Conns \cup Users \cup Passwords \cup RoomNames \cup (1 .. MaxMillis)

\* Temporary keys "UID-<milliseconds>", and everything a ClientInfo's id can be.
Keys == 1 .. MaxMillis
Ids == Users \cup Keys

VARIABLES
  conn,     \* conn[c]: the TCP connection of client c, see ConnStates
  c2r, r2c, \* per client: packets sent and not yet received
  loginQ, l2r,
  gameQ, g2r

links == <<conn, c2r, r2c, loginQ, l2r, gameQ, g2r>>

(***************************************************************************)
(* "none"    the client process has not connected                          *)
(* "pending" connect() done, the relay's accept() not yet                  *)
(* "up"      accepted                                                      *)
(* "reset"   the client process is gone, and its TCP stack said so by RST  *)
(* "eof"     the client process is gone, and its TCP stack said so by FIN  *)
(* "stale"   gone too, and the relay has no receive posted that would tell *)
(* "closed"  the relay closed its socket                                   *)
(***************************************************************************)
ConnStates == {"none", "pending", "up", "reset", "eof", "stale", "closed"}

Alive(c) == conn[c] \in {"pending", "up"}

\* A hand, and a choice of cards to discard, as a bag: how many of each type.
Bag == [CardTypes -> 0 .. HandSize]
NoCards == [t \in CardTypes |-> 0]
Size(bag) == Cardinality({e \in CardTypes \X (1 .. HandSize) : e[2] <= bag[e[1]]})

LoginRequests == {"REQ_LOG_IN", "REQ_REGISTER"}
RoomRequests == {"REQ_HOST_ROOM", "REQ_ENTER_ROOM"}
GameRequests == RoomRequests \cup {"PlAYER_TURN_OVER"}
LoginReplies == {"ACCEPT_LOG_IN", "REJECT_LOG_IN", "ACCEPT_REGISTER", "REJECT_REGISTER"}
RoomReplies == {"ALLOW_HOST_ROOM", "REJECT_HOST_ROOM", "ALLOW_ENTER_ROOM", "REJECT_ENTER_ROOM"}

LoginRequest == [type : LoginRequests, id : Users, password : Passwords]
GameRequest ==
  [type : RoomRequests, id : Users, room : RoomNames] \cup
  [type : {"PlAYER_TURN_OVER"}, id : Users, room : RoomNames \cup {Nobody}, discarded : Nat]
ClientPacket == LoginRequest \cup GameRequest

\* The relay appends the id of the connection to what it forwards; only the
\* login server reads it.
StampedRequest == [type : LoginRequests, id : Users, password : Passwords, key : Ids]

\* to is the first string of the packet, by which the relay finds the client.
LoginReply == [type : LoginReplies, to : Ids, id : Users]
GamePacket ==
  [type : RoomReplies, to : Users] \cup
  [type : {"ALLOW_PLAY_GAME"}, to : Users, others : Seq(Users)] \cup
  [type : {"DEAL_CARDS"}, to : Users, cards : Bag] \cup
  [type : {"PLAYER_TURN"}, to : Users, previous : Users \cup {Nobody}, discarded : Nat]
ServerPacket == LoginReply \cup GamePacket

\* The relay writes its own ACCEPT_LOG_IN for the client and forwards the rest.
PacketToClient ==
  [type : {"ACCEPT_LOG_IN"}, to : Users] \cup
  [type : LoginReplies \ {"ACCEPT_LOG_IN"}, to : Ids, id : Users] \cup GamePacket

LinksTypeOK ==
  /\ conn \in [Conns -> ConnStates]
  /\ c2r \in [Conns -> Seq(ClientPacket)]
  /\ r2c \in [Conns -> Seq(PacketToClient)]
  /\ loginQ \in Seq(StampedRequest)
  /\ l2r \in Seq(LoginReply)
  /\ gameQ \in Seq(GameRequest)
  /\ g2r \in Seq(GamePacket)

LinksInit ==
  /\ conn = [c \in Conns |-> "none"]
  /\ c2r = [c \in Conns |-> <<>>]
  /\ r2c = [c \in Conns |-> <<>>]
  /\ loginQ = <<>> /\ l2r = <<>>
  /\ gameQ = <<>> /\ g2r = <<>>
=============================================================================
