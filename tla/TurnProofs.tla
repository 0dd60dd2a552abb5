----------------------------- MODULE TurnProofs -----------------------------
(***************************************************************************)
(* Proofs about the turn of a room, on the same assumptions: it is in one  *)
(* place, it is somewhere while every program runs, and the four programs  *)
(* together take the steps of TurnGame and no others.  About what its      *)
(* player has by then: the cards that are drawn, and who else is there.    *)
(* And about the cards of a table, which come from one deck.               *)
(***************************************************************************)
EXTENDS GameProofs

(***************************************************************************)
(* Where the turn of a room is.                                            *)
(***************************************************************************)

\* One place, one packet; and where Turns has it.
LEMMA OnePacket ==
  ASSUME NEW c \in Conns, NEW at, NEW i, NEW p, NEW p2, At(c, at, i, p), At(c, at, i, p2)
  PROVE  p = p2
BY DEF At

Queue(at) == IF at \in {"over", "back"} THEN "relayQ" ELSE at
Link(c, at) == IF at \in {"c2r", "r2c"} THEN c ELSE Nobody
PlaceOf(c, at, i, p) == [at |-> Queue(at), of |-> Link(c, at), no |-> i, packet |-> p]

\* The players of a room are in it.
LEMMA PlayersRoom ==
  ASSUME DInv, RoomsInv, NEW c \in Conns, NEW r \in RoomNames, cid[c] \in Seats(r)
  PROVE  room[c] = r /\ me[c] # Nobody /\ me[c].id = cid[c] /\ cid[c] \in Users
BY ConnFacts DEF RoomsInv, SeatsOK

\* A packet that carries a turn is at one of the six places of the player whose turn it is.
LEMMA TurnOwned ==
  ASSUME DInv, RoomsInv, NEW r \in RoomNames, NEW c \in Conns, NEW at, NEW i, NEW p, At(c, at, i, p)
  PROVE  Carries(p, r) <=> p.type \in TurnTypes /\ room[c] = r
<1>1. PacketsOK(c)
  BY DEF RoomsInv, Course
<1>2. p.type \in TurnTypes => HasTurn(c)
  BY <1>1 DEF PacketsOK, Holds
<1>3. p.type = "PLAYER_TURN" => p.to = cid[c]
  BY AtFacts DEF GameRequests, RoomRequests
<1>4. p.type = "PlAYER_TURN_OVER" => p.room = room[c]
  BY <1>1 DEF PacketsOK, Holds, GameRequests
<1>5. HasTurn(c) => cid[c] \in Seats(room[c])
  BY DEF HasTurn, Plays, SitsIn
<1>6. cid[c] \in Seats(r) => room[c] = r
  BY PlayersRoom
<1> QED BY <1>2, <1>3, <1>4, <1>5, <1>6 DEF Carries, TurnTypes

LEMMA TurnPlace ==
  ASSUME DInv, RoomsInv, NEW r \in RoomNames, NEW x \in Turns(r)
  PROVE  \E c \in Conns : \E at, i, p : At(c, at, i, p) /\ x = PlaceOf(c, at, i, p) /\ p.type \in TurnTypes
                                        /\ room[c] = r /\ HasTurn(c) /\ p = x.packet
<1>1. SUFFICES \E c \in Conns : \E at, i, p : At(c, at, i, p) /\ x = PlaceOf(c, at, i, p)
  <2>1. PICK c \in Conns : \E at, i, p : At(c, at, i, p) /\ x = PlaceOf(c, at, i, p)
    BY <1>1
  <2>2. PICK at, i, p : At(c, at, i, p) /\ x = PlaceOf(c, at, i, p)
    BY <2>1
  <2>3. x.packet = p /\ Carries(p, r)
    BY <2>2 DEF PlaceOf, Turns
  <2>4. p.type \in TurnTypes /\ room[c] = r
    BY <2>2, <2>3, TurnOwned
  <2>5. HasTurn(c)
    BY <2>2, <2>4 DEF RoomsInv, Course, PacketsOK, Holds
  <2> QED BY <2>2, <2>3, <2>4, <2>5
<1>2. /\ \A c \in Conns : c2r[c] \in Seq(ClientPacket) /\ r2c[c] \in Seq(PacketToClient)
      /\ gameQ \in Seq(GameRequest) /\ g2r \in Seq(GamePacket) /\ relayQ \in Seq(RelayPacket)
  BY RelayTypes
<1>3. x \in UnderWay /\ Carries(x.packet, r)
  BY DEF Turns
<1>4. CASE x \in Places("gameQ", Nobody, gameQ)
  <2>1. PICK i \in DOMAIN gameQ : x = [at |-> "gameQ", of |-> Nobody, no |-> i, packet |-> gameQ[i]]
    BY <1>4 DEF Places
  <2>2. PICK c \in Conns : cid[c] = gameQ[i].id
    BY <2>1 DEF DInv, RequestsSigned, IsAccount
  <2>3. At(c, "gameQ", i, gameQ[i]) /\ x = PlaceOf(c, "gameQ", i, gameQ[i])
    BY <2>1, <2>2 DEF At, PlaceOf, Queue, Link
  <2> QED BY <2>3
<1>5. CASE x \in Places("g2r", Nobody, g2r)
  <2>1. PICK i \in DOMAIN g2r : x = [at |-> "g2r", of |-> Nobody, no |-> i, packet |-> g2r[i]]
    BY <1>5 DEF Places
  <2>2. PICK c \in Conns : cid[c] = g2r[i].to
    BY <2>1 DEF DInv, PlayersKnown, IsAccount
  <2>3. At(c, "g2r", i, g2r[i]) /\ x = PlaceOf(c, "g2r", i, g2r[i])
    BY <2>1, <2>2 DEF At, PlaceOf, Queue, Link
  <2> QED BY <2>3
<1>6. CASE x \in Places("relayQ", Nobody, RelayPackets)
  <2>1. PICK i \in DOMAIN relayQ : x = [at |-> "relayQ", of |-> Nobody, no |-> i, packet |-> relayQ[i].pb]
    BY <1>6 DEF Places, RelayPackets
  <2>2. CASE relayQ[i].pb.type = "PLAYER_TURN"
    <3>1. relayQ[i].pb.type \in GameReplies
      BY <2>2 DEF GameReplies
    <3>2. PICK c \in Conns : cid[c] = relayQ[i].pb.to
      BY <3>1 DEF DInv, PlayersKnown, IsAccount
    <3>3. At(c, "back", i, relayQ[i].pb) /\ x = PlaceOf(c, "back", i, relayQ[i].pb)
      BY <2>1, <3>1, <3>2 DEF At, PlaceOf, Queue, Link
    <3> QED BY <3>3
  <2>3. CASE relayQ[i].pb.type = "PlAYER_TURN_OVER"
    <3>1. relayQ[i].pb.type \in GameRequests
      BY <2>3 DEF GameRequests
    <3>2. PICK c \in Conns : relayQ[i].from = c
      BY <3>1, QueuedFacts
    <3>3. At(c, "over", i, relayQ[i].pb) /\ x = PlaceOf(c, "over", i, relayQ[i].pb)
      BY <2>1, <3>1, <3>2 DEF At, PlaceOf, Queue, Link
    <3> QED BY <3>3
  <2> QED BY <1>3, <2>1, <2>2, <2>3 DEF Carries
<1>7. ASSUME NEW c \in Conns, x \in Places("c2r", c, c2r[c])
      PROVE  \E d \in Conns : \E at, i, p : At(d, at, i, p) /\ x = PlaceOf(d, at, i, p)
  <2>1. PICK i \in DOMAIN c2r[c] : x = [at |-> "c2r", of |-> c, no |-> i, packet |-> c2r[c][i]]
    BY <1>7 DEF Places
  <2>2. c2r[c][i].type \in GameRequests
    <3>1. c2r[c][i] \in ClientPacket
      BY <1>2, <2>1, QueueTypes
    <3> QED BY <1>3, <2>1, <3>1, ClientPacketKinds, TypesDiffer DEF Carries, GameRequests, GameReplies
  <2>3. At(c, "c2r", i, c2r[c][i]) /\ x = PlaceOf(c, "c2r", i, c2r[c][i])
    BY <2>1, <2>2 DEF At, PlaceOf, Queue, Link
  <2> QED BY <2>3
<1>8. ASSUME NEW c \in Conns, x \in Places("r2c", c, r2c[c])
      PROVE  \E d \in Conns : \E at, i, p : At(d, at, i, p) /\ x = PlaceOf(d, at, i, p)
  <2>1. PICK i \in DOMAIN r2c[c] : x = [at |-> "r2c", of |-> c, no |-> i, packet |-> r2c[c][i]]
    BY <1>8 DEF Places
  <2>2. r2c[c][i].type \in GameReplies
    <3>1. r2c[c][i] \in PacketToClient
      BY <1>2, <2>1, QueueTypes
    <3>2. r2c[c][i].type # "PlAYER_TURN_OVER"
      BY <3>1 DEF PacketToClient, GamePacket, LoginReplies, RoomReplies
    <3> QED BY <1>3, <2>1, <3>2 DEF Carries, GameReplies
  <2>3. At(c, "r2c", i, r2c[c][i]) /\ x = PlaceOf(c, "r2c", i, r2c[c][i])
    BY <2>1, <2>2 DEF At, PlaceOf, Queue, Link
  <2> QED BY <2>3
<1> QED BY <1>3, <1>4, <1>5, <1>6, <1>7, <1>8 DEF UnderWay

\* And each of them is among Turns.
LEMMA PlaceTurn ==
  ASSUME DInv, RoomsInv, NEW r \in RoomNames, NEW c \in Conns, NEW at, NEW i, NEW p, At(c, at, i, p),
         p.type \in TurnTypes, room[c] = r
  PROVE  PlaceOf(c, at, i, p) \in Turns(r)
<1>1. Carries(p, r)
  BY TurnOwned
<1>2. PlaceOf(c, at, i, p) \in UnderWay
  <2>1. CASE at \in {"c2r", "r2c"}
    <3>1. PlaceOf(c, at, i, p) \in Places("c2r", c, c2r[c]) \cup Places("r2c", c, r2c[c])
      BY <2>1 DEF At, PlaceOf, Queue, Link, Places
    <3> QED BY <3>1 DEF UnderWay
  <2>2. CASE at \in {"over", "back"}
    <3>1. i \in DOMAIN relayQ /\ p = relayQ[i].pb
      BY <2>2 DEF At
    <3>2. PlaceOf(c, at, i, p) = [at |-> "relayQ", of |-> Nobody, no |-> i, packet |-> p]
      BY <2>2 DEF PlaceOf, Queue, Link
    <3>3. PlaceOf(c, at, i, p) \in Places("relayQ", Nobody, RelayPackets)
      BY <3>1, <3>2 DEF Places, RelayPackets
    <3> QED BY <3>3 DEF UnderWay
  <2>3. CASE at = "gameQ"
    <3>1. PlaceOf(c, at, i, p) \in Places("gameQ", Nobody, gameQ)
      BY <2>3 DEF At, PlaceOf, Queue, Link, Places
    <3> QED BY <3>1 DEF UnderWay
  <2>4. CASE at = "g2r"
    <3>1. PlaceOf(c, at, i, p) \in Places("g2r", Nobody, g2r)
      BY <2>4 DEF At, PlaceOf, Queue, Link, Places
    <3> QED BY <3>1 DEF UnderWay
  <2> QED BY <2>1, <2>2, <2>3, <2>4 DEF At
<1>3. PlaceOf(c, at, i, p).packet = p
  BY DEF PlaceOf
<1> QED BY <1>1, <1>2, <1>3 DEF Turns

\* Who plays a turn has it.
LEMMA ActingFacts ==
  ASSUME DInv, RoomsInv, NEW r \in RoomNames, NEW c \in Acting(r)
  PROVE  c \in Conns /\ io[c] = "turn" /\ room[c] = r /\ HasTurn(c) /\ Alive(c)
         /\ \A at, i, p : At(c, at, i, p) => p.type \notin TurnTypes
BY DEF Acting, RoomsInv, Course, ToldOK, PageAlone, Tokens

\* Only one player has the turn of a room.
LEMMA OneHolder ==
  ASSUME DInv, ~SharedAccount, NEW c \in Conns, NEW d \in Conns, HasTurn(c), HasTurn(d), room[c] = room[d],
         cid[c] \in Users
  PROVE  c = d
BY OwnerIsOne DEF HasTurn

LEMMA HolderFacts ==
  ASSUME DInv, RoomsInv, NEW c \in Conns, HasTurn(c)
  PROVE  cid[c] \in Users /\ me[c].id = cid[c] /\ cid[c] = HolderOfTurn(room[c]) /\ IsFull(rooms[room[c]])
         /\ room[c] \in RoomNames /\ cid[c] \in Seats(room[c])
BY PlayersRoom DEF HasTurn, Plays, SitsIn

\* The turn of a room is in one place, of the player whose turn it is.
LEMMA OneTurn ==
  ASSUME DInv, RoomsInv, ~SharedAccount, NEW r \in RoomNames
  PROVE  /\ \A x, y \in Turns(r) : x = y
         /\ \A c, d \in Acting(r) : c = d
         /\ Turns(r) = {} \/ Acting(r) = {}
         /\ Turns(r) # {} \/ Acting(r) # {} => IsFull(rooms[r])
         /\ \A x \in Turns(r) : Carrier(x.packet) = HolderOfTurn(r)
         /\ \A c \in Acting(r) : me[c].id = HolderOfTurn(r)
<1>1. ASSUME NEW x \in Turns(r), NEW y \in Turns(r) PROVE x = y
  <2>1. PICK c \in Conns : \E at, i, p : At(c, at, i, p) /\ x = PlaceOf(c, at, i, p) /\ p.type \in TurnTypes
                                         /\ room[c] = r /\ HasTurn(c)
    BY TurnPlace
  <2>2. PICK at, i, p : At(c, at, i, p) /\ x = PlaceOf(c, at, i, p) /\ p.type \in TurnTypes
    BY <2>1
  <2>3. PICK d \in Conns : \E at2, i2, p2 : At(d, at2, i2, p2) /\ y = PlaceOf(d, at2, i2, p2) /\ p2.type \in TurnTypes
                                         /\ room[d] = r /\ HasTurn(d)
    BY TurnPlace
  <2>4. PICK at2, i2, p2 : At(d, at2, i2, p2) /\ y = PlaceOf(d, at2, i2, p2) /\ p2.type \in TurnTypes
    BY <2>3
  <2>5. c = d
    BY <2>1, <2>3, HolderFacts, OneHolder
  <2>6. at = at2 /\ i = i2
    BY <2>2, <2>4, <2>5 DEF RoomsInv, Course, OneToken, OneOf, Tokens
  <2>7. p = p2
    BY <2>2, <2>4, <2>5, <2>6, OnePacket
  <2> QED BY <2>2, <2>4, <2>5, <2>6, <2>7
<1>2. ASSUME NEW c \in Acting(r), NEW d \in Acting(r) PROVE c = d
  BY <1>2, ActingFacts, HolderFacts, OneHolder
<1>3. ASSUME NEW x \in Turns(r), NEW d \in Acting(r) PROVE FALSE
  <2>1. PICK c \in Conns : \E at, i, p : At(c, at, i, p) /\ p.type \in TurnTypes /\ room[c] = r /\ HasTurn(c)
    BY TurnPlace
  <2>2. d \in Conns /\ room[d] = r /\ HasTurn(d) /\ \A at, i, p : At(d, at, i, p) => p.type \notin TurnTypes
    BY ActingFacts
  <2>3. c = d
    BY <2>1, <2>2, HolderFacts, OneHolder
  <2> QED BY <2>1, <2>2, <2>3
<1>4. ASSUME NEW x \in Turns(r) PROVE IsFull(rooms[r]) /\ Carrier(x.packet) = HolderOfTurn(r)
  <2>1. PICK c \in Conns : \E at, i, p : At(c, at, i, p) /\ x = PlaceOf(c, at, i, p) /\ p.type \in TurnTypes
                                         /\ room[c] = r /\ HasTurn(c)
    BY TurnPlace
  <2>2. PICK at, i, p : At(c, at, i, p) /\ x = PlaceOf(c, at, i, p) /\ p.type \in TurnTypes
    BY <2>1
  <2>3. IsFull(rooms[r]) /\ cid[c] = HolderOfTurn(r)
    BY <2>1, HolderFacts
  <2>4. x.packet = p
    BY <2>2 DEF PlaceOf
  <2>5. Carrier(p) = cid[c]
    BY <2>2, AtFacts DEF Carrier, TurnTypes, GameRequests, RoomRequests, GameReplies, RoomReplies
  <2> QED BY <2>3, <2>4, <2>5
<1>5. \A c \in Acting(r) : IsFull(rooms[r]) /\ me[c].id = HolderOfTurn(r)
  BY ActingFacts, HolderFacts
<1> QED BY <1>1, <1>2, <1>3, <1>4, <1>5

(***************************************************************************)
(* The phase of a room, told by the packets of its players.                *)
(***************************************************************************)
Bears(c, type) == \E at, i, p : At(c, at, i, p) /\ p.type = type
Offered(r) == \E c \in Conns : room[c] = r /\ Bears(c, "PLAYER_TURN")
Returned(r) == \E c \in Conns : room[c] = r /\ Bears(c, "PlAYER_TURN_OVER")
Arrived(r) == \E c \in Conns : room[c] = r /\ \E i, p : At(c, "gameQ", i, p) /\ p.type = "PlAYER_TURN_OVER"

LEMMA OfferedTurn ==
  ASSUME DInv, RoomsInv, NEW r \in RoomNames
  PROVE  Offered(r) <=> \E x \in Turns(r) : x.packet.type = "PLAYER_TURN"
<1>1. ASSUME Offered(r) PROVE \E x \in Turns(r) : x.packet.type = "PLAYER_TURN"
  <2>1. PICK c \in Conns : room[c] = r /\ Bears(c, "PLAYER_TURN")
    BY <1>1 DEF Offered
  <2>2. PICK at, i, p : At(c, at, i, p) /\ p.type = "PLAYER_TURN"
    BY <2>1 DEF Bears
  <2>3. PlaceOf(c, at, i, p) \in Turns(r) /\ PlaceOf(c, at, i, p).packet = p
    BY <2>1, <2>2, PlaceTurn DEF TurnTypes, PlaceOf
  <2> QED BY <2>2, <2>3
<1>2. ASSUME NEW x \in Turns(r), x.packet.type = "PLAYER_TURN" PROVE Offered(r)
  <2>1. PICK c \in Conns : \E at, i, p : At(c, at, i, p) /\ room[c] = r /\ p = x.packet
    BY TurnPlace
  <2> QED BY <1>2, <2>1 DEF Offered, Bears
<1> QED BY <1>1, <1>2

LEMMA ReturnedTurn ==
  ASSUME DInv, RoomsInv, NEW r \in RoomNames
  PROVE  Returned(r) <=> \E x \in Turns(r) : x.packet.type = "PlAYER_TURN_OVER"
<1>1. ASSUME Returned(r) PROVE \E x \in Turns(r) : x.packet.type = "PlAYER_TURN_OVER"
  <2>1. PICK c \in Conns : room[c] = r /\ Bears(c, "PlAYER_TURN_OVER")
    BY <1>1 DEF Returned
  <2>2. PICK at, i, p : At(c, at, i, p) /\ p.type = "PlAYER_TURN_OVER"
    BY <2>1 DEF Bears
  <2>3. PlaceOf(c, at, i, p) \in Turns(r) /\ PlaceOf(c, at, i, p).packet = p
    BY <2>1, <2>2, PlaceTurn DEF TurnTypes, PlaceOf
  <2> QED BY <2>2, <2>3
<1>2. ASSUME NEW x \in Turns(r), x.packet.type = "PlAYER_TURN_OVER" PROVE Returned(r)
  <2>1. PICK c \in Conns : \E at, i, p : At(c, at, i, p) /\ room[c] = r /\ p = x.packet
    BY TurnPlace
  <2> QED BY <1>2, <2>1 DEF Returned, Bears
<1> QED BY <1>1, <1>2

LEMMA ArrivedTurn ==
  ASSUME DInv, RoomsInv, NEW r \in RoomNames
  PROVE  Arrived(r) <=> \E x \in Turns(r) : x.at = "gameQ"
<1>1. ASSUME Arrived(r) PROVE \E x \in Turns(r) : x.at = "gameQ"
  <2>1. PICK c \in Conns : room[c] = r /\ \E i, p : At(c, "gameQ", i, p) /\ p.type = "PlAYER_TURN_OVER"
    BY <1>1 DEF Arrived
  <2>2. PICK i, p : At(c, "gameQ", i, p) /\ p.type = "PlAYER_TURN_OVER"
    BY <2>1
  <2>3. PlaceOf(c, "gameQ", i, p) \in Turns(r) /\ PlaceOf(c, "gameQ", i, p).at = "gameQ"
    BY <2>1, <2>2, PlaceTurn DEF TurnTypes, PlaceOf, Queue
  <2> QED BY <2>3
<1>2. ASSUME NEW x \in Turns(r), x.at = "gameQ" PROVE Arrived(r)
  <2>1. PICK c \in Conns : \E at, i, p : At(c, at, i, p) /\ x = PlaceOf(c, at, i, p) /\ room[c] = r
                                         /\ p.type \in TurnTypes
    BY TurnPlace
  <2>2. PICK at, i, p : At(c, at, i, p) /\ x = PlaceOf(c, at, i, p) /\ p.type \in TurnTypes
    BY <2>1
  <2>3. at = "gameQ"
    BY <1>2, <2>2 DEF PlaceOf, Queue
  <2>4. p.type \in GameRequests
    BY <2>2, <2>3, AtFacts
  <2>5. p.type = "PlAYER_TURN_OVER"
    BY <2>2, <2>4 DEF TurnTypes, GameRequests, RoomRequests
  <2> QED BY <2>1, <2>2, <2>3, <2>5 DEF Arrived
<1> QED BY <1>1, <1>2

LEMMA ArrivedReturned ==
  ASSUME NEW r, Arrived(r)
  PROVE  Returned(r)
BY DEF Arrived, Returned, Bears

\* At most one of these is so, and only of a full table.
OnePlace(r) ==
  /\ Offered(r) => ~Returned(r) /\ Acting(r) = {} /\ IsFull(rooms[r])
  /\ Returned(r) => ~Offered(r) /\ Acting(r) = {} /\ IsFull(rooms[r])
  /\ Acting(r) # {} => IsFull(rooms[r])

\* So they tell the phase.
PhaseTold(r) ==
  PhaseOf(r) = IF ~IsFull(rooms[r]) THEN "filling"
               ELSE IF Arrived(r) THEN "played"
               ELSE IF ~relayUp THEN "lost"
               ELSE IF Offered(r) THEN "offered"
               ELSE IF Acting(r) # {} THEN "playing"
               ELSE IF Returned(r) THEN "played"
               ELSE "lost"

TurnInv == DInv /\ RoomsInv /\ ~SharedAccount

LEMMA PhaseFacts ==
  ASSUME NEW r \in RoomNames
  PROVE  TurnInv => OnePlace(r) /\ PhaseTold(r)
<1> SUFFICES ASSUME DInv, RoomsInv, ~SharedAccount PROVE OnePlace(r) /\ PhaseTold(r)
  BY DEF TurnInv
<1>1. gameUp
  BY DEF RoomsInv
<1>2. Turns(r) # {} <=> Offered(r) \/ Returned(r)
  <2>1. ASSUME NEW x \in Turns(r) PROVE x.packet.type \in TurnTypes
    BY DEF Turns, Carries, TurnTypes
  <2> QED BY <2>1, OfferedTurn, ReturnedTurn DEF TurnTypes
<1>3. ~(Offered(r) /\ Returned(r))
  BY OneTurn, OfferedTurn, ReturnedTurn
<1>4. OnePlace(r)
  BY <1>2, <1>3, OneTurn DEF OnePlace
<1>5. PhaseTold(r)
  BY <1>1, <1>2, OfferedTurn, ReturnedTurn, ArrivedTurn DEF PhaseOf, PhaseTold
<1> QED BY <1>4, <1>5

\* They do after a step, too.
LEMMA PhaseFactsNext ==
  ASSUME NEW r \in RoomNames, TurnInv'
  PROVE  OnePlace(r)' /\ PhaseTold(r)'
<1>1. (TurnInv => OnePlace(r) /\ PhaseTold(r))'
  BY PhaseFacts, PTL
<1> QED BY <1>1

(***************************************************************************)
(* Steps that carry no turn on: whatever carries a turn then carried it    *)
(* before, and a turn can only be lost.                                    *)
(***************************************************************************)
HadTurn(c) ==
  /\ \A at, i, p : At(c, at, i, p)' /\ p.type \in TurnTypes =>
       /\ room'[c] = room[c]
       /\ \E at2, i2 : At(c, at2, i2, p) /\ (at = "gameQ" => at2 = "gameQ" \/ relayUp)
  /\ Alive(c)' /\ io'[c] = "turn" => room'[c] = room[c] /\ Alive(c) /\ io[c] = "turn"
OnlyLosesTurns == UNCHANGED rooms /\ (relayUp' => relayUp) /\ \A c \in Conns : HadTurn(c)

LEMMA TurnWasThere ==
  ASSUME OnlyLosesTurns, NEW r \in RoomNames
  PROVE  /\ Offered(r)' => Offered(r)
         /\ Returned(r)' => Returned(r)
         /\ Arrived(r)' => Returned(r) /\ (Arrived(r) \/ relayUp)
         /\ Acting(r)' # {} => Acting(r) # {}
<1>1. ASSUME Offered(r)' PROVE Offered(r)
  <2>1. PICK c \in Conns : room'[c] = r /\ \E at, i, p : At(c, at, i, p)' /\ p.type = "PLAYER_TURN"
    BY <1>1 DEF Offered, Bears
  <2>2. PICK at, i, p : At(c, at, i, p)' /\ p.type = "PLAYER_TURN"
    BY <2>1
  <2>3. room[c] = r /\ \E at2, i2 : At(c, at2, i2, p)
    BY <2>1, <2>2 DEF OnlyLosesTurns, HadTurn, TurnTypes
  <2> QED BY <2>2, <2>3 DEF Offered, Bears
<1>2. ASSUME Returned(r)' PROVE Returned(r)
  <2>1. PICK c \in Conns : room'[c] = r /\ \E at, i, p : At(c, at, i, p)' /\ p.type = "PlAYER_TURN_OVER"
    BY <1>2 DEF Returned, Bears
  <2>2. PICK at, i, p : At(c, at, i, p)' /\ p.type = "PlAYER_TURN_OVER"
    BY <2>1
  <2>3. room[c] = r /\ \E at2, i2 : At(c, at2, i2, p)
    BY <2>1, <2>2 DEF OnlyLosesTurns, HadTurn, TurnTypes
  <2> QED BY <2>2, <2>3 DEF Returned, Bears
<1>3. ASSUME Arrived(r)' PROVE Returned(r) /\ (Arrived(r) \/ relayUp)
  <2>1. PICK c \in Conns : room'[c] = r /\ \E i, p : At(c, "gameQ", i, p)' /\ p.type = "PlAYER_TURN_OVER"
    BY <1>3 DEF Arrived
  <2>2. PICK i, p : At(c, "gameQ", i, p)' /\ p.type = "PlAYER_TURN_OVER"
    BY <2>1
  <2>3. PICK at2, i2 : At(c, at2, i2, p) /\ (at2 = "gameQ" \/ relayUp) /\ room[c] = r
    BY <2>1, <2>2 DEF OnlyLosesTurns, HadTurn, TurnTypes
  <2> QED BY <2>2, <2>3 DEF Returned, Bears, Arrived
<1>4. Acting(r)' # {} => Acting(r) # {}
  BY DEF OnlyLosesTurns, HadTurn, Acting
<1> QED BY <1>1, <1>2, <1>3, <1>4

LEMMA PhaseOrLost ==
  ASSUME TurnInv, TurnInv', OnlyLosesTurns, NEW r \in RoomNames
  PROVE  /\ PhaseOf(r)' \in {PhaseOf(r), "lost"}
         /\ PhaseOf(r) = "filling" => PhaseOf(r)' = "filling"
<1>1. OnePlace(r) /\ PhaseTold(r) /\ OnePlace(r)' /\ PhaseTold(r)'
  BY PhaseFacts, PhaseFactsNext
<1>2. IsFull(rooms[r])' <=> IsFull(rooms[r])
  BY DEF OnlyLosesTurns, IsFull
<1>3. relayUp' => relayUp
  BY DEF OnlyLosesTurns
<1>4. Arrived(r) => Returned(r)
  BY ArrivedReturned
<1> QED BY <1>1, <1>2, <1>3, <1>4, TurnWasThere DEF OnePlace, PhaseTold

(***************************************************************************)
(* The relay only carries what is under way.                               *)
(***************************************************************************)
LEMMA MovesHadTurn ==
  ASSUME NEW c \in Conns, Moves(c), relayUp, room'[c] = room[c], io'[c] = io[c], Alive(c)' => Alive(c)
  PROVE  HadTurn(c)
<1>1. PICK from, to, sh : \E n \in Int : Flow(from, to, sh) /\ Moved(c, from, to, n, sh)
  BY DEF Moves
<1>2. \A at, i, p : At(c, at, i, p)' => \E at2, i2 : At(c, at2, i2, p)
  BY <1>1 DEF Moved
<1> QED BY <1>2 DEF HadTurn

\* Who has no account has no turn, whatever id the connection is given.
LEMMA NobodyHadTurn ==
  ASSUME DInv, RoomsInv, DInv', RoomsInv', NEW c \in Conns, cid[c] \notin Users, UNCHANGED clientVars
  PROVE  HadTurn(c)
<1>1. me'[c] = Nobody
  BY ConnFacts DEF clientVars
<1>2. HasTurn(c)' => me'[c] # Nobody
  BY DEF HasTurn, Plays, SitsIn, RoomsInv, SeatsOK
<1>3. \A at, i, p : At(c, at, i, p)' => p.type \notin TurnTypes
  BY <1>1, <1>2 DEF RoomsInv, Course, PacketsOK, Holds
<1>4. io'[c] # "turn"
  BY <1>1, <1>2 DEF RoomsInv, Course, ToldOK
<1> QED BY <1>3, <1>4 DEF HadTurn

LEMMA RelayLosesTurns ==
  ASSUME TurnInv, TurnInv',
         \/ RelayStep(HandleRelayPacket) \/ RelayStep(ReceiveFromLogin) \/ RelayStep(ReceiveFromGame)
         \/ \E c \in Conns : RelayStep(Accept(c)) \/ RelayStep(RelayWorker(c))
  PROVE  OnlyLosesTurns
<1> USE DEF TurnInv
<1>1. /\ relayUp /\ UNCHANGED <<clientVars, rooms>>
      /\ \A c \in Conns : Alive(c)' => Alive(c)
  <2>1. conn \in [Conns -> ConnStates]
    BY RelayTypes
  <2>2. CASE RelayStep(HandleRelayPacket)
    BY <2>2 DEF RelayStep, HandleRelayPacket, ForwardToLogin, ForwardToGame, ForwardToClient, BeginRekey, FinishRekey,
                PopRelay, links, gameVars, Alive
  <2>3. CASE RelayStep(ReceiveFromLogin) \/ RelayStep(ReceiveFromGame)
    BY <2>3 DEF RelayStep, ReceiveFromLogin, ReceiveFromGame, gameVars, Alive
  <2>4. ASSUME NEW d \in Conns, RelayStep(Accept(d)) \/ RelayStep(RelayWorker(d))
        PROVE  /\ relayUp /\ UNCHANGED <<clientVars, rooms>>
               /\ \A c \in Conns : Alive(c)' => Alive(c)
    <3>1. CASE RelayStep(Accept(d))
      BY <2>1, <3>1 DEF RelayStep, Accept, gameVars, Alive
    <3>2. CASE RelayStep(RelayWorker(d))
      BY <2>1, <3>2 DEF RelayStep, RelayWorker, ReceiveFromClient, NoticeReset, NoticeEof, NoticeFailedWrite, Drop,
                        gameVars, Alive
    <3> QED BY <2>4, <3>1, <3>2
  <2> QED BY <2>2, <2>3, <2>4
<1>2. \A c \in Conns : Moves(c) => HadTurn(c)
  BY <1>1, MovesHadTurn DEF clientVars
<1>3. \A c \in Conns : cid[c] \notin Users => HadTurn(c)
  BY <1>1, NobodyHadTurn
<1>4. \A c \in Conns : Moves(c) \/ cid[c] \notin Users
  <2>1. CASE RelayStep(HandleRelayPacket)
    BY <2>1, ForwardToLoginMoves, ForwardToGameMoves, ForwardToClientMoves, FinishRekeyMoves, RekeyMoves
       DEF RelayStep, HandleRelayPacket
  <2>2. CASE RelayStep(ReceiveFromLogin) \/ RelayStep(ReceiveFromGame)
    BY <2>2, ReceiveFromLoginMoves, ReceiveFromGameMoves
  <2>3. ASSUME NEW d \in Conns, RelayStep(Accept(d)) \/ RelayStep(RelayWorker(d)), NEW c \in Conns
        PROVE  Moves(c) \/ cid[c] \notin Users
    BY <2>3, AcceptMoves, ReceiveFromClientMoves, WorkerMoves DEF RelayStep, RelayWorker
  <2> QED BY <2>1, <2>2, <2>3
<1> QED BY <1>1, <1>2, <1>3, <1>4 DEF OnlyLosesTurns

(***************************************************************************)
(* A client that does not play.                                            *)
(***************************************************************************)

\* The other clients are where they were.
LEMMA OthersHadTurn ==
  ASSUME NEW c \in Conns, LocalStep(c), NEW d \in Conns \ {c}
  PROVE  HadTurn(d)
<1>1. /\ UNCHANGED <<cid, relayQ, gameQ, g2r>> /\ c2r'[d] = c2r[d] /\ r2c'[d] = r2c[d]
      /\ conn'[d] = conn[d] /\ io'[d] = io[d] /\ room'[d] = room[d]
  BY DEF LocalStep, relayVars
<1>2. \A at, i, p : At(d, at, i, p)' => At(d, at, i, p)
  BY <1>1 DEF At
<1> QED BY <1>1, <1>2 DEF HadTurn, Alive

LEMMA LeftHadTurn ==
  ASSUME NEW c \in Conns, LocalStep(c), NEW k \in {0, 1}, Left(c, k), room'[c] = room[c],
         io'[c] = "turn" => io[c] = "turn" /\ conn[c] # "none"
  PROVE  OnlyLosesTurns
<1>1. UNCHANGED <<rooms, relayUp>>
  BY DEF LocalStep, relayVars, gameVars
<1>2. Alive(c)' /\ conn[c] # "none" => Alive(c)
  BY DEF LocalStep, Alive
<1>3. HadTurn(c)
  BY <1>2 DEF HadTurn, Left
<1> QED BY <1>1, <1>3, OthersHadTurn DEF OnlyLosesTurns

\* A client that is neither shown its turn nor done with it, nor asks for a room.
LEMMA QuietParts ==
  ASSUME TurnInv, NEW c \in Conns, ClientStep(UserStep(c)) \/ ClientStep(HandleIO(c)), ~ClientStep(HostOrJoin(c)),
         io'[c] = "turn" <=> io[c] = "turn"
  PROVE  /\ UNCHANGED room
         /\ UNCHANGED r2c \/ (r2c[c] # <<>> /\ Received(c) /\ Head(r2c[c]).type # "PLAYER_TURN") \/ Die(c)
         /\ UNCHANGED c2r \/ \E m \in LoginRequest : Send(c, m)
<1> USE DEF TurnInv
<1>1. ClientTypeOK
  BY LocalFacts
<1>2. UNCHANGED room
  BY DEF ClientStep, UserStep, Connect, LogInOrRegister, WrongInput, FinishTurn, Quit, clientVars,
         HandleIO, HandleAcceptLogIn, HandleAcceptRegister, HandleRejectLogin, HandleAllowRoom, HandleRejectRoom,
         HandlePlayGame, HandleDealCards, HandlePlayerTurn
<1>3. UNCHANGED r2c \/ (r2c[c] # <<>> /\ Received(c) /\ Head(r2c[c]).type # "PLAYER_TURN") \/ Die(c)
  <2>1. CASE ClientStep(HandlePlayerTurn(c))
    BY <1>1, <2>1 DEF ClientStep, HandlePlayerTurn, Receive, ShowPage, ClientTypeOK
  <2>2. CASE ~ClientStep(HandlePlayerTurn(c))
    BY <2>2 DEF ClientStep, UserStep, Connect, LogInOrRegister, WrongInput, FinishTurn, ShowUI, Quit, links,
                HandleIO, HandleAcceptLogIn, HandleAcceptRegister, HandleRejectLogin, HandleAllowRoom, HandleRejectRoom,
                HandlePlayGame, HandleDealCards, Receive, ReceivedQuietly
  <2> QED BY <2>1, <2>2
<1>4. UNCHANGED c2r \/ \E m \in LoginRequest : Send(c, m)
  <2>1. CASE ClientStep(LogInOrRegister(c))
    BY <2>1, ClientAssumption DEF ClientStep, LogInOrRegister, LoginRequest
  <2>2. CASE ClientStep(FinishTurn(c))
    BY <1>1, <2>2 DEF ClientStep, FinishTurn, ClientTypeOK
  <2>3. CASE ~ClientStep(LogInOrRegister(c)) /\ ~ClientStep(FinishTurn(c))
    BY <2>3 DEF ClientStep, UserStep, Connect, WrongInput, Quit, links,
                HandleIO, HandleAcceptLogIn, HandleAcceptRegister, HandleRejectLogin, HandleAllowRoom, HandleRejectRoom,
                HandlePlayGame, HandleDealCards, HandlePlayerTurn, Receive, ReceivedQuietly
  <2> QED BY <2>1, <2>2, <2>3
<1> QED BY <1>2, <1>3, <1>4

LEMMA ClientLosesTurns ==
  ASSUME TurnInv, TurnInv', NEW c \in Conns, ClientStep(UserStep(c)) \/ ClientStep(HandleIO(c)),
         io'[c] = "turn" <=> io[c] = "turn"
  PROVE  OnlyLosesTurns
<1> USE DEF TurnInv
<1>1. LocalStep(c) /\ ClientTypeOK
  BY LocalFacts
<1>2. io[c] = "turn" => conn[c] # "none"
  BY ConnFacts
<1>3. CASE ClientStep(HostOrJoin(c))
  <2>1. io[c] = "lobby" /\ UNCHANGED <<rooms, relayUp, cid>>
    BY <1>1, <1>3 DEF ClientStep, HostOrJoin, LocalStep, gameVars, relayVars
  <2>2. ~Seated(cid[c])'
    BY <2>1 DEF RoomsInv, Course, ToldOK, Seated, Seats
  <2>3. ~HasTurn(c)'
    BY <2>2 DEF HasTurn, Plays, SitsIn, Seated
  <2>4. HadTurn(c)
    BY <2>1, <2>3 DEF HadTurn, RoomsInv, Course, PacketsOK, Holds
  <2> QED BY <2>1, <2>4, <1>1, OthersHadTurn DEF OnlyLosesTurns
<1>4. CASE ~ClientStep(HostOrJoin(c))
  <2>1. /\ UNCHANGED room
        /\ UNCHANGED r2c \/ (r2c[c] # <<>> /\ Received(c)) \/ Die(c)
        /\ UNCHANGED c2r \/ \E m \in LoginRequest : Send(c, m)
    BY <1>4, QuietParts
  <2>2. PICK k \in {0, 1} : Left(c, k)
    BY <2>1, QuietLeft
  <2> QED BY <1>1, <1>2, <2>1, <2>2, LeftHadTurn
<1> QED BY <1>3, <1>4

(***************************************************************************)
(* A client that is shown its turn, or is done with it.                    *)
(***************************************************************************)
LEMMA PhaseKept ==
  ASSUME TurnInv, TurnInv', NEW s \in RoomNames, rooms'[s] = rooms[s], relayUp' = relayUp,
         Offered(s)' <=> Offered(s), Returned(s)' <=> Returned(s), Arrived(s)' <=> Arrived(s),
         (Acting(s) = {})' <=> Acting(s) = {}
  PROVE  PhaseOf(s)' = PhaseOf(s)
<1>1. PhaseTold(s) /\ PhaseTold(s)'
  BY PhaseFacts, PhaseFactsNext
<1>2. IsFull(rooms[s])' <=> IsFull(rooms[s])
  BY DEF IsFull
<1> QED BY <1>1, <1>2 DEF PhaseTold

\* It plays in one room; the others are where they were.
LEMMA OtherRoomsKept ==
  ASSUME TurnInv, TurnInv', NEW c \in Conns, LocalStep(c), room'[c] = room[c], NEW s \in RoomNames, s # room[c]
  PROVE  PhaseOf(s)' = PhaseOf(s)
<1>1. UNCHANGED <<cid, relayQ, gameQ, g2r, rooms, relayUp>>
  BY DEF LocalStep, relayVars, gameVars
<1>2. \A d \in Conns \ {c} : /\ c2r'[d] = c2r[d] /\ r2c'[d] = r2c[d]
                             /\ conn'[d] = conn[d] /\ io'[d] = io[d] /\ room'[d] = room[d]
  BY DEF LocalStep
<1>3. \A d \in Conns \ {c} : \A at, i, p : At(d, at, i, p)' <=> At(d, at, i, p)
  BY <1>1, <1>2 DEF At
<1>4. Acting(s)' = Acting(s)
  BY <1>2 DEF Acting, Alive
<1>5. (Offered(s)' <=> Offered(s)) /\ (Returned(s)' <=> Returned(s))
  BY <1>2, <1>3 DEF Offered, Returned, Bears
<1>6. Arrived(s)' <=> Arrived(s)
  BY <1>2, <1>3 DEF Arrived
<1> QED BY <1>1, <1>4, <1>5, <1>6, PhaseKept

LEMMA TurnOffered ==
  ASSUME TurnInv, TurnInv', NEW c \in Conns, ClientStep(UserStep(c)) \/ ClientStep(HandleIO(c)),
         io'[c] = "turn", io[c] # "turn"
  PROVE  \E r \in RoomNames :
           /\ UNCHANGED rooms /\ \A s \in RoomNames \ {r} : PhaseOf(s)' = PhaseOf(s)
           /\ PhaseOf(r)' = PhaseOf(r) \/ (PhaseOf(r) = "offered" /\ PhaseOf(r)' = "playing")
<1> USE DEF TurnInv
<1>1. LocalStep(c) /\ ClientTypeOK
  BY LocalFacts
<1>2. ClientStep(HandlePlayerTurn(c))
  BY <1>1 DEF ClientStep, UserStep, Connect, LogInOrRegister, LeaveLoginPage, HostOrJoin, LeaveLobby, WrongInput, FinishTurn,
              Quit, clientVars, ShowPage, ClientTypeOK,
              HandleIO, HandleAcceptLogIn, HandleAcceptRegister, HandleRejectLogin, HandleAllowRoom, HandleRejectRoom,
              HandlePlayGame, HandleDealCards
<1>3. /\ ClientStep(HandleIO(c)) /\ Receive(c, {"PLAYER_TURN"}) /\ Received(c) /\ UNCHANGED <<room, c2r, conn>>
  BY <1>1, <1>2 DEF ClientStep, HandlePlayerTurn, HandleIO, ReceivedQuietly, ClientTypeOK
<1>4. r2c[c] # <<>> /\ Alive(c) /\ Head(r2c[c]).type = "PLAYER_TURN"
  BY <1>3 DEF Receive
<1>5. At(c, "r2c", 1, Head(r2c[c]))
  <2>1. Head(r2c[c]).type \in GameReplies
    BY <1>4 DEF GameReplies
  <2> QED BY <1>3, <1>4, <2>1, ReceivedLeft
<1>6. room[c] \in RoomNames
  BY <1>4, <1>5, HolderFacts DEF RoomsInv, Course, PacketsOK, Holds, TurnTypes
<1>7. PICK r \in RoomNames : r = room[c]
  BY <1>6
<1>8. UNCHANGED <<rooms, relayUp>>
  BY <1>1 DEF LocalStep, relayVars, gameVars
<1>9. \A s \in RoomNames \ {r} : PhaseOf(s)' = PhaseOf(s)
  BY <1>1, <1>3, <1>7, OtherRoomsKept
<1>10. Offered(r)
  BY <1>4, <1>5, <1>7 DEF Offered, Bears
<1>11. (Acting(r) # {})'
  BY <1>3, <1>4, <1>7 DEF Acting, Alive
<1>12. PhaseTold(r) /\ OnePlace(r) /\ PhaseTold(r)' /\ OnePlace(r)'
  BY PhaseFacts, PhaseFactsNext
<1>13. (Arrived(r) => Returned(r)) /\ (Arrived(r)' => Returned(r)')
  BY DEF Arrived, Returned, Bears
<1>14. PhaseOf(r)' = PhaseOf(r) \/ (PhaseOf(r) = "offered" /\ PhaseOf(r)' = "playing")
  BY <1>8, <1>10, <1>11, <1>12, <1>13 DEF PhaseTold, OnePlace
<1> QED BY <1>8, <1>9, <1>14

LEMMA TurnPlayed ==
  ASSUME TurnInv, TurnInv', NEW c \in Conns, ClientStep(UserStep(c)) \/ ClientStep(HandleIO(c)),
         io[c] = "turn", io'[c] # "turn"
  PROVE  \E r \in RoomNames :
           /\ UNCHANGED rooms /\ \A s \in RoomNames \ {r} : PhaseOf(s)' = PhaseOf(s)
           /\ PhaseOf(r)' = PhaseOf(r) \/ (PhaseOf(r) = "playing" /\ PhaseOf(r)' = "played")
<1> USE DEF TurnInv
<1>1. LocalStep(c) /\ ClientTypeOK
  BY LocalFacts
<1>2. ClientStep(FinishTurn(c))
  BY <1>1 DEF ClientStep, UserStep, Connect, LogInOrRegister, LeaveLoginPage, HostOrJoin, LeaveLobby, WrongInput,
              Quit, clientVars, Receive, ClientTypeOK,
              HandleIO, HandleAcceptLogIn, HandleAcceptRegister, HandleRejectLogin, HandleAllowRoom, HandleRejectRoom,
              HandlePlayGame, HandleDealCards, HandlePlayerTurn
<1>3. Alive(c) /\ UNCHANGED <<room, cid, relayQ, gameQ>> /\ \E p : p.type = "PlAYER_TURN_OVER" /\ Send(c, p)
  <2>1. UNCHANGED <<cid, relayQ, gameQ>>
    BY <1>1 DEF LocalStep, relayVars
  <2>2. Alive(c) /\ UNCHANGED room
    BY <1>2 DEF ClientStep, FinishTurn
  <2>3. \E chosen \in DiscardChoices :
          Send(c, [type |-> "PlAYER_TURN_OVER", id |-> me[c].id, room |-> room[c], discarded |-> Size(chosen)])
    BY <1>2 DEF ClientStep, FinishTurn
  <2> QED BY <2>1, <2>2, <2>3
<1>4. HasTurn(c)
  BY DEF RoomsInv, Course, ToldOK
<1>5. PICK r \in RoomNames : r = room[c]
  BY <1>4, HolderFacts
<1>6. UNCHANGED <<rooms, relayUp>>
  BY <1>1 DEF LocalStep, relayVars, gameVars
<1>7. \A s \in RoomNames \ {r} : PhaseOf(s)' = PhaseOf(s)
  BY <1>1, <1>3, <1>5, OtherRoomsKept
<1>8. Acting(r) # {}
  BY <1>3, <1>5 DEF Acting
<1>9. Returned(r)'
  <2>1. PICK p : p.type = "PlAYER_TURN_OVER" /\ Send(c, p)
    BY <1>3
  <2>2. c2r' = [c2r EXCEPT ![c] = Append(c2r[c], p)] /\ c2r \in [Conns -> Seq(ClientPacket)]
    BY <2>1, RelayTypes DEF Send
  <2>3. PICK n : n = Len(c2r[c]) + 1
    OBVIOUS
  <2>4. n \in DOMAIN c2r'[c] /\ c2r'[c][n] = p
    BY <2>2, <2>3
  <2>5. At(c, "c2r", n, p)'
    BY <2>1, <2>4 DEF At, GameRequests
  <2> QED BY <1>3, <1>5, <2>1, <2>5 DEF Returned, Bears
<1>10. PhaseTold(r) /\ OnePlace(r) /\ PhaseTold(r)' /\ OnePlace(r)'
  BY PhaseFacts, PhaseFactsNext
<1>11. Arrived(r) => Returned(r)
  BY ArrivedReturned
<1>12. Arrived(r)' => Arrived(r)
  BY <1>3 DEF Arrived, At
<1>13. PhaseOf(r)' = PhaseOf(r) \/ (PhaseOf(r) = "playing" /\ PhaseOf(r)' = "played")
  BY <1>6, <1>8, <1>9, <1>10, <1>11, <1>12 DEF PhaseTold, OnePlace
<1> QED BY <1>6, <1>7, <1>13

(***************************************************************************)
(* The game server.                                                        *)
(***************************************************************************)

OnlyAppends ==
  /\ \A j \in DOMAIN g2r' : (j \in DOMAIN g2r /\ g2r'[j] = g2r[j]) \/ Len(g2r) < j
  /\ \A j \in DOMAIN g2r : j \in DOMAIN g2r' /\ g2r'[j] = g2r[j]

LEMMA GameStays ==
  ASSUME DInv, GameStep(HandleGamePacket), OnlyAppends, NEW c \in Conns, NEW at, NEW i, NEW p, At(c, at, i, p),
         ~(at = "gameQ" /\ i = 1)
  PROVE  \E j : At(c, at, j, p)'
<1>1. UNCHANGED <<cid, c2r, r2c, relayQ>>
  BY GameParts DEF relayVars
<1>2. CASE at = "gameQ"
  <2>1. gameQ \in Seq(GameRequest) /\ gameQ # <<>> /\ gameQ' = Tail(gameQ)
    BY GameParts
  <2>2. i \in DOMAIN gameQ /\ p = gameQ[i] /\ p.id = cid[c]
    BY <1>2 DEF At
  <2>3. PICK j : j = i - 1
    OBVIOUS
  <2>4. j \in DOMAIN gameQ' /\ gameQ'[j] = p
    BY <1>2, <2>1, <2>2, <2>3, QueueStays
  <2>5. At(c, at, j, p)'
    BY <1>1, <1>2, <2>2, <2>4 DEF At
  <2> QED BY <2>5
<1>3. CASE at # "gameQ"
  <2>1. At(c, at, i, p)'
    BY <1>1, <1>3 DEF At, OnlyAppends
  <2> QED BY <2>1
<1> QED BY <1>2, <1>3

\* Where no turn is taken or sent, the phase stays.
LEMMA GameKeepsRoom ==
  ASSUME TurnInv, TurnInv', GameStep(HandleGamePacket), OnlyAppends,
         NEW s \in RoomNames, rooms'[s] = rooms[s],
         \A c \in Conns : \A i, p : Sent(c, i, p) /\ p.type = "PLAYER_TURN" => room[c] # s,
         \A c \in Conns : \A p : At(c, "gameQ", 1, p) /\ p.type = "PlAYER_TURN_OVER" => room[c] # s
  PROVE  PhaseOf(s)' = PhaseOf(s)
<1> USE DEF TurnInv
<1>1. UNCHANGED <<conn, io, room, relayUp>>
  BY GameParts DEF clientVars, relayVars
<1>2. \A c \in Conns : \A i, p : Sent(c, i, p) => p.type # "PlAYER_TURN_OVER"
  <2>1. g2r' \in Seq(GamePacket)
    BY GameParts DEF IInv, TypeOK, LinksTypeOK
  <2>2. \A j \in DOMAIN g2r' : g2r'[j] \in GamePacket
    BY <2>1, QueueTypes
  <2>3. \A p \in GamePacket : p.type # "PlAYER_TURN_OVER"
    BY DEF GamePacket, RoomReplies
  <2> QED BY <2>2, <2>3 DEF Sent
<1>3. \A c \in Conns : \A at, i, p : At(c, at, i, p)' =>
        (\E j : At(c, at, j, p)) \/ (at = "g2r" /\ Sent(c, i, p))
  BY GameFacts DEF OnlyAppends
<1>4. \A c \in Conns : \A at, i, p : At(c, at, i, p) /\ ~(at = "gameQ" /\ i = 1) => \E j : At(c, at, j, p)'
  BY GameStays
<1>5. \A c \in Conns : \A at, i, p : At(c, at, i, p) /\ at = "gameQ" => p.type # "PLAYER_TURN"
  BY AtFacts DEF GameRequests, RoomRequests
<1>6. Offered(s)' <=> Offered(s)
  <2>1. ASSUME Offered(s)' PROVE Offered(s)
    <3>1. PICK c \in Conns : room[c] = s /\ \E at, i, p : At(c, at, i, p)' /\ p.type = "PLAYER_TURN"
      BY <1>1, <2>1 DEF Offered, Bears
    <3>2. PICK at, i, p : At(c, at, i, p)' /\ p.type = "PLAYER_TURN"
      BY <3>1
    <3>3. \E j : At(c, at, j, p)
      BY <1>3, <3>1, <3>2
    <3> QED BY <3>1, <3>2, <3>3 DEF Offered, Bears
  <2>2. ASSUME Offered(s) PROVE Offered(s)'
    <3>1. PICK c \in Conns : room[c] = s /\ \E at, i, p : At(c, at, i, p) /\ p.type = "PLAYER_TURN"
      BY <2>2 DEF Offered, Bears
    <3>2. PICK at, i, p : At(c, at, i, p) /\ p.type = "PLAYER_TURN"
      BY <3>1
    <3>3. PICK j : At(c, at, j, p)'
      BY <1>4, <1>5, <3>2
    <3> QED BY <1>1, <3>1, <3>2, <3>3 DEF Offered, Bears
  <2> QED BY <2>1, <2>2
<1>7. Returned(s)' <=> Returned(s)
  <2>1. ASSUME Returned(s)' PROVE Returned(s)
    <3>1. PICK c \in Conns : room[c] = s /\ \E at, i, p : At(c, at, i, p)' /\ p.type = "PlAYER_TURN_OVER"
      BY <1>1, <2>1 DEF Returned, Bears
    <3>2. PICK at, i, p : At(c, at, i, p)' /\ p.type = "PlAYER_TURN_OVER"
      BY <3>1
    <3>3. \E j : At(c, at, j, p)
      BY <1>2, <1>3, <3>1, <3>2
    <3> QED BY <3>1, <3>2, <3>3 DEF Returned, Bears
  <2>2. ASSUME Returned(s) PROVE Returned(s)'
    <3>1. PICK c \in Conns : room[c] = s /\ \E at, i, p : At(c, at, i, p) /\ p.type = "PlAYER_TURN_OVER"
      BY <2>2 DEF Returned, Bears
    <3>2. PICK at, i, p : At(c, at, i, p) /\ p.type = "PlAYER_TURN_OVER"
      BY <3>1
    <3>3. PICK j : At(c, at, j, p)'
      BY <1>4, <3>1, <3>2
    <3> QED BY <1>1, <3>1, <3>2, <3>3 DEF Returned, Bears
  <2> QED BY <2>1, <2>2
<1>8. Arrived(s)' <=> Arrived(s)
  <2>1. ASSUME Arrived(s)' PROVE Arrived(s)
    <3>1. PICK c \in Conns : room[c] = s /\ \E i, p : At(c, "gameQ", i, p)' /\ p.type = "PlAYER_TURN_OVER"
      BY <1>1, <2>1 DEF Arrived
    <3>2. PICK i, p : At(c, "gameQ", i, p)' /\ p.type = "PlAYER_TURN_OVER"
      BY <3>1
    <3>3. \E j : At(c, "gameQ", j, p)
      BY <1>3, <3>2
    <3> QED BY <3>1, <3>2, <3>3 DEF Arrived
  <2>2. ASSUME Arrived(s) PROVE Arrived(s)'
    <3>1. PICK c \in Conns : room[c] = s /\ \E i, p : At(c, "gameQ", i, p) /\ p.type = "PlAYER_TURN_OVER"
      BY <2>2 DEF Arrived
    <3>2. PICK i, p : At(c, "gameQ", i, p) /\ p.type = "PlAYER_TURN_OVER"
      BY <3>1
    <3>3. PICK j : At(c, "gameQ", j, p)'
      BY <1>4, <3>1, <3>2
    <3> QED BY <1>1, <3>1, <3>2, <3>3 DEF Arrived
  <2> QED BY <2>1, <2>2
<1>9. Acting(s)' = Acting(s)
  BY <1>1 DEF Acting, Alive
<1> QED BY <1>1, <1>6, <1>7, <1>8, <1>9, PhaseKept

LEMMA OneSent ==
  ASSUME DInv, NEW p \in GamePacket, g2r' = Append(g2r, p)
  PROVE  /\ OnlyAppends
         /\ \A c \in Conns : \A i, q : Sent(c, i, q) => q = p
         /\ \E n : n \in DOMAIN g2r' /\ g2r'[n] = p
<1>1. g2r \in Seq(GamePacket) /\ Len(g2r) \in Nat
  BY RelayTypes, QueuePositions
<1>2. \A j \in DOMAIN g2r' : (j \in DOMAIN g2r /\ g2r'[j] = g2r[j]) \/ (j = Len(g2r) + 1 /\ g2r'[j] = p)
  BY <1>1, QueuePositions
<1>3. /\ \A j \in DOMAIN g2r : j \in DOMAIN g2r' /\ g2r'[j] = g2r[j]
      /\ Len(g2r) + 1 \in DOMAIN g2r' /\ g2r'[Len(g2r) + 1] = p
  BY <1>1, QueueStays
<1>4. \A j \in DOMAIN g2r : j <= Len(g2r) /\ j \in Int
  BY <1>1, QueueEnd, QueuePositions
<1>5. OnlyAppends
  BY <1>1, <1>2, <1>3 DEF OnlyAppends
<1>6. \A c \in Conns : \A i, q : Sent(c, i, q) => q = p
  BY <1>1, <1>2, <1>4 DEF Sent
<1> QED BY <1>3, <1>5, <1>6

LEMMA RefusedPhases ==
  ASSUME TurnInv, TurnInv', GameStep(HandleGamePacket), Head(gameQ).type \in RoomRequests, RoomRefused(Head(gameQ))
  PROVE  UNCHANGED rooms /\ \A s \in RoomNames : PhaseOf(s)' = PhaseOf(s)
<1> USE DEF TurnInv
<1>1. PICK p \in GamePacket : p.type \in Rejections /\ g2r' = Append(g2r, p)
  BY DEF RoomRefused, Rejections
<1>2. OnlyAppends /\ \A c \in Conns : \A i, q : Sent(c, i, q) => q.type # "PLAYER_TURN"
  BY <1>1, OneSent DEF Rejections
<1>3. UNCHANGED rooms
  BY DEF RoomRefused
<1>4. \A c \in Conns : \A q : At(c, "gameQ", 1, q) => q.type # "PlAYER_TURN_OVER"
  BY GameParts DEF At, RoomRequests
<1> QED BY <1>2, <1>3, <1>4, GameKeepsRoom

\* A player whom the game server sends a turn has an account and plays.
LEMMA TurnSent ==
  ASSUME TurnInv', NEW n \in DOMAIN g2r', g2r'[n].type = "PLAYER_TURN", NEW r \in RoomNames, g2r'[n].to \in Seats(r)'
  PROVE  Offered(r)'
<1> USE DEF TurnInv
<1>1. PICK u : u = g2r'[n].to
  OBVIOUS
<1>2. IsAccount(u)'
  BY <1>1 DEF DInv, PlayersKnown
<1>3. PICK c \in Conns : cid'[c] = u
  BY <1>2 DEF IsAccount
<1>4. room'[c] = r
  BY <1>1, <1>3 DEF RoomsInv, SeatsOK
<1>5. PICK p : p = g2r'[n]
  OBVIOUS
<1>6. At(c, "g2r", n, p)'
  BY <1>1, <1>3, <1>5 DEF At
<1> QED BY <1>4, <1>5, <1>6 DEF Offered, Bears

LEMMA PassedPhases ==
  ASSUME TurnInv, TurnInv', GameStep(HandleGamePacket), Head(gameQ).type = "PlAYER_TURN_OVER", TurnPassed(Head(gameQ))
  PROVE  \E r \in RoomNames :
           /\ \E new : /\ rooms' = [rooms EXCEPT ![r] = new] /\ new.turn = (rooms[r].turn + 1) % MaxPlayers
                       /\ DOMAIN new.players = DOMAIN rooms[r].players
                       /\ \A k \in DOMAIN new.players : new.players[k].id = rooms[r].players[k].id
           /\ PhaseOf(r) = "played" /\ PhaseOf(r)' = (IF relayUp THEN "offered" ELSE "lost")
           /\ \A s \in RoomNames \ {r} : PhaseOf(s)' = PhaseOf(s)
<1> USE DEF TurnInv
<1>1. PICK r, new : r = Head(gameQ).room /\ new = ChangeTurn(rooms[r])
  OBVIOUS
<1>2. PICK p \in GamePacket : g2r' = Append(g2r, p) /\ p.type = "PLAYER_TURN" /\ p.to = new.players[new.turn + 1].id
  BY <1>1 DEF TurnPassed
<1>3. CanChangeTurn(r) /\ r \in RoomNames /\ rooms' = [rooms EXCEPT ![r] = new] /\ rooms \in [RoomNames -> Room]
  BY <1>1, GameParts DEF TurnPassed, GameTypeOK
<1>4. /\ new.turn = (rooms[r].turn + 1) % MaxPlayers /\ new.turn + 1 \in DOMAIN new.players
      /\ DOMAIN new.players = DOMAIN rooms[r].players /\ Len(new.players) = Len(rooms[r].players)
      /\ \A k \in DOMAIN new.players : new.players[k].id = rooms[r].players[k].id
  BY <1>1, <1>3, PassedSeats
<1>5. OnlyAppends /\ (\A c \in Conns : \A i, q : Sent(c, i, q) => q = p) /\ \E n : n \in DOMAIN g2r' /\ g2r'[n] = p
  BY <1>2, OneSent
<1>6. rooms'[r] = new /\ \A s \in RoomNames \ {r} : rooms'[s] = rooms[s]
  BY <1>3
<1>7. UNCHANGED <<cid, room, relayUp>>
  BY GameParts DEF clientVars, relayVars
<1>8. p.to \in Seats(r)'
  BY <1>2, <1>4, <1>6 DEF Seats
<1>9. Offered(r)'
  BY <1>2, <1>3, <1>5, <1>8, TurnSent
<1>10. PICK c0 \in Conns : At(c0, "gameQ", 1, Head(gameQ))
  BY <1>5, GameFacts DEF OnlyAppends
<1>11. cid[c0] = Head(gameQ).id /\ room[c0] = r /\ \A d \in Conns : cid[d] = Head(gameQ).id => d = c0
  BY <1>1, <1>10, Requested
<1>12. Arrived(r)
  BY <1>10, <1>11 DEF Arrived
<1>13. IsFull(rooms[r]) /\ IsFull(rooms[r])'
  BY <1>3, <1>4, <1>6, <1>12, PhaseFacts, ArrivedReturned DEF OnePlace, IsFull
<1>14. PhaseOf(r) = "played"
  BY <1>3, <1>12, <1>13, PhaseFacts DEF PhaseTold
<1>15. PhaseOf(r)' = (IF relayUp THEN "offered" ELSE "lost")
  <2>1. PhaseTold(r)' /\ OnePlace(r)'
    BY <1>3, PhaseFactsNext
  <2>2. Arrived(r)' => Returned(r)'
    BY DEF Arrived, Returned, Bears
  <2> QED BY <1>7, <1>9, <1>13, <2>1, <2>2 DEF PhaseTold, OnePlace
<1>16. ASSUME NEW s \in RoomNames \ {r} PROVE PhaseOf(s)' = PhaseOf(s)
  <2>1. \A c \in Conns : \A i, q : Sent(c, i, q) /\ q.type = "PLAYER_TURN" => room[c] # s
    <3> SUFFICES ASSUME NEW c \in Conns, NEW i, NEW q, Sent(c, i, q) PROVE room[c] = r
      OBVIOUS
    <3>1. cid'[c] \in Seats(r)'
      BY <1>5, <1>7, <1>8 DEF Sent
    <3> QED BY <1>3, <1>7, <3>1 DEF RoomsInv, SeatsOK
  <2>2. \A c \in Conns : \A q : At(c, "gameQ", 1, q) /\ q.type = "PlAYER_TURN_OVER" => room[c] # s
    BY <1>11, GameParts DEF At
  <2> QED BY <1>5, <1>6, <2>1, <2>2, GameKeepsRoom
<1> QED BY <1>3, <1>4, <1>14, <1>15, <1>16

LEMMA EnteredAppends ==
  ASSUME g2r \in Seq(GamePacket), g2r' \in Seq(GamePacket), NEW m, NEW rm, NEW new, NEW p, RoomEntered(m, rm, new, p)
  PROVE  /\ OnlyAppends
         /\ IsFull(new) => \E n \in DOMAIN g2r' : g2r'[n].type = "PLAYER_TURN" /\ g2r'[n].to = new.host
<1>1. \A j \in DOMAIN g2r' : (j \in DOMAIN g2r /\ g2r'[j] = g2r[j]) \/ Len(g2r) < j
  BY EnteredPackets
<1>2. CASE ~IsFull(new) /\ g2r' = Append(g2r, p)
  <2>1. \A j \in DOMAIN g2r : j \in DOMAIN g2r' /\ g2r'[j] = g2r[j]
    BY <1>2, QueueStays DEF RoomEntered
  <2> QED BY <1>1, <1>2, <2>1 DEF OnlyAppends
<1>3. CASE IsFull(new) /\ \E n \in Int : GameStarts(g2r, g2r', new, n, p)
  <2>1. PICK n \in Int : GameStarts(g2r, g2r', new, n, p)
    BY <1>3
  <2>2. /\ DOMAIN g2r' = 1 .. Len(g2r') /\ Len(g2r') \in Nat
        /\ DOMAIN g2r = 1 .. Len(g2r) /\ Len(g2r) \in Nat
    BY LenProperties
  <2>3. Len(g2r) < n /\ n \in DOMAIN g2r'
    BY <2>1 DEF GameStarts
  <2>4. ASSUME NEW j \in DOMAIN g2r PROVE j \in DOMAIN g2r' /\ g2r'[j] = g2r[j]
    <3>1. j \in Int /\ 1 <= j /\ j <= Len(g2r)
      BY <2>2
    <3>2. j \in DOMAIN g2r' /\ ~(Len(g2r) < j) /\ j # n /\ j # n + 1
      BY <2>2, <2>3, <3>1
    <3> QED BY <2>1, <3>2 DEF GameStarts
  <2>5. g2r'[n].type = "PLAYER_TURN" /\ g2r'[n].to = new.host
    <3>1. ~(n \in DOMAIN g2r) /\ ~(n < n) /\ n # n + 1
      BY <2>2, <2>3
    <3> QED BY <2>1, <2>3, <3>1 DEF GameStarts
  <2> QED BY <1>1, <2>3, <2>4, <2>5 DEF OnlyAppends
<1> QED BY <1>2, <1>3 DEF RoomEntered

LEMMA EnteredPhases ==
  ASSUME TurnInv, TurnInv', GameStep(HandleGamePacket), Head(gameQ).type \in RoomRequests,
         Head(gameQ).room \in RoomNames, NEW rm, NEW new, NEW p, RoomEntered(Head(gameQ), rm, new, p)
  PROVE  \E r \in RoomNames, u \in Users :
           /\ rooms' = [rooms EXCEPT ![r] = new] /\ new.turn = rooms[r].turn
           /\ Len(rooms[r].players) \in Nat /\ Len(rooms[r].players) < MaxPlayers
           /\ Len(new.players) = Len(rooms[r].players) + 1
           /\ DOMAIN rooms[r].players = 1 .. Len(rooms[r].players)
           /\ DOMAIN new.players = 1 .. Len(rooms[r].players) + 1
           /\ \A k \in 1 .. Len(rooms[r].players) : new.players[k].id = rooms[r].players[k].id
           /\ new.players[Len(rooms[r].players) + 1].id = u
           /\ PhaseOf(r) = "filling"
           /\ PhaseOf(r)' = (IF ~IsFull(new) THEN "filling" ELSE IF relayUp THEN "offered" ELSE "lost")
           /\ \A s \in RoomNames \ {r} : PhaseOf(s)' = PhaseOf(s)
<1> USE DEF TurnInv
<1>1. g2r \in Seq(GamePacket) /\ g2r' \in Seq(GamePacket) /\ GameTypeOK /\ rooms \in [RoomNames -> Room]
  BY GameParts DEF IInv, TypeOK, LinksTypeOK, GameTypeOK
<1>2. PICK r \in RoomNames : r = Head(gameQ).room
  OBVIOUS
<1>3. OnlyAppends
  BY <1>1, EnteredAppends
<1>4. PICK u \in Users : u = Head(gameQ).id
  BY <1>3, GameFacts DEF OnlyAppends
<1> DEFINE n == Len(rooms[r].players)
<1>5. /\ rooms'[r] = new /\ (\A s \in RoomNames \ {r} : rooms'[s] = rooms[s]) /\ ~IsFull(rooms[r])
      /\ n \in Nat /\ DOMAIN rooms[r].players = 1 .. n /\ DOMAIN new.players = 1 .. n + 1
      /\ \A k \in 1 .. n : new.players[k].id = rooms[r].players[k].id
      /\ new.players[n + 1].id = u
      /\ Len(new.players) = n + 1 /\ Len(new.players) <= MaxPlayers
      /\ new.host = new.players[1].id /\ new.turn = 0
  BY <1>1, <1>2, <1>4, EnteredRoom
<1>6. new.turn = rooms[r].turn /\ rooms' = [rooms EXCEPT ![r] = new]
  BY <1>2, <1>5 DEF RoomEntered, RoomsInv, SeatsOK
<1>7. n < MaxPlayers
  BY <1>5, GameAssumption
<1>8. UNCHANGED <<cid, room, relayUp>>
  BY GameParts DEF clientVars, relayVars
<1>9. new.host \in Seats(r)'
  <2>1. 1 \in 1 .. n + 1
    BY <1>5
  <2> QED BY <1>5, <2>1 DEF Seats
<1>10. PhaseOf(r) = "filling"
  BY <1>5, PhaseFacts DEF PhaseTold
<1>12. PhaseOf(r)' = (IF ~IsFull(new) THEN "filling" ELSE IF relayUp THEN "offered" ELSE "lost")
  <2>1. CASE ~IsFull(new)
    <3>1. ~IsFull(rooms[r])'
      BY <1>5, <2>1 DEF IsFull
    <3> QED BY <2>1, <3>1, PhaseFactsNext DEF PhaseTold
  <2>2. CASE IsFull(new)
    <3>1. IsFull(rooms[r])'
      BY <1>5, <2>2 DEF IsFull
    <3>2. Offered(r)'
      BY <1>1, <1>9, <2>2, EnteredAppends, TurnSent
    <3>3. PhaseTold(r)' /\ OnePlace(r)'
      BY PhaseFactsNext
    <3>4. Arrived(r)' => Returned(r)'
      BY DEF Arrived, Returned, Bears
    <3> QED BY <1>8, <2>2, <3>1, <3>2, <3>3, <3>4 DEF PhaseTold, OnePlace
  <2> QED BY <2>1, <2>2
<1>13. ASSUME NEW s \in RoomNames \ {r} PROVE PhaseOf(s)' = PhaseOf(s)
  <2>1. ASSUME NEW c \in Conns, NEW i, NEW q, Sent(c, i, q), q.type = "PLAYER_TURN" PROVE room[c] # s
    <3>1. PICK k \in Int : GoesOut(Head(gameQ), new, p, k)
      BY <1>1, EnteredPackets
    <3>2. q # p
      BY <2>1 DEF RoomEntered
    <3>3. cid[c] = new.host
      BY <2>1, <3>1, <3>2 DEF GoesOut
    <3>4. cid'[c] \in Seats(r)'
      BY <1>8, <1>9, <3>3
    <3> QED BY <1>8, <3>4 DEF RoomsInv, SeatsOK
  <2>2. \A c \in Conns : \A q : At(c, "gameQ", 1, q) => q.type # "PlAYER_TURN_OVER"
    BY GameParts DEF At, RoomRequests
  <2> QED BY <1>3, <1>5, <2>1, <2>2, GameKeepsRoom
<1> QED BY <1>5, <1>6, <1>7, <1>10, <1>12, <1>13

(***************************************************************************)
(* The steps of the programs as steps of the game.                         *)
(***************************************************************************)
Losing ==
  /\ UNCHANGED rooms
  /\ \A r \in RoomNames : /\ PhaseOf(r)' \in {PhaseOf(r), "lost"}
                          /\ PhaseOf(r) = "filling" => PhaseOf(r)' = "filling"
Moving(r) ==
  /\ UNCHANGED rooms
  /\ \/ PhaseOf(r)' = PhaseOf(r)
     \/ PhaseOf(r) = "offered" /\ PhaseOf(r)' = "playing"
     \/ PhaseOf(r) = "playing" /\ PhaseOf(r)' = "played"
  /\ \A s \in RoomNames \ {r} : PhaseOf(s)' = PhaseOf(s)

LEMMA LosesPhases ==
  ASSUME TurnInv, TurnInv', OnlyLosesTurns
  PROVE  Losing
BY PhaseOrLost DEF OnlyLosesTurns, Losing

LEMMA PhaseKinds ==
  ASSUME NEW r
  PROVE  PhaseOf(r) \in {"filling", "offered", "playing", "played", "lost"}
BY DEF PhaseOf

LEMMA LosingMaps ==
  ASSUME Losing
  PROVE  [Game!Next]_(Game!vars)
<1> DEFINE lost == {r \in RoomNames : PhaseOf(r)' # PhaseOf(r)}
<1>1. lost \in SUBSET RoomNames
  OBVIOUS
<1>2. \A r \in lost : PhaseOf(r)' = "lost" /\ PhaseOf(r) \in {"offered", "playing", "played"}
  BY PhaseKinds DEF Losing
<1>3. \A r \in RoomNames : PhaseOf(r)' = IF r \in lost THEN "lost" ELSE PhaseOf(r)
  BY <1>2
<1> HIDE DEF lost
<1>4. Game!Lose(lost)
  BY <1>1, <1>2, <1>3 DEF Game!Lose, Losing
<1> QED BY <1>1, <1>4 DEF Game!Next

LEMMA MovingMaps ==
  ASSUME NEW r \in RoomNames, Moving(r)
  PROVE  [Game!Next]_(Game!vars)
<1>1. UNCHANGED rooms /\ \A s \in RoomNames \ {r} : PhaseOf(s)' = PhaseOf(s)
  BY DEF Moving
<1>2. CASE PhaseOf(r)' = PhaseOf(r)
  BY <1>1, <1>2 DEF Game!vars
<1>3. CASE PhaseOf(r) = "offered" /\ PhaseOf(r)' = "playing"
  <2>1. Game!Offer(r)
    BY <1>1, <1>3 DEF Game!Offer, Game!Move
  <2> QED BY <2>1 DEF Game!Next
<1>4. CASE PhaseOf(r) = "playing" /\ PhaseOf(r)' = "played"
  <2>1. Game!Play(r)
    BY <1>1, <1>4 DEF Game!Play, Game!Move
  <2> QED BY <2>1 DEF Game!Next
<1> QED BY <1>2, <1>3, <1>4 DEF Moving

LEMMA PassedMaps ==
  ASSUME rooms \in [RoomNames -> Room], NEW r \in RoomNames, NEW new, rooms' = [rooms EXCEPT ![r] = new],
         new.turn = (rooms[r].turn + 1) % MaxPlayers,
         DOMAIN new.players = DOMAIN rooms[r].players,
         \A k \in DOMAIN new.players : new.players[k].id = rooms[r].players[k].id,
         PhaseOf(r) = "played", PhaseOf(r)' \in {"offered", "lost"},
         \A s \in RoomNames \ {r} : PhaseOf(s)' = PhaseOf(s)
  PROVE  [Game!Next]_(Game!vars)
<1>1. rooms'[r] = new /\ \A s \in RoomNames \ {r} : rooms'[s] = rooms[s]
  OBVIOUS
<1>2. \A s \in RoomNames : [i \in DOMAIN rooms'[s].players |-> rooms'[s].players[i].id]
                             = [i \in DOMAIN rooms[s].players |-> rooms[s].players[i].id]
  BY <1>1
<1>3. Game!PassOn(r)
  BY <1>1, <1>2 DEF Game!PassOn, Game!Move
<1> QED BY <1>3 DEF Game!Next

\* The ids of the players of a room, in the order of their seats.
LEMMA SeatIds ==
  ASSUME NEW s \in Seq(Player)
  PROVE  LET ids == [i \in DOMAIN s |-> s[i].id] IN ids \in Seq(Users) /\ Len(ids) = Len(s)
<1> DEFINE ids == [i \in DOMAIN s |-> s[i].id]
<1>1. DOMAIN s = 1 .. Len(s) /\ Len(s) \in Nat /\ \A i \in DOMAIN s : s[i] \in Player
  BY LenProperties, QueueTypes
<1>2. ids \in [1 .. Len(s) -> Users]
  BY <1>1 DEF Player
<1>3. ids \in Seq(Users)
  BY <1>1, <1>2
<1> HIDE DEF ids
<1>4. DOMAIN ids = 1 .. Len(ids) /\ Len(ids) \in Nat
  BY <1>3, LenProperties
<1>5. Len(ids) = Len(s)
  BY <1>1, <1>2, <1>4, SameLength
<1> QED BY <1>3, <1>5 DEF ids

LEMMA EnteredMaps ==
  ASSUME rooms \in [RoomNames -> Room], rooms' \in [RoomNames -> Room],
         NEW r \in RoomNames, NEW u \in Users, NEW new,
         rooms' = [rooms EXCEPT ![r] = new], new.turn = rooms[r].turn, NEW n \in Nat, n < MaxPlayers,
         Len(rooms[r].players) = n, Len(new.players) = n + 1,
         DOMAIN rooms[r].players = 1 .. n, DOMAIN new.players = 1 .. n + 1,
         \A k \in 1 .. n : new.players[k].id = rooms[r].players[k].id, new.players[n + 1].id = u,
         PhaseOf(r) = "filling", PhaseOf(r)' \in (IF IsFull(new) THEN {"offered", "lost"} ELSE {"filling"}),
         \A s \in RoomNames \ {r} : PhaseOf(s)' = PhaseOf(s)
  PROVE  [Game!Next]_(Game!vars)
<1>1. rooms'[r] = new /\ \A s \in RoomNames \ {r} : rooms'[s] = rooms[s]
  OBVIOUS
<1>2. rooms[r].players \in Seq(Player) /\ new.players \in Seq(Player)
  BY <1>1 DEF Room
<1> DEFINE ids == [i \in DOMAIN rooms[r].players |-> rooms[r].players[i].id]
           ids2 == [i \in DOMAIN new.players |-> new.players[i].id]
<1>3. ids \in Seq(Users) /\ Len(ids) = n /\ ids2 \in Seq(Users) /\ Len(ids2) = n + 1
  BY <1>2, SeatIds
<1>4. /\ \A k \in 1 .. n : ids[k] = rooms[r].players[k].id /\ ids2[k] = ids[k]
      /\ ids2[n + 1] = u
  OBVIOUS
<1>5. ids2 = Append(ids, u)
  <2> HIDE DEF ids, ids2
  <2>1. /\ Append(ids, u) \in Seq(Users) /\ Len(Append(ids, u)) = n + 1
        /\ \A k \in 1 .. n : Append(ids, u)[k] = ids[k]
        /\ Append(ids, u)[n + 1] = u
    BY <1>3, AppendProperties
  <2>2. Append(ids, u) \in [1 .. n + 1 -> Users] /\ ids2 \in [1 .. n + 1 -> Users]
    BY <1>3, <2>1, LenProperties
  <2>3. \A k \in 1 .. n + 1 : k \in 1 .. n \/ k = n + 1
    OBVIOUS
  <2>4. \A k \in 1 .. n + 1 : Append(ids, u)[k] = ids2[k]
    BY <1>4, <2>1, <2>3
  <2> QED BY <2>2, <2>4
<1>6. IsFull(new) <=> n + 1 = MaxPlayers
  BY DEF IsFull
<1>7. \A s \in RoomNames \ {r} : [i \in DOMAIN rooms'[s].players |-> rooms'[s].players[i].id]
                                   = [i \in DOMAIN rooms[s].players |-> rooms[s].players[i].id]
  BY <1>1
<1>8. [i \in DOMAIN rooms'[r].players |-> rooms'[r].players[i].id] = ids2
  BY <1>1
<1> DEFINE seats == [s \in RoomNames |-> [i \in DOMAIN rooms[s].players |-> rooms[s].players[i].id]]
           seats2 == [s \in RoomNames |-> [i \in DOMAIN rooms'[s].players |-> rooms'[s].players[i].id]]
           phase == [s \in RoomNames |-> PhaseOf(s)]
           phase2 == [s \in RoomNames |-> PhaseOf(s)']
<1>9. seats[r] = ids /\ seats2[r] = ids2
  BY <1>8
<1>10. seats2 = [seats EXCEPT ![r] = Append(ids, u)]
  <2> HIDE DEF ids, ids2
  <2> QED BY <1>5, <1>7, <1>8
<1>11. \E p \in (IF n + 1 = MaxPlayers THEN {"offered", "lost"} ELSE {"filling"}) : phase2 = [phase EXCEPT ![r] = p]
  BY <1>6
<1>12. phase[r] = "filling"
  OBVIOUS
<1>13. [s \in RoomNames |-> rooms'[s].turn] = [s \in RoomNames |-> rooms[s].turn]
  BY <1>1
<1>14. Game!Sit(r, u)
  <2>1. Len(seats[r]) < MaxPlayers /\ Len(seats2[r]) = n + 1
    BY <1>3, <1>9
  <2>2. seats2 = [seats EXCEPT ![r] = Append(seats[r], u)]
    BY <1>9, <1>10
  <2> QED BY <1>11, <1>12, <1>13, <2>1, <2>2 DEF Game!Sit, Game!Move
<1> QED BY <1>14 DEF Game!Next

LEMMA NothingLosesTurns ==
  ASSUME LoginStep(HandleLoginPacket) \/ UNCHANGED vars
  PROVE  OnlyLosesTurns
<1>1. UNCHANGED <<clientVars, rooms, relayUp, conn, cid, c2r, r2c, relayQ, gameQ, g2r>>
  BY DEF LoginStep, HandleLoginPacket, HandleLogIn, HandleRegister, vars, links, relayVars, gameVars
<1>2. \A c \in Conns : \A at, i, p : At(c, at, i, p)' => At(c, at, i, p)
  BY <1>1 DEF At
<1> QED BY <1>1, <1>2 DEF OnlyLosesTurns, HadTurn, Alive, clientVars

LEMMA ClientMaps ==
  ASSUME TurnInv, TurnInv', NEW c \in Conns, ClientStep(UserStep(c)) \/ ClientStep(HandleIO(c))
  PROVE  [Game!Next]_(Game!vars)
<1>1. CASE io'[c] = "turn" <=> io[c] = "turn"
  BY <1>1, ClientLosesTurns, LosesPhases, LosingMaps
<1>2. CASE io'[c] = "turn" /\ io[c] # "turn"
  <2>1. \E r \in RoomNames : Moving(r)
    BY <1>2, TurnOffered DEF Moving
  <2> QED BY <2>1, MovingMaps
<1>3. CASE io'[c] # "turn" /\ io[c] = "turn"
  <2>1. \E r \in RoomNames : Moving(r)
    BY <1>3, TurnPlayed DEF Moving
  <2> QED BY <2>1, MovingMaps
<1> QED BY <1>1, <1>2, <1>3

LEMMA GameServerMaps ==
  ASSUME TurnInv, TurnInv', GameStep(HandleGamePacket)
  PROVE  [Game!Next]_(Game!vars)
<1> USE DEF TurnInv
<1>1. rooms \in [RoomNames -> Room] /\ rooms' \in [RoomNames -> Room]
  BY GameParts DEF GameTypeOK, IInv, TypeOK
<1>2. CASE Head(gameQ).type \in RoomRequests /\ RoomRefused(Head(gameQ))
  BY <1>2, RefusedPhases, LosingMaps DEF Losing
<1>3. ASSUME Head(gameQ).type \in RoomRequests, Head(gameQ).room \in RoomNames,
             NEW rm, NEW new, NEW p, RoomEntered(Head(gameQ), rm, new, p)
      PROVE  [Game!Next]_(Game!vars)
  BY <1>1, <1>3, EnteredPhases, EnteredMaps
<1>4. CASE Head(gameQ).type = "PlAYER_TURN_OVER" /\ TurnPassed(Head(gameQ))
  BY <1>1, <1>4, PassedPhases, PassedMaps
<1>5. Head(gameQ).type = "PlAYER_TURN_OVER" => ~TurnFatal(Head(gameQ))
  BY TurnIsPossible
<1> QED BY <1>2, <1>3, <1>4, <1>5, GameEffects

LEMMA NextMaps ==
  ASSUME TurnInv, TurnInv', [Next]_vars
  PROVE  [Game!Next]_(Game!vars)
<1>1. CASE \E c \in Conns : ClientStep(UserStep(c)) \/ ClientStep(HandleIO(c))
  BY <1>1, ClientMaps
<1>2. CASE LoginStep(HandleLoginPacket) \/ UNCHANGED vars
  BY <1>2, NothingLosesTurns, LosesPhases, LosingMaps
<1>3. CASE GameStep(HandleGamePacket)
  BY <1>3, GameServerMaps
<1>4. CASE \/ RelayStep(HandleRelayPacket) \/ RelayStep(ReceiveFromLogin) \/ RelayStep(ReceiveFromGame)
           \/ \E c \in Conns : RelayStep(Accept(c)) \/ RelayStep(RelayWorker(c))
  BY <1>4, RelayLosesTurns, LosesPhases, LosingMaps
<1> QED BY <1>1, <1>2, <1>3, <1>4, ServerStands DEF Next, TurnInv

LEMMA InitMaps == Init => Game!Init
<1> SUFFICES ASSUME Init PROVE Game!Init
  OBVIOUS
<1>1. \A r \in RoomNames : rooms[r].players = <<>> /\ rooms[r].turn = 0
  BY DEF Init, GameInit, NewRoom
<1>2. <<>> \in Seq(Player) /\ Len(<<>>) = 0
  OBVIOUS
<1>3. \A r \in RoomNames : ~IsFull(rooms[r])
  BY <1>1, <1>2, GameAssumption DEF IsFull
<1>4. \A r \in RoomNames : [i \in DOMAIN rooms[r].players |-> rooms[r].players[i].id] = <<>>
  <2> SUFFICES ASSUME NEW r \in RoomNames PROVE [i \in DOMAIN rooms[r].players |-> rooms[r].players[i].id] = <<>>
    OBVIOUS
  <2> DEFINE ids == [i \in DOMAIN rooms[r].players |-> rooms[r].players[i].id]
  <2>1. ids \in Seq(Users) /\ Len(ids) = 0
    BY <1>1, <1>2, SeatIds
  <2> HIDE DEF ids
  <2>2. ids = <<>>
    BY <2>1, EmptySeq
  <2> QED BY <2>2 DEF ids
<1>5. \A r \in RoomNames : PhaseOf(r) = "filling"
  BY <1>3 DEF PhaseOf
<1> QED BY <1>1, <1>4, <1>5 DEF Game!Init

\* The four programs take no step that TurnGame does not: players take seats in
\* the order they come, the turn is offered when the last is taken, is played
\* by the player it is offered to, and only then goes on, or it is lost.
THEOREM PlaysTurnGame ==
  ASSUME OwnMillis, OwnAccountEach
  PROVE  Spec => Game!SafeSpec
<1>1. TurnInv /\ TurnInv' /\ [Next]_vars => [Game!Next]_(Game!vars)
  BY NextMaps
<1>2. Spec => []TurnInv
  BY OwnAccounts DEF TurnInv
<1>3. Init => Game!Init
  BY InitMaps
<1> QED BY <1>1, <1>2, <1>3, PTL DEF Spec, Game!SafeSpec

(***************************************************************************)
(* While nobody is gone no turn is lost: what carries it goes on to the    *)
(* next place.                                                             *)
(***************************************************************************)

\* The packets of queue q, or all but the first, are in q2.
Stay(q, q2) == \A i \in DOMAIN q : \E j \in DOMAIN q2 : q2[j] = q[i]
InQueue(x, q) == \E j \in DOMAIN q : q[j] = x
RestStays(q, q2) == \A i \in DOMAIN q : i = 1 \/ \E j \in DOMAIN q2 : q2[j] = q[i]

LEMMA StaysFacts ==
  ASSUME NEW S, NEW q \in Seq(S)
  PROVE  /\ Stay(q, q)
         /\ q # <<>> => RestStays(q, Tail(q))
         /\ \A x \in S : Stay(q, Append(q, x)) /\ InQueue(x, Append(q, x))
<1>1. Stay(q, q)
  BY DEF Stay
<1>2. q # <<>> => RestStays(q, Tail(q))
  BY QueueStays DEF RestStays
<1>3. \A x \in S : Stay(q, Append(q, x)) /\ InQueue(x, Append(q, x))
  BY QueueStays DEF Stay, InQueue
<1> QED BY <1>1, <1>2, <1>3

\* Every packet of a player is somewhere after the step.
GoesOn(c) == \A at, i, p : At(c, at, i, p) => \E at2, i2 : At(c, at2, i2, p)'

\* One packet at most leaves its queue, and arrives in the next.
LEMMA GoesOnBy ==
  ASSUME NEW c \in Conns, cid'[c] = cid[c], NEW from,
         Stay(c2r[c], c2r'[c]) \/ (from = "c2r" /\ RestStays(c2r[c], c2r'[c])),
         Stay(relayQ, relayQ') \/ (from = "relayQ" /\ RestStays(relayQ, relayQ')),
         Stay(g2r, g2r') \/ (from = "g2r" /\ RestStays(g2r, g2r')),
         Stay(gameQ, gameQ'), Stay(r2c[c], r2c'[c]),
         \A at, p : At(c, at, 1, p) /\ Queue(at) = from => \E at2, i2 : At(c, at2, i2, p)'
  PROVE  GoesOn(c)
<1> SUFFICES ASSUME NEW at, NEW i, NEW p, At(c, at, i, p), ~(i = 1 /\ Queue(at) = from)
             PROVE  \E at2, i2 : At(c, at2, i2, p)'
  BY DEF GoesOn
<1>1. CASE at = "c2r"
  <2>1. i \in DOMAIN c2r[c] /\ p = c2r[c][i] /\ p.type \in GameRequests
    BY <1>1 DEF At
  <2>2. PICK j \in DOMAIN c2r'[c] : c2r'[c][j] = p
    BY <1>1, <2>1 DEF Stay, RestStays, Queue
  <2>3. At(c, "c2r", j, p)'
    BY <2>1, <2>2 DEF At
  <2> QED BY <2>3
<1>2. CASE at = "over" \/ at = "back"
  <2>1. i \in DOMAIN relayQ
    BY <1>2 DEF At
  <2>2. PICK j \in DOMAIN relayQ' : relayQ'[j] = relayQ[i]
    BY <1>2, <2>1 DEF Stay, RestStays, Queue
  <2>3. At(c, at, j, p)'
    BY <1>2, <2>2 DEF At
  <2> QED BY <2>3
<1>3. CASE at = "gameQ"
  <2>1. i \in DOMAIN gameQ /\ p = gameQ[i] /\ p.id = cid[c]
    BY <1>3 DEF At
  <2>2. PICK j \in DOMAIN gameQ' : gameQ'[j] = p
    BY <2>1 DEF Stay
  <2>3. At(c, "gameQ", j, p)'
    BY <2>1, <2>2 DEF At
  <2> QED BY <2>3
<1>4. CASE at = "g2r"
  <2>1. i \in DOMAIN g2r /\ p = g2r[i] /\ p.to = cid[c]
    BY <1>4 DEF At
  <2>2. PICK j \in DOMAIN g2r' : g2r'[j] = p
    BY <1>4, <2>1 DEF Stay, RestStays, Queue
  <2>3. At(c, "g2r", j, p)'
    BY <2>1, <2>2 DEF At
  <2> QED BY <2>3
<1>5. CASE at = "r2c"
  <2>1. i \in DOMAIN r2c[c] /\ p = r2c[c][i] /\ p.type \in GameReplies
    BY <1>5 DEF At
  <2>2. PICK j \in DOMAIN r2c'[c] : r2c'[c][j] = p
    BY <2>1 DEF Stay
  <2>3. At(c, "r2c", j, p)'
    BY <2>1, <2>2 DEF At
  <2> QED BY <2>3
<1> QED BY <1>1, <1>2, <1>3, <1>4, <1>5 DEF At

\* What no step changes stays.
LEMMA StillThere ==
  ASSUME DInv, NEW c \in Conns
  PROVE  /\ Stay(c2r[c], c2r[c]) /\ Stay(r2c[c], r2c[c]) /\ Stay(relayQ, relayQ)
         /\ Stay(gameQ, gameQ) /\ Stay(g2r, g2r)
BY DEF Stay

LEMMA ReceiveGoesOn ==
  ASSUME DInv, NEW c \in Conns, \/ RelayStep(ReceiveFromLogin) \/ RelayStep(ReceiveFromGame)
                                \/ \E d \in Conns : RelayStep(ReceiveFromClient(d))
  PROVE  GoesOn(c)
<1>1. /\ c2r \in [Conns -> Seq(ClientPacket)] /\ r2c[c] \in Seq(PacketToClient)
      /\ gameQ \in Seq(GameRequest) /\ g2r \in Seq(GamePacket) /\ l2r \in Seq(LoginReply) /\ relayQ \in Seq(RelayPacket)
  BY RelayTypes
<1>2. CASE RelayStep(ReceiveFromLogin)
  <2>1. /\ l2r # <<>> /\ relayQ' = Append(relayQ, [pb |-> Head(l2r), from |-> Nobody])
        /\ UNCHANGED <<cid, c2r, r2c, gameQ, g2r>>
    BY <1>2 DEF RelayStep, ReceiveFromLogin
  <2>2. [pb |-> Head(l2r), from |-> Nobody] \in RelayPacket
    BY <1>1, <2>1, QueueTypes DEF RelayPacket, ServerPacket
  <2>3. Stay(relayQ, relayQ')
    BY <1>1, <2>1, <2>2, StaysFacts
  <2>4. \A at : Queue(at) # "none" \/ ~\E p : At(c, at, 1, p)
    BY DEF At, Queue
  <2> QED BY <2>1, <2>3, <2>4, StillThere, GoesOnBy
<1>3. CASE RelayStep(ReceiveFromGame)
  <2>1. /\ g2r # <<>> /\ relayQ' = Append(relayQ, [pb |-> Head(g2r), from |-> Nobody]) /\ g2r' = Tail(g2r)
        /\ UNCHANGED <<cid, c2r, r2c, gameQ>>
    BY <1>3 DEF RelayStep, ReceiveFromGame
  <2>2. PICK p : p = Head(g2r) /\ p \in GamePacket
    BY <1>1, <2>1, QueueTypes
  <2>3. PICK e \in RelayPacket : e = [pb |-> p, from |-> Nobody] /\ relayQ' = Append(relayQ, e)
    BY <2>1, <2>2 DEF RelayPacket, ServerPacket
  <2>4. Stay(relayQ, relayQ') /\ InQueue(e, relayQ')
    BY <1>1, <2>3, StaysFacts
  <2>5. RestStays(g2r, g2r') /\ Head(g2r) = g2r[1]
    BY <1>1, <2>1, StaysFacts, QueuePositions
  <2>6. ASSUME NEW at, NEW q, At(c, at, 1, q), Queue(at) = "g2r" PROVE \E at2, i2 : At(c, at2, i2, q)'
    <3>1. at = "g2r" /\ q = p /\ p.to = cid[c]
      BY <2>2, <2>5, <2>6 DEF Queue, At
    <3>2. PICK j \in DOMAIN relayQ' : relayQ'[j].pb = p
      BY <2>3, <2>4 DEF InQueue
    <3>3. p.type \in GameReplies
      BY <2>2 DEF GamePacket, GameReplies
    <3>4. At(c, "back", j, q)'
      BY <2>1, <3>1, <3>2, <3>3 DEF At
    <3> QED BY <3>4
  <2> QED BY <2>1, <2>4, <2>5, <2>6, StillThere, GoesOnBy
<1>4. ASSUME NEW d \in Conns, RelayStep(ReceiveFromClient(d)) PROVE GoesOn(c)
  <2>1. /\ c2r[d] # <<>> /\ relayQ' = Append(relayQ, [pb |-> Head(c2r[d]), from |-> d])
        /\ c2r'[d] = Tail(c2r[d]) /\ (c # d => c2r'[c] = c2r[c])
        /\ UNCHANGED <<cid, r2c, gameQ, g2r>>
    BY <1>1, <1>4 DEF RelayStep, ReceiveFromClient
  <2>2. PICK p : p = Head(c2r[d]) /\ p \in ClientPacket
    BY <1>1, <2>1, QueueTypes
  <2>3. PICK e \in RelayPacket : e = [pb |-> p, from |-> d] /\ relayQ' = Append(relayQ, e)
    BY <2>1, <2>2 DEF RelayPacket
  <2>4. Stay(relayQ, relayQ') /\ InQueue(e, relayQ')
    BY <1>1, <2>3, StaysFacts
  <2>5. RestStays(c2r[d], c2r'[d]) /\ Head(c2r[d]) = c2r[d][1]
    BY <1>1, <2>1, StaysFacts, QueuePositions
  <2>6. CASE c = d
    <3>1. ASSUME NEW at, NEW q, At(c, at, 1, q), Queue(at) = "c2r" PROVE \E at2, i2 : At(c, at2, i2, q)'
      <4>1. at = "c2r" /\ q = p /\ p.type \in GameRequests
        BY <2>2, <2>5, <2>6, <3>1 DEF Queue, At
      <4>2. PICK j \in DOMAIN relayQ' : relayQ'[j].pb = p /\ relayQ'[j].from = d
        BY <2>3, <2>4 DEF InQueue
      <4>3. At(c, "over", j, q)'
        BY <2>1, <2>6, <4>1, <4>2 DEF At
      <4> QED BY <4>3
    <3>2. RestStays(c2r[c], c2r'[c]) /\ Stay(g2r, g2r') /\ Stay(gameQ, gameQ')
          /\ Stay(r2c[c], r2c'[c])
      BY <2>1, <2>5, <2>6, StillThere
    <3> QED BY <2>1, <2>4, <3>1, <3>2, GoesOnBy
  <2>7. CASE c # d
    <3>1. \A at : Queue(at) # "none" \/ ~\E q : At(c, at, 1, q)
      BY DEF At, Queue
    <3> QED BY <2>1, <2>4, <2>7, <3>1, StillThere, GoesOnBy
  <2> QED BY <2>6, <2>7
<1> QED BY <1>2, <1>3, <1>4

LEMMA RequestGoesOn ==
  ASSUME DInv, NEW c \in Conns, RelayStep(ForwardToLogin) \/ RelayStep(ForwardToGame)
  PROVE  GoesOn(c)
<1>1. /\ c2r \in [Conns -> Seq(ClientPacket)] /\ r2c[c] \in Seq(PacketToClient)
      /\ gameQ \in Seq(GameRequest) /\ g2r \in Seq(GamePacket) /\ relayQ \in Seq(RelayPacket)
  BY RelayTypes
<1>2. PICK types : /\ types \in {LoginRequests, GameRequests} /\ PopRelay(types)
                   /\ UNCHANGED <<cid, c2r, r2c, g2r>>
                   /\ types = LoginRequests => UNCHANGED gameQ
                   /\ types = GameRequests => gameQ' = Append(gameQ, Head(relayQ).pb)
  <2>1. LoginRequests # GameRequests
    BY DEF LoginRequests, GameRequests, RoomRequests
  <2> QED BY <2>1 DEF RelayStep, ForwardToLogin, ForwardToGame
<1>3. /\ 1 \in DOMAIN relayQ /\ Head(relayQ) = relayQ[1] /\ relayQ[1].pb.type \in types
      /\ relayQ # <<>> /\ relayQ' = Tail(relayQ)
  BY <1>2, RelayPopped DEF PopRelay
<1>4. RestStays(relayQ, relayQ')
  BY <1>1, <1>3, StaysFacts
<1>5. CASE types = LoginRequests
  <2>1. ASSUME NEW at, NEW q, At(c, at, 1, q), Queue(at) = "relayQ" PROVE FALSE
    <3>1. q = relayQ[1].pb /\ q.type \in GameRequests \cup GameReplies
      BY <2>1 DEF At, Queue
    <3> QED BY <1>3, <1>5, <3>1, TypesDiffer
  <2> QED BY <1>2, <1>4, <1>5, <2>1, StillThere, GoesOnBy
<1>6. CASE types = GameRequests
  <2>1. PICK m \in GameRequest : m = relayQ[1].pb /\ relayQ[1].from \in Conns /\ m.id = cid[relayQ[1].from]
    <3>1. relayQ[1].pb \in GameRequest /\ relayQ[1].from \in Conns
      BY <1>3, <1>6, QueuedFacts, RelayPacketKinds
    <3> QED BY <1>3, <1>6, <3>1 DEF DInv, RequestsSigned
  <2>2. gameQ' = Append(gameQ, m)
    BY <1>2, <1>3, <1>6, <2>1
  <2>3. Stay(gameQ, gameQ') /\ InQueue(m, gameQ')
    BY <1>1, <2>2, StaysFacts
  <2>4. ASSUME NEW at, NEW q, At(c, at, 1, q), Queue(at) = "relayQ" PROVE \E at2, i2 : At(c, at2, i2, q)'
    <3>1. at \in {"over", "back"} /\ q = m /\ m.type \in GameRequests
      BY <1>3, <1>6, <2>1, <2>4 DEF At, Queue
    <3>2. at = "over"
      BY <2>4, <3>1, TypesDiffer DEF At
    <3>3. relayQ[1].from = c
      BY <2>4, <3>2 DEF At
    <3>4. PICK j \in DOMAIN gameQ' : gameQ'[j] = m
      BY <2>3 DEF InQueue
    <3>5. At(c, "gameQ", j, q)'
      BY <1>2, <2>1, <3>1, <3>3, <3>4 DEF At
    <3> QED BY <3>5
  <2> QED BY <1>2, <1>4, <2>3, <2>4, StillThere, GoesOnBy
<1> QED BY <1>2, <1>5, <1>6

\* The relay finds a player whose client lives.
LEMMA PlayerIsFound ==
  ASSUME DInv, ~SharedAccount, NEW c \in Conns, Alive(c), me[c] # Nobody
  PROVE  conn[c] = "up" /\ clients[cid[c]] = c
<1>1. cid[c] \in Users /\ cid[c] # Nobody
  BY ConnFacts, IdKinds
<1>2. conn[c] = "up"
  BY <1>1, ConnFacts DEF Alive
<1>3. PICK at \in LoginStages, i \in Int : LoginAt(c, at, i)
  BY DEF DInv, OneLoginEach
<1>4. ~Rekeyed(c)
  BY <1>3 DEF LoginAt, Rekeyed
<1> QED BY <1>1, <1>2, <1>4 DEF DInv, AccountsFindable

LEMMA ReplyGoesOn ==
  ASSUME DInv, RoomsInv, ~SharedAccount, NEW c \in Conns, Alive(c), RelayStep(ForwardToClient)
  PROVE  GoesOn(c)
<1> DEFINE types == (LoginReplies \ {"ACCEPT_LOG_IN"}) \cup GameReplies
<1>1. /\ c2r \in [Conns -> Seq(ClientPacket)] /\ r2c \in [Conns -> Seq(PacketToClient)]
      /\ gameQ \in Seq(GameRequest) /\ g2r \in Seq(GamePacket) /\ relayQ \in Seq(RelayPacket)
  BY RelayTypes
<1>2. PopRelay(types) /\ UNCHANGED <<cid, conn, c2r, gameQ, g2r>>
  BY DEF RelayStep, ForwardToClient
<1>3. /\ 1 \in DOMAIN relayQ /\ Head(relayQ) = relayQ[1] /\ relayQ[1].pb.type \in types
      /\ relayQ # <<>> /\ relayQ' = Tail(relayQ)
  BY <1>2, RelayPopped DEF PopRelay
<1>4. PICK m \in PacketToClient : m = relayQ[1].pb /\ m.to \in Ids
  <2>1. types \subseteq LoginReplies \cup GameReplies /\ "ACCEPT_LOG_IN" \notin types
    BY DEF GameReplies, RoomReplies
  <2> QED BY <1>3, <2>1, ReplyFacts, ServerPacketKinds
<1>5. r2c'[c] = r2c[c] \/ r2c'[c] = Append(r2c[c], m)
  BY <1>1, <1>3, <1>4 DEF RelayStep, ForwardToClient, SendTo
<1>6. Stay(r2c[c], r2c'[c])
  <2>1. r2c[c] \in Seq(PacketToClient)
    BY <1>1
  <2> QED BY <1>5, <2>1, StaysFacts
<1>7. RestStays(relayQ, relayQ')
  BY <1>1, <1>3, StaysFacts
<1>8. ASSUME NEW at, NEW q, At(c, at, 1, q), Queue(at) = "relayQ" PROVE \E at2, i2 : At(c, at2, i2, q)'
  <2>1. q = m /\ at \in {"over", "back"}
    BY <1>4, <1>8 DEF At, Queue
  <2>2. m.type \in LoginReplies \cup GameReplies
    BY <1>3, <1>4
  <2>3. at = "back"
    BY <1>8, <2>1, <2>2, TypesDiffer DEF At
  <2>4. q.type \in GameReplies /\ q.to = cid[c]
    BY <1>8, <2>3 DEF At
  <2>5. me[c] # Nobody
    BY <1>8 DEF RoomsInv, Course, PacketsOK
  <2>6. conn[c] = "up" /\ clients[m.to] = c /\ c # Nobody
    BY <2>1, <2>4, <2>5, PlayerIsFound, IdKinds
  <2>7. SendTo(c, m)
    BY <1>3, <1>4, <2>6 DEF RelayStep, ForwardToClient
  <2>8. r2c'[c] = Append(r2c[c], m) /\ r2c[c] \in Seq(PacketToClient)
    BY <1>1, <2>6, <2>7 DEF SendTo
  <2>9. PICK j \in DOMAIN r2c'[c] : r2c'[c][j] = m
    BY <2>8, StaysFacts DEF InQueue
  <2>10. At(c, "r2c", j, q)'
    BY <2>1, <2>4, <2>9 DEF At
  <2> QED BY <2>10
<1> QED BY <1>2, <1>6, <1>7, <1>8, StillThere, GoesOnBy

LEMMA RekeyGoesOn ==
  ASSUME DInv, DInv', NEW c \in Conns, cid[c] \in Users, RelayStep(BeginRekey) \/ RelayStep(FinishRekey)
  PROVE  GoesOn(c)
<1>1. /\ r2c \in [Conns -> Seq(PacketToClient)] /\ relayQ \in Seq(RelayPacket)
  BY RelayTypes
<1>2. CASE RelayStep(BeginRekey)
  <2>1. PopRelay({"ACCEPT_LOG_IN"}) /\ UNCHANGED links /\ cid'[c] = cid[c]
    BY <1>2, RekeyMoves DEF RelayStep, BeginRekey
  <2>2. relayQ[1].pb.type = "ACCEPT_LOG_IN" /\ relayQ # <<>> /\ relayQ' = Tail(relayQ)
    BY <2>1, RelayPopped DEF PopRelay
  <2>3. RestStays(relayQ, relayQ')
    BY <1>1, <2>2, StaysFacts
  <2>4. ASSUME NEW at, NEW q, At(c, at, 1, q), Queue(at) = "relayQ" PROVE FALSE
    <3>1. q = relayQ[1].pb /\ q.type \in GameRequests \cup GameReplies
      BY <2>4 DEF At, Queue
    <3> QED BY <2>2, <3>1 DEF GameRequests, RoomRequests, GameReplies, RoomReplies
  <2>5. UNCHANGED <<c2r, r2c, gameQ, g2r>>
    BY <2>1 DEF links
  <2> QED BY <2>1, <2>3, <2>4, <2>5, StillThere, GoesOnBy
<1>3. CASE RelayStep(FinishRekey)
  <2>1. /\ rekey # Nobody /\ UNCHANGED <<cid, relayQ, c2r, gameQ, g2r>>
        /\ SendTo(rekey.c, [type |-> "ACCEPT_LOG_IN", to |-> rekey.id])
    BY <1>3 DEF RelayStep, FinishRekey
  <2>2. PICK m \in PacketToClient : m = [type |-> "ACCEPT_LOG_IN", to |-> rekey.id]
    <3>1. rekey.id \in Users
      BY <2>1, ConnFacts
    <3> QED BY <3>1, IdKinds DEF PacketToClient
  <2>3. Stay(r2c[c], r2c'[c])
    <3>1. r2c'[c] = r2c[c] \/ r2c'[c] = Append(r2c[c], m)
      BY <1>1, <2>1, <2>2 DEF SendTo
    <3>2. r2c[c] \in Seq(PacketToClient)
      BY <1>1
    <3> QED BY <3>1, <3>2, StaysFacts
  <2>4. \A at : Queue(at) # "none" \/ ~\E q : At(c, at, 1, q)
    BY DEF At, Queue
  <2> QED BY <2>1, <2>3, <2>4, StillThere, GoesOnBy
<1> QED BY <1>2, <1>3

\* The relay accepts who waits for it, and changes other connections only when the client is gone.
LEMMA RelayKeepsAlive ==
  ASSUME DInv, NEW c \in Conns,
         \/ RelayStep(HandleRelayPacket) \/ RelayStep(ReceiveFromLogin) \/ RelayStep(ReceiveFromGame)
         \/ \E d \in Conns : RelayStep(Accept(d)) \/ RelayStep(RelayWorker(d))
  PROVE  \/ conn'[c] = conn[c]
         \/ conn[c] = "pending" /\ conn'[c] = "up"
         \/ Gone(c) /\ Gone(c)'
<1>1. conn \in [Conns -> ConnStates]
  BY RelayTypes
<1>2. CASE RelayStep(HandleRelayPacket) \/ RelayStep(ReceiveFromLogin) \/ RelayStep(ReceiveFromGame)
  <2>1. UNCHANGED conn
    BY <1>2 DEF RelayStep, ReceiveFromLogin, ReceiveFromGame, HandleRelayPacket, ForwardToLogin, ForwardToGame,
                ForwardToClient, BeginRekey, FinishRekey, links
  <2> QED BY <2>1
<1>3. ASSUME NEW d \in Conns, RelayStep(Accept(d))
      PROVE  conn'[c] = conn[c] \/ (conn[c] = "pending" /\ conn'[c] = "up")
  BY <1>1, <1>3 DEF RelayStep, Accept
<1>4. ASSUME NEW d \in Conns, RelayStep(RelayWorker(d)) PROVE conn'[c] = conn[c] \/ (Gone(c) /\ Gone(c)')
  <2>1. d \in failing => Gone(d)
    BY DEF DInv, NoneLost
  <2>2. conn'[c] = conn[c] \/ (c = d /\ Gone(c) /\ conn'[c] \in {"stale", "closed"})
    BY <1>1, <1>4, <2>1 DEF RelayStep, RelayWorker, ReceiveFromClient, NoticeReset, NoticeEof, NoticeFailedWrite,
                            Drop, Gone
  <2> QED BY <2>2 DEF Gone
<1> QED BY <1>2, <1>3, <1>4

LEMMA RelayGoesOn ==
  ASSUME DInv, DInv', RoomsInv, ~SharedAccount, NEW c \in Conns, cid[c] \in Users, Alive(c),
         \/ RelayStep(HandleRelayPacket) \/ RelayStep(ReceiveFromLogin) \/ RelayStep(ReceiveFromGame)
         \/ \E d \in Conns : RelayStep(Accept(d)) \/ RelayStep(RelayWorker(d))
  PROVE  GoesOn(c)
<1>1. CASE RelayStep(HandleRelayPacket)
  BY <1>1, RequestGoesOn, ReplyGoesOn, RekeyGoesOn DEF RelayStep, HandleRelayPacket
<1>2. CASE RelayStep(ReceiveFromLogin) \/ RelayStep(ReceiveFromGame)
  BY <1>2, ReceiveGoesOn
<1>3. \A at : Queue(at) # "none" \/ ~\E q : At(c, at, 1, q)
  BY DEF At, Queue
<1>4. ASSUME NEW d \in Conns, RelayStep(Accept(d)) PROVE GoesOn(c)
  <2>1. cid'[c] = cid[c] /\ UNCHANGED <<c2r, r2c, relayQ, gameQ, g2r>>
    BY <1>4, AcceptMoves DEF RelayStep, Accept
  <2> QED BY <1>3, <2>1, StillThere, GoesOnBy
<1>5. ASSUME NEW d \in Conns, RelayStep(RelayWorker(d)) PROVE GoesOn(c)
  <2>1. CASE RelayStep(ReceiveFromClient(d))
    BY <2>1, ReceiveGoesOn
  <2>2. CASE RelayStep(NoticeReset(d)) \/ RelayStep(NoticeEof(d)) \/ RelayStep(NoticeFailedWrite(d))
    <3>1. d # c
      BY <2>2 DEF RelayStep, NoticeReset, NoticeEof, NoticeFailedWrite, Alive, DInv, NoneLost, Gone
    <3>2. cid'[c] = cid[c] /\ c2r'[c] = c2r[c] /\ UNCHANGED <<r2c, relayQ, gameQ, g2r>>
      BY <2>2, <3>1, RelayTypes DEF RelayStep, NoticeReset, NoticeEof, NoticeFailedWrite, Drop
    <3> QED BY <1>3, <3>2, StillThere, GoesOnBy
  <2> QED BY <1>5, <2>1, <2>2 DEF RelayStep, RelayWorker
<1> QED BY <1>1, <1>2, <1>4, <1>5

(***************************************************************************)
(* No turn is lost.                                                        *)
(***************************************************************************)
HoldsTurn(c) == Bears(c, "PLAYER_TURN") \/ Bears(c, "PlAYER_TURN_OVER") \/ (Alive(c) /\ io[c] = "turn")
NotLost == SomeGone \/ \A r \in RoomNames : PhaseOf(r) # "lost"

LEMMA HeldPhase ==
  ASSUME TurnInv, relayUp, NEW r \in RoomNames
  PROVE  PhaseOf(r) = "lost" <=> IsFull(rooms[r]) /\ ~\E c \in Conns : room[c] = r /\ HoldsTurn(c)
<1>1. PhaseTold(r)
  BY PhaseFacts
<1>2. Arrived(r) => Returned(r)
  BY ArrivedReturned
<1>3. (\E c \in Conns : room[c] = r /\ HoldsTurn(c)) <=> Offered(r) \/ Returned(r) \/ Acting(r) # {}
  BY DEF Offered, Returned, Acting, HoldsTurn
<1> QED BY <1>1, <1>2, <1>3 DEF PhaseTold

AllServed == SomeGone \/ (relayUp /\ \A c \in Conns : io[c] = "turn" => Alive(c))

LEMMA AliveAtTurn == TurnInv => AllServed
<1> SUFFICES ASSUME DInv, RoomsInv, ~SomeGone PROVE relayUp /\ \A c \in Conns : io[c] = "turn" => Alive(c)
  BY DEF AllServed, TurnInv
<1>1. \A c \in Conns : io[c] = "turn" => conn[c] # "none" /\ conn[c] \in ConnStates
  BY ConnFacts, RelayTypes
<1>2. relayUp
  BY DEF DInv, NoneLost, RoomsInv
<1> QED BY <1>1, <1>2 DEF SomeGone, Gone, Alive, ConnStates

\* A step that keeps the rooms and all that holds a turn loses none.
LEMMA HeldKeeps ==
  ASSUME TurnInv, TurnInv', ~SomeGone', relayUp, UNCHANGED rooms,
         \A c \in Conns : HoldsTurn(c) => room'[c] = room[c] /\ HoldsTurn(c)',
         NEW r \in RoomNames, PhaseOf(r) # "lost"
  PROVE  PhaseOf(r)' # "lost"
<1>1. (TurnInv /\ relayUp => (PhaseOf(r) = "lost" <=> IsFull(rooms[r]) /\ ~\E c \in Conns : room[c] = r /\ HoldsTurn(c)))'
  BY HeldPhase, PTL
<1>2. relayUp'
  <2>1. (TurnInv => AllServed)'
    BY AliveAtTurn, PTL
  <2> QED BY <2>1 DEF TurnInv, AllServed
<1>3. PhaseOf(r)' = "lost" <=> IsFull(rooms[r])' /\ ~\E c \in Conns : room'[c] = r /\ HoldsTurn(c)'
  BY <1>1, <1>2
<1>4. IsFull(rooms[r])' <=> IsFull(rooms[r])
  BY DEF IsFull
<1> QED BY <1>3, <1>4, HeldPhase

LEMMA GoneStays ==
  ASSUME DInv, [Next]_vars, SomeGone
  PROVE  SomeGone'
BY OnceGone DEF SomeGone

\* The relay carries every turn on.
LEMMA RelayKeepsTurns ==
  ASSUME TurnInv, TurnInv', ~SomeGone', NEW r \in RoomNames, PhaseOf(r) # "lost",
         \/ RelayStep(HandleRelayPacket) \/ RelayStep(ReceiveFromLogin) \/ RelayStep(ReceiveFromGame)
         \/ \E d \in Conns : RelayStep(Accept(d)) \/ RelayStep(RelayWorker(d))
  PROVE  PhaseOf(r)' # "lost"
<1> USE DEF TurnInv
<1>1. UNCHANGED <<io, room, rooms>> /\ relayUp
  <2>1. ~SomeGone
    BY GoneStays DEF Next
  <2>2. relayUp
    BY <2>1, AliveAtTurn DEF AllServed
  <2> QED BY <2>2 DEF RelayStep, clientVars, gameVars
<1>2. ASSUME NEW c \in Conns, HoldsTurn(c) PROVE HoldsTurn(c)'
  <2>1. CASE Alive(c) /\ io[c] = "turn"
    <3>1. (TurnInv => AllServed)'
      BY AliveAtTurn, PTL
    <3>2. io'[c] = "turn"
      BY <1>1, <2>1
    <3>3. Alive(c)'
      BY <3>1, <3>2 DEF AllServed
    <3> QED BY <3>2, <3>3 DEF HoldsTurn
  <2>2. ASSUME NEW t \in TurnTypes, Bears(c, t) PROVE Bears(c, t)'
    <3>1. PICK at, i, p : At(c, at, i, p) /\ p.type = t
      BY <2>2 DEF Bears
    <3>2. cid[c] \in Users
      BY <3>1, AtFacts
    <3>3. Alive(c)
      <4>1. ~SomeGone /\ conn[c] \in ConnStates /\ conn[c] # "none"
        BY <3>2, GoneStays, ConnFacts, RelayTypes, IdKinds DEF Next
      <4> QED BY <4>1 DEF SomeGone, Gone, Alive, ConnStates
    <3>4. GoesOn(c)
      BY <3>2, <3>3, RelayGoesOn
    <3>5. \E at2, i2 : At(c, at2, i2, p)'
      BY <3>1, <3>4 DEF GoesOn
    <3> QED BY <3>1, <3>5 DEF Bears
  <2> QED BY <1>2, <2>1, <2>2 DEF HoldsTurn, TurnTypes
<1> QED BY <1>1, <1>2, HeldKeeps

\* A client that does not play keeps the turn it is to be shown.
LEMMA ClientKeepsTurns ==
  ASSUME TurnInv, TurnInv', ~SomeGone', NEW r \in RoomNames, PhaseOf(r) # "lost",
         NEW c \in Conns, ClientStep(UserStep(c)) \/ ClientStep(HandleIO(c)),
         io'[c] = "turn" <=> io[c] = "turn"
  PROVE  PhaseOf(r)' # "lost"
<1> USE DEF TurnInv
<1>1. LocalStep(c) /\ ClientTypeOK /\ r2c \in [Conns -> Seq(PacketToClient)] /\ c2r \in [Conns -> Seq(ClientPacket)]
      /\ conn \in [Conns -> ConnStates]
  BY LocalFacts
<1>2. UNCHANGED <<rooms, relayUp, cid, relayQ, gameQ, g2r>>
  BY <1>1 DEF LocalStep, gameVars, relayVars
<1>3. AllServed' /\ relayUp'
  <2>1. (TurnInv => AllServed)'
    BY AliveAtTurn, PTL
  <2> QED BY <2>1 DEF AllServed
<1>4. ASSUME NEW d \in Conns \ {c}, HoldsTurn(d) PROVE room'[d] = room[d] /\ HoldsTurn(d)'
  <2>1. /\ room'[d] = room[d] /\ conn'[d] = conn[d] /\ io'[d] = io[d] /\ c2r'[d] = c2r[d] /\ r2c'[d] = r2c[d]
    BY <1>1 DEF LocalStep
  <2>2. \A at, i, p : At(d, at, i, p) => At(d, at, i, p)'
    BY <1>2, <2>1 DEF At
  <2>3. \A t : Bears(d, t) => Bears(d, t)'
    BY <2>2 DEF Bears
  <2>4. Alive(d)' <=> Alive(d)
    BY <2>1 DEF Alive
  <2> QED BY <1>4, <2>1, <2>3, <2>4 DEF HoldsTurn
<1>5. ASSUME HoldsTurn(c) PROVE room'[c] = room[c] /\ HoldsTurn(c)'
  <2>1. ~ClientStep(HostOrJoin(c))
    <3>1. SUFFICES ASSUME io[c] = "lobby" PROVE FALSE
      BY DEF ClientStep, HostOrJoin
    <3>2. \A at, i, p : At(c, at, i, p) => p.type \notin TurnTypes
      BY <3>1 DEF RoomsInv, Course, PageAlone, Tokens
    <3> QED BY <1>5, <3>1, <3>2 DEF HoldsTurn, Bears, TurnTypes
  <2>2. /\ UNCHANGED room
        /\ UNCHANGED r2c \/ (r2c[c] # <<>> /\ Received(c) /\ Head(r2c[c]).type # "PLAYER_TURN") \/ Die(c)
        /\ UNCHANGED c2r \/ \E m \in LoginRequest : Send(c, m)
    BY <2>1, QuietParts
  <2>3. ~Die(c)
    <3>1. ASSUME Die(c) PROVE Gone(c)'
      BY <1>1, <3>1 DEF Die, Gone
    <3> QED BY <3>1 DEF SomeGone
  <2>4. \A i \in DOMAIN c2r[c] : \E j \in DOMAIN c2r'[c] : c2r'[c][j] = c2r[c][i]
    <3>1. CASE UNCHANGED c2r
      BY <3>1
    <3>2. ASSUME NEW m \in LoginRequest, Send(c, m) PROVE Stay(c2r[c], c2r'[c])
      <4>1. c2r'[c] = Append(c2r[c], m) /\ c2r[c] \in Seq(ClientPacket) /\ m \in ClientPacket
        BY <1>1, <3>2 DEF Send, ClientPacket
      <4> QED BY <4>1, StaysFacts
    <3> QED BY <2>2, <3>1, <3>2 DEF Stay
  <2>5. \A i \in DOMAIN r2c[c] : r2c[c][i].type = "PLAYER_TURN" => \E j \in DOMAIN r2c'[c] : r2c'[c][j] = r2c[c][i]
    <3>1. CASE UNCHANGED r2c
      BY <3>1
    <3>2. CASE r2c[c] # <<>> /\ Received(c) /\ Head(r2c[c]).type # "PLAYER_TURN"
      <4>1. r2c'[c] = Tail(r2c[c]) /\ r2c[c] \in Seq(PacketToClient)
        BY <1>1, <3>2 DEF Received
      <4>2. RestStays(r2c[c], r2c'[c]) /\ Head(r2c[c]) = r2c[c][1]
        BY <3>2, <4>1, StaysFacts
      <4> QED BY <3>2, <4>2 DEF RestStays
    <3> QED BY <2>2, <2>3, <3>1, <3>2
  <2>6. ASSUME NEW at, NEW i, NEW p, At(c, at, i, p), p.type \in TurnTypes PROVE \E at2, i2 : At(c, at2, i2, p)'
    <3>1. CASE at = "c2r"
      <4>1. i \in DOMAIN c2r[c] /\ p = c2r[c][i] /\ p.type \in GameRequests
        BY <2>6, <3>1 DEF At
      <4>2. PICK j \in DOMAIN c2r'[c] : c2r'[c][j] = p
        BY <2>4, <4>1
      <4>3. At(c, "c2r", j, p)'
        BY <4>1, <4>2 DEF At
      <4> QED BY <4>3
    <3>2. CASE at = "r2c"
      <4>1. i \in DOMAIN r2c[c] /\ p = r2c[c][i] /\ p.type \in GameReplies
        BY <2>6, <3>2 DEF At
      <4>2. p.type = "PLAYER_TURN"
        BY <2>6, <4>1 DEF GameReplies, TurnTypes, RoomReplies
      <4>3. PICK j \in DOMAIN r2c'[c] : r2c'[c][j] = p
        BY <2>5, <4>1, <4>2
      <4>4. At(c, "r2c", j, p)'
        BY <4>1, <4>3 DEF At
      <4> QED BY <4>4
    <3>3. CASE at # "c2r" /\ at # "r2c"
      <4>1. At(c, at, i, p)'
        BY <1>2, <2>6, <3>3 DEF At
      <4> QED BY <4>1
    <3> QED BY <3>1, <3>2, <3>3
  <2>7. \A t \in TurnTypes : Bears(c, t) => Bears(c, t)'
    BY <2>6 DEF Bears
  <2>8. io[c] = "turn" => io'[c] = "turn" /\ Alive(c)'
    BY <1>3 DEF AllServed
  <2> QED BY <1>5, <2>2, <2>7, <2>8 DEF HoldsTurn, TurnTypes
<1> QED BY <1>2, <1>3, <1>4, <1>5, HeldKeeps


LEMMA NextNotLost ==
  ASSUME TurnInv, TurnInv', [Next]_vars, NotLost
  PROVE  NotLost'
<1> SUFFICES ASSUME ~SomeGone', NEW r \in RoomNames PROVE PhaseOf(r)' # "lost"
  BY DEF NotLost
<1> USE DEF TurnInv
<1>1. ~SomeGone
  BY GoneStays
<1>2. PhaseOf(r) # "lost"
  BY <1>1 DEF NotLost
<1>3. relayUp
  BY <1>1, AliveAtTurn DEF AllServed
<1>4. ASSUME NEW c \in Conns, ClientStep(UserStep(c)) \/ ClientStep(HandleIO(c)) PROVE PhaseOf(r)' # "lost"
  <2>1. CASE io'[c] = "turn" <=> io[c] = "turn"
    BY <1>2, <1>4, <2>1, ClientKeepsTurns
  <2>2. CASE io'[c] = "turn" /\ io[c] # "turn"
    <3>1. PICK s \in RoomNames :
            /\ \A q \in RoomNames \ {s} : PhaseOf(q)' = PhaseOf(q)
            /\ PhaseOf(s)' = PhaseOf(s) \/ (PhaseOf(s) = "offered" /\ PhaseOf(s)' = "playing")
      BY <1>4, <2>2, TurnOffered
    <3> QED BY <1>2, <3>1
  <2>3. CASE io'[c] # "turn" /\ io[c] = "turn"
    <3>1. PICK s \in RoomNames :
            /\ \A q \in RoomNames \ {s} : PhaseOf(q)' = PhaseOf(q)
            /\ PhaseOf(s)' = PhaseOf(s) \/ (PhaseOf(s) = "playing" /\ PhaseOf(s)' = "played")
      BY <1>4, <2>3, TurnPlayed
    <3> QED BY <1>2, <3>1
  <2> QED BY <2>1, <2>2, <2>3
<1>5. CASE LoginStep(HandleLoginPacket) \/ UNCHANGED vars
  <2>1. UNCHANGED <<io, room, rooms, relayUp, conn, cid, c2r, r2c, relayQ, gameQ, g2r>>
    BY <1>5 DEF LoginStep, HandleLoginPacket, HandleLogIn, HandleRegister, vars, links, relayVars, gameVars, clientVars
  <2>2. \A c \in Conns : HoldsTurn(c) => room'[c] = room[c] /\ HoldsTurn(c)'
    <3>1. \A c \in Conns : \A at, i, p : At(c, at, i, p) => At(c, at, i, p)'
      BY <2>1 DEF At
    <3>2. \A c \in Conns : \A t : Bears(c, t) => Bears(c, t)'
      BY <3>1 DEF Bears
    <3> QED BY <2>1, <3>2 DEF HoldsTurn, Alive
  <2> QED BY <1>2, <1>3, <2>1, <2>2, HeldKeeps
<1>6. CASE GameStep(HandleGamePacket)
  <2>1. CASE Head(gameQ).type \in RoomRequests /\ RoomRefused(Head(gameQ))
    BY <1>2, <1>6, <2>1, RefusedPhases
  <2>2. ASSUME Head(gameQ).type \in RoomRequests, Head(gameQ).room \in RoomNames,
               NEW rm, NEW new, NEW p, RoomEntered(Head(gameQ), rm, new, p)
        PROVE  PhaseOf(r)' # "lost"
    <3>1. PICK s \in RoomNames :
            /\ PhaseOf(s)' = (IF ~IsFull(new) THEN "filling" ELSE IF relayUp THEN "offered" ELSE "lost")
            /\ \A q \in RoomNames \ {s} : PhaseOf(q)' = PhaseOf(q)
      BY <1>6, <2>2, EnteredPhases
    <3> QED BY <1>2, <1>3, <3>1
  <2>3. CASE Head(gameQ).type = "PlAYER_TURN_OVER" /\ TurnPassed(Head(gameQ))
    <3>1. PICK s \in RoomNames : /\ PhaseOf(s)' = (IF relayUp THEN "offered" ELSE "lost")
                                 /\ \A q \in RoomNames \ {s} : PhaseOf(q)' = PhaseOf(q)
      BY <1>6, <2>3, PassedPhases
    <3> QED BY <1>2, <1>3, <3>1
  <2>4. Head(gameQ).type = "PlAYER_TURN_OVER" => ~TurnFatal(Head(gameQ))
    BY <1>6, TurnIsPossible
  <2> QED BY <1>6, <2>1, <2>2, <2>3, <2>4, GameEffects
<1>7. CASE \/ RelayStep(HandleRelayPacket) \/ RelayStep(ReceiveFromLogin) \/ RelayStep(ReceiveFromGame)
           \/ \E c \in Conns : RelayStep(Accept(c)) \/ RelayStep(RelayWorker(c))
  BY <1>2, <1>7, RelayKeepsTurns
<1> QED BY <1>4, <1>5, <1>6, <1>7, ServerStands DEF Next

LEMMA InitNotLost ==
  ASSUME Init
  PROVE  NotLost
<1>1. Game!Init
  BY InitMaps
<1>2. \A r \in RoomNames : PhaseOf(r) = "filling"
  BY <1>1 DEF Game!Init
<1> QED BY <1>2 DEF NotLost

\* In one place at a time and of the player whose turn it is: and not lost
\* while every program runs.
LEMMA TurnTokenInv ==
  ASSUME TurnInv, NotLost
  PROVE  TurnToken
<1> USE DEF TurnInv
<1> SUFFICES ASSUME NEW r \in RoomNames, IsFull(rooms[r]), relayUp, \A c \in Conns : ~Gone(c)
             PROVE  Turns(r) # {} \/ Acting(r) # {}
  BY OneTurn DEF TurnToken
<1>1. PhaseOf(r) # "lost"
  BY DEF NotLost, SomeGone
<1>2. PhaseTold(r)
  BY PhaseFacts
<1>3. Offered(r) \/ Returned(r) \/ Acting(r) # {}
  BY <1>1, <1>2, ArrivedReturned DEF PhaseTold
<1>4. Offered(r) \/ Returned(r) => Turns(r) # {}
  BY OfferedTurn, ReturnedTurn
<1> QED BY <1>3, <1>4

\* The turn of a full table is in one place, a packet or a client, of the player
\* whose seat Room::turn is; and nothing the programs do loses it, but the end
\* of a client or of the relay.
THEOREM TurnIsInOnePlace ==
  ASSUME OwnMillis, OwnAccountEach
  PROVE  Spec => []TurnToken
<1>1. TurnInv /\ TurnInv' /\ [Next]_vars /\ NotLost => NotLost'
  BY NextNotLost
<1>2. Spec => []TurnInv
  BY OwnAccounts DEF TurnInv
<1>3. Init => NotLost
  BY InitNotLost
<1>4. TurnInv /\ NotLost => TurnToken
  BY TurnTokenInv
<1> QED BY <1>1, <1>2, <1>3, <1>4, PTL DEF Spec

(***************************************************************************)
(* What a player is told of its table: the cards it holds, and who else is *)
(* there.  The packets that say so come before the first turn.             *)
(***************************************************************************)
Table(c) == Seats(room[c]) \ {cid[c]}
HandServed(c) == me[c].num <= Size(me[c].hand)
OthersServed(c) == Len(others[c]) = MaxPlayers - 1 /\ \A u \in Table(c) : Known(c, u) # {}
Served(c) == HandServed(c) /\ OthersServed(c)
Promised(c) ==
  /\ HandServed(c) \/ Bears(c, "DEAL_CARDS")
  /\ OthersServed(c) \/ Bears(c, "ALLOW_PLAY_GAME")

\* What a packet says of the table of the player it goes to.
NamesTable(c, ids) == Len(ids) = MaxPlayers - 1 /\ \A u \in Table(c) : \E j \in DOMAIN ids : ids[j] = u
News(c, p) ==
  /\ p.type = "DEAL_CARDS" => HandSize <= Size(p.cards)
  /\ p.type = "ALLOW_PLAY_GAME" => others[c] = <<>> /\ NamesTable(c, p.others)
  /\ p.type = "PLAYER_TURN" => p.previous = Nobody \/ p.previous \in Table(c)

\* While the client lives, or at its turn, nothing it was promised is lost.
InTime(c) == Alive(c) \/ io[c] = "turn"
AllNews(c) == \A at, i, p : At(c, at, i, p) => News(c, p)
TableOK(c) ==
  /\ AllNews(c) /\ OneOf(c, {"ALLOW_PLAY_GAME"})
  /\ ~Plays(c) => others[c] = <<>>
  /\ InTime(c) /\ Plays(c) => Promised(c)
TableInv == \A c \in Conns : TableOK(c)

\* Who does not play is told nothing of a table.
LEMMA OutsiderTable ==
  ASSUME RoomsInv, NEW c \in Conns, ~Plays(c), others[c] = <<>>
  PROVE  TableOK(c)
<1>1. \A at, i, p : At(c, at, i, p) => p.type \notin {"ALLOW_PLAY_GAME", "DEAL_CARDS", "PLAYER_TURN"}
  BY DEF RoomsInv, Course, PacketsOK, Holds, TurnTypes, HasTurn
<1> QED BY <1>1 DEF TableOK, AllNews, News, OneOf

LEMMA OutsiderTableNext ==
  ASSUME RoomsInv', NEW c \in Conns, ~Plays(c)', others'[c] = <<>>
  PROVE  TableOK(c)'
<1>1. (RoomsInv /\ ~Plays(c) /\ others[c] = <<>> => TableOK(c))'
  BY OutsiderTable, PTL
<1> QED BY <1>1

\* Who plays has an account and has logged in; at the turn nothing is on its way.
LEMMA PlayerFacts ==
  ASSUME DInv, RoomsInv, NEW c \in Conns, Plays(c)
  PROVE  /\ cid[c] \in Users /\ me[c] # Nobody /\ me[c] \in Me /\ me[c].id = cid[c]
         /\ room[c] \in RoomNames /\ cid[c] \in Seats(room[c])
<1>1. room[c] \in RoomNames /\ cid[c] \in Seats(room[c])
  BY DEF Plays, SitsIn
<1>2. me[c] # Nobody /\ me[c].id = cid[c] /\ cid[c] \in Users
  BY <1>1, PlayersRoom
<1>3. me[c] \in Me
  BY <1>2 DEF DInv, IInv, TypeOK, ClientTypeOK
<1> QED BY <1>1, <1>2, <1>3

LEMMA ServedAtTurn ==
  ASSUME DInv, RoomsInv, MaxPlayers > 1, NEW c \in Conns, TableOK(c), io[c] = "turn"
  PROVE  /\ Plays(c) /\ Served(c) /\ \A at, i, p : ~At(c, at, i, p)
<1>1. Plays(c) /\ \A at, i, p : ~At(c, at, i, p)
  BY DEF RoomsInv, Course, ToldOK, LastWord, HasTurn
<1> QED BY <1>1 DEF TableOK, InTime, Promised, Bears, Served

\* The turn comes last.
LEMMA ServedAtOffer ==
  ASSUME DInv, RoomsInv, MaxPlayers > 1, NEW c \in Conns, TableOK(c), Alive(c),
         NEW p, At(c, "r2c", 1, p), p.type = "PLAYER_TURN"
  PROVE  /\ Plays(c) /\ Served(c) /\ me[c] # Nobody
         /\ \A at, i, q : At(c, at, i, q) => at = "r2c" /\ i = 1
<1>1. me[c] # Nobody /\ Holds(c, p) /\ LastWord(c)
  BY DEF RoomsInv, Course, PacketsOK
<1>2. Plays(c)
  BY <1>1 DEF Holds, TurnTypes, HasTurn
<1>3. ASSUME NEW at, NEW i, NEW q, At(c, at, i, q) PROVE at = "r2c" /\ i = 1
  <2>1. i \in Int /\ 1 <= i
    BY <1>3, AtFacts
  <2>2. p.type \in Tokens
    BY DEF Tokens, TurnTypes
  <2>3. ("r2c" = at /\ 1 = i) \/ Before(at, i, "r2c", 1)
    BY <1>1, <1>3, <2>2 DEF LastWord
  <2>4. ~Before(at, i, "r2c", 1)
    BY <2>1 DEF Before
  <2> QED BY <2>3, <2>4
<1>4. ~Bears(c, "DEAL_CARDS") /\ ~Bears(c, "ALLOW_PLAY_GAME")
  BY <1>3, OnePacket DEF Bears
<1> QED BY <1>1, <1>2, <1>3, <1>4 DEF TableOK, InTime, Promised, Served

(***************************************************************************)
(* Steps that leave the player and its table.                              *)
(***************************************************************************)
KeepsTable(c) ==
  /\ cid'[c] = cid[c] /\ me'[c] = me[c] /\ room'[c] = room[c] /\ others'[c] = others[c]
  /\ Plays(c)' <=> Plays(c)
  /\ Table(c)' = Table(c)
Promises == {"DEAL_CARDS", "ALLOW_PLAY_GAME"}
KeepsPromises(c) == \A t \in Promises : Bears(c, t) => Bears(c, t)'

LEMMA RoomKeepsTable ==
  ASSUME NEW c \in Conns, UNCHANGED rooms, cid'[c] = cid[c], room'[c] = room[c]
  PROVE  (Plays(c)' <=> Plays(c)) /\ Table(c)' = Table(c)
BY DEF Plays, SitsIn, Table, Seats, IsFull

LEMMA TableStays ==
  ASSUME NEW c \in Conns, KeepsTable(c), TableOK(c),
         \A at, i, p : At(c, at, i, p)' => News(c, p)' \/ \E at2, i2 : At(c, at2, i2, p),
         OneOf(c, {"ALLOW_PLAY_GAME"})',
         InTime(c)' => InTime(c) /\ KeepsPromises(c)
  PROVE  TableOK(c)'
<1>1. \A p : News(c, p) => News(c, p)'
  BY DEF KeepsTable, News, NamesTable
<1>2. AllNews(c)'
  BY <1>1 DEF TableOK, AllNews
<1>3. (HandServed(c) => HandServed(c)') /\ (OthersServed(c) => OthersServed(c)')
  BY DEF KeepsTable, HandServed, OthersServed, Known
<1>4. InTime(c)' /\ Plays(c)' => Promised(c)'
  BY <1>3 DEF TableOK, KeepsTable, KeepsPromises, Promises, Promised
<1> QED BY <1>2, <1>4 DEF TableOK, KeepsTable

LEMMA RelayMoves ==
  ASSUME DInv, DInv', ~SharedAccount, NEW c \in Conns, cid[c] \in Users,
         \/ RelayStep(HandleRelayPacket) \/ RelayStep(ReceiveFromLogin) \/ RelayStep(ReceiveFromGame)
         \/ \E d \in Conns : RelayStep(Accept(d)) \/ RelayStep(RelayWorker(d))
  PROVE  cid'[c] = cid[c] /\ Moves(c)
<1>1. CASE RelayStep(HandleRelayPacket)
  <2>1. CASE RelayStep(ForwardToLogin) \/ RelayStep(ForwardToGame) \/ RelayStep(ForwardToClient)
    <3>1. UNCHANGED cid
      BY <2>1 DEF RelayStep, ForwardToLogin, ForwardToGame, ForwardToClient
    <3> QED BY <2>1, <3>1, ForwardToLoginMoves, ForwardToGameMoves, ForwardToClientMoves
  <2>2. CASE RelayStep(BeginRekey)
    BY <2>2, RekeyMoves
  <2>3. CASE RelayStep(FinishRekey)
    <3>1. UNCHANGED cid
      BY <2>3 DEF RelayStep, FinishRekey
    <3> QED BY <2>3, <3>1, FinishRekeyMoves
  <2> QED BY <1>1, <2>1, <2>2, <2>3 DEF RelayStep, HandleRelayPacket
<1>2. CASE RelayStep(ReceiveFromLogin) \/ RelayStep(ReceiveFromGame)
  <2>1. UNCHANGED cid
    BY <1>2 DEF RelayStep, ReceiveFromLogin, ReceiveFromGame
  <2> QED BY <1>2, <2>1, ReceiveFromLoginMoves, ReceiveFromGameMoves
<1>3. ASSUME NEW d \in Conns, RelayStep(Accept(d)) PROVE cid'[c] = cid[c] /\ Moves(c)
  BY <1>3, AcceptMoves
<1>4. ASSUME NEW d \in Conns, RelayStep(RelayWorker(d)) PROVE cid'[c] = cid[c] /\ Moves(c)
  <2>1. UNCHANGED cid
    BY <1>4 DEF RelayStep, RelayWorker, ReceiveFromClient, NoticeReset, NoticeEof, NoticeFailedWrite
  <2>2. CASE RelayStep(ReceiveFromClient(d))
    BY <2>1, <2>2, ReceiveFromClientMoves
  <2>3. CASE RelayStep(NoticeReset(d)) \/ RelayStep(NoticeEof(d)) \/ RelayStep(NoticeFailedWrite(d))
    BY <2>1, <2>3, WorkerMoves
  <2> QED BY <1>4, <2>2, <2>3 DEF RelayStep, RelayWorker
<1> QED BY <1>1, <1>2, <1>3, <1>4

\* What the relay moves stays true, and arrives.
LEMMA RelayKeepsTable ==
  ASSUME TurnInv, TurnInv', MaxPlayers > 1, NEW c \in Conns, TableOK(c),
         \/ RelayStep(HandleRelayPacket) \/ RelayStep(ReceiveFromLogin) \/ RelayStep(ReceiveFromGame)
         \/ \E d \in Conns : RelayStep(Accept(d)) \/ RelayStep(RelayWorker(d))
  PROVE  TableOK(c)'
<1> USE DEF TurnInv
<1>1. UNCHANGED <<io, me, room, others, rooms>>
  BY DEF RelayStep, clientVars, gameVars
<1>2. CASE cid[c] \notin Users
  <2>1. me[c] = Nobody
    BY <1>2, ConnFacts
  <2>2. ~Plays(c)
    BY <1>2, PlayerFacts
  <2>3. ~Plays(c)'
    <3>1. me'[c] = Nobody
      BY <1>1, <2>1
    <3> QED BY <3>1 DEF Plays, SitsIn, RoomsInv, SeatsOK
  <2>4. others'[c] = <<>>
    BY <1>1, <2>2 DEF TableOK
  <2> QED BY <2>3, <2>4, OutsiderTableNext
<1>3. CASE cid[c] \in Users
  <2>1. cid'[c] = cid[c] /\ Moves(c)
    BY <1>3, RelayMoves
  <2>2. KeepsTable(c)
    BY <1>1, <2>1, RoomKeepsTable DEF KeepsTable
  <2>3. \A at, i, p : At(c, at, i, p)' => \E at2, i2 : At(c, at2, i2, p)
    BY <2>1 DEF Moves, Moved
  <2>4. OneOf(c, {"ALLOW_PLAY_GAME"})'
    BY <2>1, MovesKeepOne DEF TableOK
  <2>5. ASSUME InTime(c)' PROVE InTime(c) /\ KeepsPromises(c)
    <3>1. CASE io[c] = "turn"
      BY <3>1, ServedAtTurn DEF InTime, KeepsPromises, Bears
    <3>2. CASE io[c] # "turn"
      <4>1. Alive(c)'
        BY <1>1, <2>5, <3>2 DEF InTime
      <4>2. Alive(c)
        BY <4>1, RelayKeepsAlive DEF Alive, Gone
      <4>3. GoesOn(c)
        BY <1>3, <4>2, RelayGoesOn
      <4> QED BY <4>2, <4>3 DEF InTime, KeepsPromises, GoesOn, Bears
    <3> QED BY <3>1, <3>2
  <2> QED BY <2>2, <2>3, <2>4, <2>5, TableStays
<1> QED BY <1>2, <1>3

LEMMA StillTable ==
  ASSUME NEW c \in Conns, TableOK(c), UNCHANGED <<rooms, cid, relayQ, gameQ, g2r>>,
         me'[c] = me[c], room'[c] = room[c], others'[c] = others[c], io'[c] = io[c], conn'[c] = conn[c],
         c2r'[c] = c2r[c], r2c'[c] = r2c[c]
  PROVE  TableOK(c)'
<1>1. KeepsTable(c)
  BY RoomKeepsTable DEF KeepsTable
<1>2. \A at, i, p : At(c, at, i, p)' <=> At(c, at, i, p)
  BY DEF At
<1>3. OneOf(c, {"ALLOW_PLAY_GAME"})'
  BY <1>2 DEF TableOK, OneOf
<1>4. KeepsPromises(c)
  BY <1>2 DEF KeepsPromises, Bears
<1>5. InTime(c)' => InTime(c)
  BY DEF InTime, Alive
<1> QED BY <1>1, <1>2, <1>3, <1>4, <1>5, TableStays

(***************************************************************************)
(* The client.                                                             *)
(***************************************************************************)

\* A step that changes nothing of what the player knows: it takes at most one
\* packet of its link, which promises nothing.
LEMMA QuietTable ==
  ASSUME DInv, DInv', RoomsInv, MaxPlayers > 1, NEW c \in Conns, ClientStep(UserStep(c)) \/ ClientStep(HandleIO(c)),
         TableOK(c), me'[c] = me[c], room'[c] = room[c], others'[c] = others[c],
         conn[c] # "none", io'[c] = "turn" => io[c] = "turn",
         UNCHANGED r2c \/ (r2c[c] # <<>> /\ Received(c) /\ Head(r2c[c]).type \notin Promises) \/ Die(c),
         UNCHANGED c2r \/ \E m \in LoginRequest : Send(c, m)
  PROVE  TableOK(c)'
<1>1. LocalStep(c) /\ r2c \in [Conns -> Seq(PacketToClient)] /\ c2r \in [Conns -> Seq(ClientPacket)]
      /\ conn \in [Conns -> ConnStates]
  BY LocalFacts
<1>2. UNCHANGED <<rooms, cid, relayQ, gameQ, g2r>>
  BY <1>1 DEF LocalStep, gameVars, relayVars
<1>3. KeepsTable(c)
  BY <1>2, RoomKeepsTable DEF KeepsTable
<1>4. PICK k \in {0, 1} : Left(c, k)
  BY QuietLeft
<1>5. \A at, i, p : At(c, at, i, p)' => \E at2, i2 : At(c, at2, i2, p)
  BY <1>4 DEF Left
<1>6. OneOf(c, {"ALLOW_PLAY_GAME"})'
  BY <1>4, LeftKeepsOne DEF TableOK
<1>7. ASSUME InTime(c)' PROVE InTime(c) /\ KeepsPromises(c)
  <2>1. CASE io[c] = "turn"
    BY <2>1, ServedAtTurn DEF InTime, KeepsPromises, Bears
  <2>2. CASE io[c] # "turn"
    <3>1. Alive(c)' /\ Alive(c)
      BY <1>1, <1>7, <2>2 DEF InTime, LocalStep, Alive
    <3>2. ~Die(c)
      BY <1>1, <3>1 DEF Die, Alive
    <3>3. \A i \in DOMAIN r2c[c] : r2c[c][i].type \in Promises => \E j \in DOMAIN r2c'[c] : r2c'[c][j] = r2c[c][i]
      <4>1. CASE UNCHANGED r2c
        BY <4>1
      <4>2. CASE r2c[c] # <<>> /\ Received(c) /\ Head(r2c[c]).type \notin Promises
        <5>1. r2c'[c] = Tail(r2c[c]) /\ r2c[c] \in Seq(PacketToClient)
          BY <1>1, <4>2 DEF Received
        <5>2. RestStays(r2c[c], r2c'[c]) /\ Head(r2c[c]) = r2c[c][1]
          BY <4>2, <5>1, StaysFacts, QueuePositions
        <5> QED BY <4>2, <5>2 DEF RestStays
      <4> QED BY <3>2, <4>1, <4>2
    <3>4. ASSUME NEW at, NEW i, NEW p, At(c, at, i, p), p.type \in Promises PROVE \E at2, i2 : At(c, at2, i2, p)'
      <4>1. at \notin {"c2r", "over", "gameQ"}
        BY <3>4, AtFacts DEF Promises, GameRequests, RoomRequests
      <4>2. CASE at = "r2c"
        <5>1. i \in DOMAIN r2c[c] /\ p = r2c[c][i] /\ p.type \in GameReplies
          BY <3>4, <4>2 DEF At
        <5>2. PICK j \in DOMAIN r2c'[c] : r2c'[c][j] = p
          BY <3>3, <3>4, <5>1
        <5>3. At(c, "r2c", j, p)'
          BY <5>1, <5>2 DEF At
        <5> QED BY <5>3
      <4>3. CASE at # "r2c"
        <5>1. At(c, at, i, p)'
          BY <1>2, <3>4, <4>1, <4>3 DEF At
        <5> QED BY <5>1
      <4> QED BY <4>2, <4>3
    <3>5. KeepsPromises(c)
      BY <3>4 DEF KeepsPromises, Bears
    <3> QED BY <3>1, <3>5 DEF InTime
  <2> QED BY <2>1, <2>2
<1> QED BY <1>3, <1>5, <1>6, <1>7, TableStays

\* The choice of a player leaves it the cards it says it holds.
LEMMA FinishTurnTable ==
  ASSUME DInv, DInv', RoomsInv, MaxPlayers > 1, NEW c \in Conns, ClientStep(FinishTurn(c)), TableOK(c)
  PROVE  TableOK(c)'
<1>1. ClientStep(UserStep(c)) /\ LocalStep(c) /\ ClientTypeOK /\ c2r \in [Conns -> Seq(ClientPacket)]
  BY LocalFacts DEF ClientStep, UserStep
<1>2. UNCHANGED <<room, others, rooms, cid, relayQ, gameQ, g2r>> /\ io[c] = "turn"
  BY <1>1 DEF ClientStep, FinishTurn, LocalStep, gameVars, relayVars
<1>3. Plays(c) /\ Served(c) /\ (\A at, i, p : ~At(c, at, i, p)) /\ me[c] \in Me
  BY <1>2, ServedAtTurn, PlayerFacts
<1>4. PICK chosen \in DiscardChoices :
        \/ \E p \in Discard(me[c], chosen) :
             /\ me' = [me EXCEPT ![c] = p]
             /\ Send(c, [type |-> "PlAYER_TURN_OVER", id |-> me[c].id, room |-> room[c],
                         discarded |-> Size(chosen)])
             /\ ShowUI(c, p)
        \/ Die(c) /\ UNCHANGED <<me, io, c2r>>
  BY DEF ClientStep, FinishTurn
<1>5. HandServed(c)'
  <2>1. CASE UNCHANGED me
    BY <1>3, <2>1 DEF Served, HandServed
  <2>2. ASSUME NEW p \in Discard(me[c], chosen), me' = [me EXCEPT ![c] = p] PROVE HandServed(c)'
    <3>1. p.num <= Size(p.hand)
      BY <1>3, DiscardLeaves DEF Served, HandServed
    <3>2. me'[c] = p
      BY <1>1, <2>2 DEF ClientTypeOK
    <3> QED BY <3>1, <3>2 DEF HandServed
  <2> QED BY <1>4, <2>1, <2>2
<1>6. OthersServed(c)' /\ (Plays(c)' <=> Plays(c))
  <2>1. Table(c)' = Table(c) /\ (Plays(c)' <=> Plays(c))
    BY <1>2, RoomKeepsTable
  <2> QED BY <1>2, <1>3, <2>1 DEF Served, OthersServed, Known
<1>7. ASSUME NEW at, NEW i, NEW q, At(c, at, i, q)' PROVE q.type \notin Promises \cup {"PLAYER_TURN"}
  <2>1. at # "c2r" => at = "r2c"
    BY <1>2, <1>3, <1>7 DEF At
  <2>2. CASE at = "c2r"
    BY <1>7, <2>2 DEF At, GameRequests, RoomRequests, Promises
  <2>3. CASE at = "r2c"
    <3>1. UNCHANGED r2c \/ Die(c)
      BY <1>4 DEF ShowUI
    <3>2. i \in DOMAIN r2c'[c] /\ r2c'[c][i].type \in GameReplies
      BY <1>7, <2>3 DEF At
    <3>3. r2c'[c] = r2c[c]
      <4>1. Die(c) => r2c'[c] = <<>>
        BY LocalFacts, <1>1 DEF Die
      <4> QED BY <3>1, <3>2, <4>1
    <3>4. At(c, "r2c", i, r2c[c][i])
      BY <3>2, <3>3 DEF At
    <3> QED BY <1>3, <3>4
  <2> QED BY <2>1, <2>2, <2>3
<1> QED BY <1>3, <1>5, <1>6, <1>7 DEF TableOK, AllNews, News, OneOf, Promises, Promised

\* A packet of the table is taken from the link; the other one stays on its way.
LEMMA TakenTable ==
  ASSUME DInv, DInv', RoomsInv, NEW c \in Conns, ClientStep(HandleIO(c)), NEW type \in Promises,
         Receive(c, {type}), Received(c), UNCHANGED <<conn, c2r, io, room>>, TableOK(c)
  PROVE  /\ ClientTypeOK /\ Left(c, 1) /\ me[c] # Nobody /\ cid'[c] = cid[c]
         /\ Head(r2c[c]).type = type /\ Head(r2c[c]) \in PacketToClient
         /\ At(c, "r2c", 1, Head(r2c[c])) /\ News(c, Head(r2c[c]))
         /\ Plays(c) /\ Plays(c)' /\ Table(c)' = Table(c)
         /\ \A t \in Promises \ {type} : Bears(c, t) => Bears(c, t)'
         /\ OneOf(c, {"ALLOW_PLAY_GAME"})' /\ (InTime(c)' <=> InTime(c))
<1>1. {type} \subseteq GameReplies
  BY DEF Promises, GameReplies
<1>2. /\ LocalStep(c) /\ ClientTypeOK /\ Left(c, 1) /\ me[c] # Nobody
      /\ Head(r2c[c]).type = type /\ Head(r2c[c]) \in PacketToClient /\ Holds(c, Head(r2c[c]))
  BY <1>1, GameReceived
<1>3. UNCHANGED <<rooms, cid, relayQ, gameQ, g2r>>
  BY <1>2 DEF LocalStep, gameVars, relayVars
<1>4. r2c[c] # <<>>
  BY DEF Receive
<1>5. At(c, "r2c", 1, Head(r2c[c]))
  BY <1>1, <1>2, <1>4, ReceivedLeft
<1>6. News(c, Head(r2c[c]))
  BY <1>5 DEF TableOK, AllNews
<1>7. Plays(c)
  BY <1>2 DEF Holds, Promises
<1>8. Plays(c)' /\ Table(c)' = Table(c)
  BY <1>3, <1>7, RoomKeepsTable
<1>9. \A t \in Promises \ {type} : Bears(c, t) => Bears(c, t)'
  <2> SUFFICES ASSUME NEW at, NEW i, NEW p, At(c, at, i, p), p.type # type PROVE \E at2, i2 : At(c, at2, i2, p)'
    BY DEF Bears
  <2>1. CASE at = "r2c"
    <3>1. i \in DOMAIN r2c[c] /\ p = r2c[c][i] /\ p.type \in GameReplies
      BY <2>1 DEF At
    <3>2. r2c'[c] = Tail(r2c[c]) /\ r2c[c] \in Seq(PacketToClient)
      BY LocalFacts DEF Received
    <3>3. RestStays(r2c[c], r2c'[c]) /\ Head(r2c[c]) = r2c[c][1]
      BY <1>4, <3>2, StaysFacts, QueuePositions
    <3>4. PICK j \in DOMAIN r2c'[c] : r2c'[c][j] = p
      BY <1>2, <3>1, <3>3 DEF RestStays
    <3>5. At(c, "r2c", j, p)'
      BY <3>1, <3>4 DEF At
    <3> QED BY <3>5
  <2>2. CASE at # "r2c"
    <3>1. At(c, at, i, p)'
      BY <1>3, <2>2 DEF At
    <3> QED BY <3>1
  <2> QED BY <2>1, <2>2
<1>10. OneOf(c, {"ALLOW_PLAY_GAME"})'
  BY <1>2, LeftKeepsOne DEF TableOK
<1>11. InTime(c)' <=> InTime(c)
  BY DEF InTime, Alive
<1> QED BY <1>2, <1>3, <1>5, <1>6, <1>7, <1>8, <1>9, <1>10, <1>11

LEMMA HandlePlayGameTable ==
  ASSUME DInv, DInv', RoomsInv, NEW c \in Conns, ClientStep(HandlePlayGame(c)), TableOK(c)
  PROVE  TableOK(c)'
<1>1. /\ ClientStep(HandleIO(c)) /\ Receive(c, {"ALLOW_PLAY_GAME"}) /\ Received(c)
      /\ UNCHANGED <<conn, c2r, io, room, me>>
  BY DEF ClientStep, HandleIO, HandlePlayGame, ReceivedQuietly
<1>2. "ALLOW_PLAY_GAME" \in Promises
  BY DEF Promises
<1>3. /\ ClientTypeOK /\ Left(c, 1) /\ cid'[c] = cid[c]
      /\ Head(r2c[c]).type = "ALLOW_PLAY_GAME" /\ Head(r2c[c]) \in PacketToClient
      /\ At(c, "r2c", 1, Head(r2c[c])) /\ News(c, Head(r2c[c]))
      /\ Plays(c) /\ Plays(c)' /\ Table(c)' = Table(c)
      /\ (Bears(c, "DEAL_CARDS") => Bears(c, "DEAL_CARDS")')
      /\ OneOf(c, {"ALLOW_PLAY_GAME"})' /\ (InTime(c)' <=> InTime(c))
  BY <1>1, <1>2, TakenTable DEF Promises
<1>4. PICK ids : ids = Head(r2c[c]).others
  OBVIOUS
<1>5. others[c] = <<>> /\ NamesTable(c, ids) /\ ids \in Seq(Users)
  BY <1>3, <1>4, PacketToClientKinds DEF News
<1>6. others'[c] = [i \in DOMAIN ids |-> [id |-> ids[i], num |-> HandSize]]
  <2>1. others'[c] = others[c] \o [i \in DOMAIN ids |-> [id |-> ids[i], num |-> HandSize]]
    BY <1>3, <1>4 DEF ClientStep, HandlePlayGame, ClientTypeOK
  <2>2. [i \in DOMAIN ids |-> [id |-> ids[i], num |-> HandSize]] \in Seq([id : Users, num : {HandSize}])
    <3>1. DOMAIN ids = 1 .. Len(ids) /\ Len(ids) \in Nat /\ \A i \in DOMAIN ids : ids[i] \in Users
      BY <1>5, QueueTypes, QueuePositions
    <3> QED BY <3>1
  <2> QED BY <1>5, <2>1, <2>2
<1>7. OthersServed(c)'
  <2>1. Len(others'[c]) = MaxPlayers - 1
    BY <1>5, <1>6 DEF NamesTable
  <2>2. \A u \in Table(c) : \E j \in DOMAIN others'[c] : others'[c][j].id = u
    BY <1>5, <1>6 DEF NamesTable
  <2> QED BY <1>3, <2>1, <2>2 DEF OthersServed, Known
<1>8. HandServed(c)' <=> HandServed(c)
  BY <1>1 DEF HandServed
<1>9. ASSUME NEW at, NEW i, NEW p, At(c, at, i, p)' PROVE News(c, p)'
  <2>1. p.type # "ALLOW_PLAY_GAME"
    <3>1. At(c, at, IF at = "r2c" THEN i + 1 ELSE i, p) /\ i \in Int /\ 1 <= i
      BY <1>3, <1>9, AtNext DEF Left
    <3>2. p.type = "ALLOW_PLAY_GAME" => at = "r2c" /\ (IF at = "r2c" THEN i + 1 ELSE i) = 1
      BY <1>3, <3>1 DEF TableOK, OneOf
    <3> QED BY <3>1, <3>2
  <2>2. News(c, p)
    BY <1>3, <1>9 DEF Left, TableOK, AllNews
  <2> QED BY <1>3, <2>1, <2>2 DEF News
<1> QED BY <1>3, <1>7, <1>8, <1>9 DEF TableOK, AllNews, Promised

LEMMA HandleDealCardsTable ==
  ASSUME DInv, DInv', RoomsInv, NEW c \in Conns, ClientStep(HandleDealCards(c)), TableOK(c)
  PROVE  TableOK(c)' /\ UNCHANGED conn
<1>1. /\ ClientStep(HandleIO(c)) /\ Receive(c, {"DEAL_CARDS"}) /\ ClientTypeOK
      /\ UNCHANGED <<c2r, io, room, others>> /\ r2c[c] # <<>>
  BY LocalFacts DEF ClientStep, HandleIO, HandleDealCards, ReceivedQuietly, Receive
<1>2. PICK p : p = Head(r2c[c])
  OBVIOUS
<1>3. p.type = "DEAL_CARDS" /\ p \in PacketToClient /\ At(c, "r2c", 1, p)
  <2>1. p = r2c[c][1] /\ 1 \in DOMAIN r2c[c] /\ p \in PacketToClient /\ p.type = "DEAL_CARDS"
    BY <1>1, <1>2, FirstReceived DEF Receive
  <2> QED BY <2>1 DEF At, GameReplies
<1>4. HandSize <= Size(p.cards) /\ p.cards \in Bag
  BY <1>3, PacketToClientKinds DEF TableOK, AllNews, News
<1>5. me[c] # Nobody /\ me[c] \in Me
  BY <1>1, <1>3 DEF RoomsInv, Course, PacketsOK, ClientTypeOK
<1>6. me[c].num <= Size(p.cards)
  <2>1. me[c].num \in Int /\ me[c].num <= HandSize
    BY <1>5, ClientAssumption DEF Me
  <2> QED BY <1>4, <2>1, SizeType, NetworkAssumption
<1>7. /\ me' = [me EXCEPT ![c] = [me[c] EXCEPT !.hand = p.cards]]
      /\ Received(c) /\ UNCHANGED conn
  <2>1. ~(me[c].num > Size(p.cards))
    <3>1. me[c].num \in Int /\ Size(p.cards) \in Int
      BY <1>4, <1>5, SizeType, ClientAssumption DEF Me
    <3> QED BY <1>6, <3>1
  <2> QED BY <1>2, <1>5, <2>1 DEF ClientStep, HandleDealCards, ReceivedQuietly
<1>8. "DEAL_CARDS" \in Promises
  BY DEF Promises
<1>9. /\ Left(c, 1) /\ cid'[c] = cid[c] /\ Plays(c) /\ Plays(c)' /\ Table(c)' = Table(c)
      /\ (Bears(c, "ALLOW_PLAY_GAME") => Bears(c, "ALLOW_PLAY_GAME")')
      /\ OneOf(c, {"ALLOW_PLAY_GAME"})' /\ (InTime(c)' <=> InTime(c))
  BY <1>1, <1>7, <1>8, TakenTable DEF Promises
<1>10. HandServed(c)'
  <2>1. me'[c].num = me[c].num /\ me'[c].hand = p.cards
    BY <1>1, <1>5, <1>7 DEF ClientTypeOK, Me
  <2> QED BY <1>6, <2>1 DEF HandServed
<1>11. OthersServed(c)' <=> OthersServed(c)
  BY <1>1, <1>9 DEF OthersServed, Known
<1>12. \A q : News(c, q)' <=> News(c, q)
  BY <1>1, <1>9 DEF News, NamesTable
<1>13. AllNews(c)'
  BY <1>9, <1>12 DEF TableOK, AllNews, Left
<1> QED BY <1>7, <1>9, <1>10, <1>11, <1>13 DEF TableOK, Promised

\* Whose turn begins is ready for it, and knows who played before.
LEMMA HandlePlayerTurnTable ==
  ASSUME DInv, DInv', RoomsInv, MaxPlayers > 1, NEW c \in Conns, ClientStep(HandlePlayerTurn(c)), TableOK(c)
  PROVE  TableOK(c)' /\ UNCHANGED conn
<1>1. /\ ClientStep(HandleIO(c)) /\ ClientTypeOK /\ LocalStep(c) /\ r2c[c] # <<>> /\ Alive(c)
      /\ Receive(c, {"PLAYER_TURN"}) /\ UNCHANGED <<c2r, me, room>>
  BY LocalFacts DEF ClientStep, HandleIO, HandlePlayerTurn, ReceivedQuietly, Receive
<1>2. PICK p : p = Head(r2c[c])
  OBVIOUS
<1>3. p.type = "PLAYER_TURN" /\ p \in PacketToClient /\ At(c, "r2c", 1, p)
  <2>1. p = r2c[c][1] /\ 1 \in DOMAIN r2c[c] /\ p \in PacketToClient /\ p.type = "PLAYER_TURN"
    BY <1>1, <1>2, FirstReceived DEF Receive
  <2> QED BY <2>1 DEF At, GameReplies
<1>4. Plays(c) /\ Served(c) /\ me[c] # Nobody /\ me[c] \in Me
  BY <1>1, <1>3, ServedAtOffer, PlayerFacts
<1>5. p.previous = Nobody \/ Known(c, p.previous) # {}
  BY <1>3, <1>4 DEF TableOK, AllNews, News, Served, OthersServed
<1>6. ~(me[c].num > Size(me[c].hand))
  <2>1. me[c].num \in Int /\ Size(me[c].hand) \in Int
    BY <1>4, SizeType, ClientAssumption DEF Me
  <2> QED BY <1>4, <2>1 DEF Served, HandServed
<1>7. /\ Received(c) /\ UNCHANGED conn
      /\ IF p.previous = Nobody THEN UNCHANGED others ELSE SeesDiscard(c, p.previous, p.discarded)
  BY <1>2, <1>4, <1>5, <1>6 DEF ClientStep, HandlePlayerTurn, ReceivedQuietly
<1>8. \A at, i, q : ~At(c, at, i, q)'
  <2>1. {"PLAYER_TURN"} \subseteq GameReplies /\ p.type \in Tokens
    BY <1>3 DEF GameReplies, Tokens, TurnTypes
  <2>2. \A at, i, q : At(c, at, i, q)' /\ i \in Int /\ 1 <= i => q.type \notin Tokens /\ ~(MaxPlayers > 1)
    BY <1>1, <1>2, <1>7, <2>1, GameReceived
  <2> QED BY <2>2, AtNext
<1>9. Len(others'[c]) = Len(others[c]) /\ \A u : Known(c, u)' = Known(c, u)
  <2>1. CASE UNCHANGED others
    BY <2>1 DEF Known
  <2>2. CASE SeesDiscard(c, p.previous, p.discarded)
    <3>1. PICK num : others' = [others EXCEPT ![c] = Lowered(c, p.previous, num)]
      BY <2>2 DEF SeesDiscard
    <3>2. others'[c] = Lowered(c, p.previous, num) /\ others[c] \in Seq(OtherPlayer)
      BY <1>1, <3>1 DEF ClientTypeOK
    <3>3. DOMAIN others[c] = 1 .. Len(others[c]) /\ Len(others[c]) \in Nat
      BY <3>2
    <3>4. DOMAIN others'[c] = DOMAIN others[c] /\ \A i \in DOMAIN others[c] : others'[c][i].id = others[c][i].id
      BY <3>2 DEF Lowered, Known
    <3>5. others'[c] \in Seq(OtherPlayer)
      BY DEF DInv, IInv, TypeOK, ClientTypeOK
    <3>6. Len(others'[c]) = Len(others[c])
      BY <3>3, <3>4, <3>5, LenProperties
    <3> QED BY <3>4, <3>6 DEF Known
  <2> QED BY <1>7, <2>1, <2>2
<1>10. (Plays(c)' <=> Plays(c)) /\ Table(c)' = Table(c)
  BY <1>1, RoomKeepsTable DEF LocalStep, gameVars, relayVars
<1>11. HandServed(c)' /\ OthersServed(c)'
  BY <1>1, <1>4, <1>9, <1>10 DEF Served, HandServed, OthersServed
<1> QED BY <1>4, <1>7, <1>8, <1>10, <1>11 DEF TableOK, AllNews, OneOf, Promised

\* Who connects, logs in or asks for a room has no seat yet.
LEMMA OutsiderHasNoSeat ==
  ASSUME DInv, RoomsInv, NEW c \in Conns,
         \/ ClientStep(HostOrJoin(c)) \/ ClientStep(Connect(c)) \/ ClientStep(HandleAcceptLogIn(c))
  PROVE  ~Seated(cid[c])
<1>1. CASE ClientStep(HostOrJoin(c))
  BY <1>1 DEF ClientStep, HostOrJoin, RoomsInv, Course, ToldOK
<1>2. CASE ClientStep(Connect(c))
  <2>1. me[c] = Nobody
    BY <1>2, ConnFacts, NetworkAssumption DEF ClientStep, Connect
  <2> QED BY <2>1, NoPlayerYet
<1>3. CASE ClientStep(HandleAcceptLogIn(c))
  <2>1. r2c[c] # <<>> /\ Head(r2c[c]).type = "ACCEPT_LOG_IN"
    BY <1>3 DEF ClientStep, HandleAcceptLogIn, Receive
  <2>2. r2c[c][1].type \in LoginReplies /\ 1 \in DOMAIN r2c[c]
    BY <2>1, FirstReceived DEF LoginReplies
  <2>3. me[c] = Nobody
    BY <2>2 DEF DInv, OneLoginEach, LoginAt
  <2> QED BY <2>3, NoPlayerYet
<1> QED BY <1>1, <1>2, <1>3

LEMMA OutsiderStepTable ==
  ASSUME DInv, DInv', RoomsInv, RoomsInv', NEW c \in Conns,
         \/ ClientStep(HostOrJoin(c)) \/ ClientStep(Connect(c)) \/ ClientStep(HandleAcceptLogIn(c)),
         TableOK(c)
  PROVE  TableOK(c)'
<1>1. ClientStep(UserStep(c)) \/ ClientStep(HandleIO(c))
  BY DEF ClientStep, UserStep, HandleIO
<1>2. LocalStep(c) /\ UNCHANGED others /\ UNCHANGED <<rooms, cid>>
  BY <1>1, LocalFacts DEF ClientStep, HostOrJoin, Connect, HandleAcceptLogIn, LocalStep, gameVars, relayVars
<1>3. ~Seated(cid[c])
  BY OutsiderHasNoSeat
<1>4. ~Plays(c) /\ ~Plays(c)'
  BY <1>2, <1>3 DEF Plays, SitsIn, Seated, Seats
<1> QED BY <1>2, <1>4, OutsiderTableNext DEF TableOK

LEMMA ClientTable ==
  ASSUME DInv, DInv', RoomsInv, RoomsInv', MaxPlayers > 1,
         NEW c \in Conns, ClientStep(UserStep(c)) \/ ClientStep(HandleIO(c)), TableOK(c)
  PROVE  TableOK(c)'
<1>1. ClientTypeOK /\ LocalStep(c)
  BY LocalFacts
<1>2. CASE \/ ClientStep(HostOrJoin(c)) \/ ClientStep(Connect(c)) \/ ClientStep(HandleAcceptLogIn(c))
  BY <1>2, OutsiderStepTable
<1>3. CASE ClientStep(FinishTurn(c))
  BY <1>3, FinishTurnTable
<1>4. CASE ClientStep(HandlePlayGame(c)) \/ ClientStep(HandleDealCards(c)) \/ ClientStep(HandlePlayerTurn(c))
  BY <1>4, HandlePlayGameTable, HandleDealCardsTable, HandlePlayerTurnTable
<1>5. CASE \/ ClientStep(LogInOrRegister(c)) \/ ClientStep(WrongInput(c)) \/ ClientStep(Quit(c))
  <2>1. /\ UNCHANGED <<me, room, others>> /\ (io'[c] = "turn" => io[c] = "turn")
        /\ UNCHANGED r2c \/ Die(c)
        /\ conn[c] # "none"
    BY <1>1, <1>5 DEF ClientStep, LogInOrRegister, WrongInput, Quit, LeaveLoginPage, LeaveLobby, Alive,
                      clientVars, links, ClientTypeOK
  <2>2. UNCHANGED c2r \/ \E m \in LoginRequest : Send(c, m)
    BY <1>5, ClientAssumption DEF ClientStep, LogInOrRegister, WrongInput, Quit, LoginRequest, links
  <2> QED BY <2>1, <2>2, QuietTable
<1>6. CASE \/ ClientStep(HandleAcceptRegister(c)) \/ ClientStep(HandleRejectLogin(c))
           \/ ClientStep(HandleAllowRoom(c)) \/ ClientStep(HandleRejectRoom(c))
  <2>1. /\ UNCHANGED <<me, room, others, c2r>> /\ (io'[c] = "turn" => io[c] = "turn")
        /\ r2c[c] # <<>> /\ Received(c) /\ Head(r2c[c]).type \notin Promises
        /\ conn[c] # "none"
    BY <1>1, <1>6 DEF ClientStep, HandleAcceptRegister, HandleRejectLogin, HandleAllowRoom, HandleRejectRoom,
                      Receive, ReceivedQuietly, ShowPage, Alive, ClientTypeOK, Promises
  <2> QED BY <2>1, QuietTable
<1> QED BY <1>2, <1>3, <1>4, <1>5, <1>6 DEF ClientStep, UserStep, HandleIO

(***************************************************************************)
(* The game server.                                                        *)
(***************************************************************************)

\* It sends one packet of a kind where there was none, or none.
LEMMA GameKeepsOne ==
  ASSUME DInv, RoomsInv, GameStep(HandleGamePacket), OnlyAppends, NEW c \in Conns, NEW types, OneOf(c, types),
         \A i, p : Sent(c, i, p) => p.type \notin types
  PROVE  OneOf(c, types)'
<1> SUFFICES ASSUME NEW at, NEW i, NEW p, NEW at2, NEW i2, NEW p2,
                    At(c, at, i, p)', At(c, at2, i2, p2)', p.type \in types, p2.type \in types
             PROVE  at = at2 /\ i = i2
  BY DEF OneOf
<1>1. \A a, j, q : At(c, a, j, q)' /\ q.type \in types => At(c, a, IF a = "gameQ" THEN j + 1 ELSE j, q)
  BY GameFacts DEF OnlyAppends
<1>2. at = at2 /\ (IF at = "gameQ" THEN i + 1 ELSE i) = (IF at2 = "gameQ" THEN i2 + 1 ELSE i2)
  BY <1>1 DEF OneOf
<1>3. at = "gameQ" => i \in Int
  BY GameParts DEF At
<1>4. at2 = "gameQ" => i2 \in Int
  BY GameParts DEF At
<1> QED BY <1>2, <1>3, <1>4

\* A player whose table stays, and what goes out to it.
LEMMA GameKeepsTable ==
  ASSUME DInv, RoomsInv, GameStep(HandleGamePacket), OnlyAppends, NEW c \in Conns, TableOK(c),
         (Plays(c)' <=> Plays(c)) /\ Table(c)' = Table(c),
         \A i, p : Sent(c, i, p) => News(c, p) /\ p.type # "ALLOW_PLAY_GAME"
  PROVE  TableOK(c)'
<1>1. UNCHANGED <<cid, me, io, room, others, conn>>
  BY GameParts DEF clientVars, relayVars
<1>2. KeepsTable(c)
  BY <1>1 DEF KeepsTable
<1>3. \A p : News(c, p) => News(c, p)'
  BY <1>2 DEF KeepsTable, News, NamesTable
<1>4. \A at, i, p : At(c, at, i, p)' => News(c, p)' \/ \E at2, i2 : At(c, at2, i2, p)
  BY <1>3, GameFacts DEF OnlyAppends
<1>5. OneOf(c, {"ALLOW_PLAY_GAME"})'
  BY GameKeepsOne DEF TableOK
<1>6. InTime(c)' => InTime(c)
  BY <1>1 DEF InTime, Alive
<1>7. KeepsPromises(c)
  <2>1. ASSUME NEW at, NEW i, NEW p, At(c, at, i, p), p.type \in Promises PROVE \E j : At(c, at, j, p)'
    <3>1. at # "gameQ"
      BY <2>1, AtFacts DEF Promises, GameRequests, RoomRequests
    <3> QED BY <2>1, <3>1, GameStays
  <2> QED BY <2>1 DEF KeepsPromises, Bears
<1> QED BY <1>2, <1>4, <1>5, <1>6, <1>7, TableStays

LEMMA RefusedTable ==
  ASSUME DInv, RoomsInv, GameStep(HandleGamePacket), RoomRefused(Head(gameQ)), NEW c \in Conns, TableOK(c)
  PROVE  TableOK(c)'
<1>1. PICK p \in GamePacket : p.type \in Rejections /\ g2r' = Append(g2r, p)
  BY DEF RoomRefused, Rejections
<1>2. OnlyAppends /\ \A i, q : Sent(c, i, q) => q = p
  BY <1>1, OneSent
<1>3. News(c, p) /\ p.type # "ALLOW_PLAY_GAME"
  BY <1>1 DEF News, Rejections
<1>4. UNCHANGED <<rooms, cid, room>>
  BY GameParts DEF RoomRefused, clientVars, relayVars
<1>5. (Plays(c)' <=> Plays(c)) /\ Table(c)' = Table(c)
  BY <1>4, RoomKeepsTable
<1> QED BY <1>2, <1>3, <1>5, GameKeepsTable

LEMMA TurnMoves ==
  ASSUME NEW n \in Nat, n > 1, NEW t \in 0 .. n - 1
  PROVE  (t + 1) % n # t
<1>1. CASE t + 1 = n
  <2>1. (t + 1) % n = 0
    BY <1>1
  <2> QED BY <1>1, <2>1
<1>2. CASE t + 1 < n
  <2>1. (t + 1) % n = t + 1
    BY <1>2
  <2> QED BY <2>1
<1> QED BY <1>1, <1>2

\* A player who still does not play.
LEMMA GameOutsiderTable ==
  ASSUME DInv, RoomsInv', GameStep(HandleGamePacket), NEW c \in Conns, TableOK(c), ~Plays(c), ~Plays(c)'
  PROVE  TableOK(c)'
<1>1. UNCHANGED others
  BY GameParts DEF clientVars
<1> QED BY <1>1, OutsiderTableNext DEF TableOK

\* The previous player is at the table of the next, and is another one.
LEMMA PassedTable ==
  ASSUME DInv, RoomsInv, RoomsInv', ~SharedAccount, MaxPlayers > 1, GameStep(HandleGamePacket),
         Head(gameQ).type = "PlAYER_TURN_OVER", TurnPassed(Head(gameQ)), NEW c \in Conns, TableOK(c)
  PROVE  TableOK(c)'
<1>1. PICK r, new : r = Head(gameQ).room /\ new = ChangeTurn(rooms[r])
  OBVIOUS
<1>2. PICK p \in GamePacket : /\ g2r' = Append(g2r, p) /\ p.type = "PLAYER_TURN"
                              /\ p.to = new.players[new.turn + 1].id /\ p.previous = Head(gameQ).id
  BY <1>1 DEF TurnPassed
<1>3. CanChangeTurn(r) /\ r \in RoomNames /\ rooms' = [rooms EXCEPT ![r] = new] /\ rooms \in [RoomNames -> Room]
  BY <1>1, GameParts DEF TurnPassed, GameTypeOK
<1>4. /\ new.turn = (rooms[r].turn + 1) % MaxPlayers /\ new.turn + 1 \in DOMAIN new.players /\ new \in Room
      /\ DOMAIN new.players = DOMAIN rooms[r].players /\ Len(new.players) = Len(rooms[r].players)
      /\ \A k \in DOMAIN new.players : new.players[k].id = rooms[r].players[k].id
  BY <1>1, <1>3, PassedSeats
<1>5. OnlyAppends /\ \A i, q : Sent(c, i, q) => q = p /\ cid[c] = p.to
  BY <1>2, OneSent DEF Sent
<1>6. UNCHANGED <<cid, room>>
  BY GameParts DEF clientVars, relayVars
<1>7. \A s \in RoomNames : Seats(s)' = Seats(s) /\ (IsFull(rooms[s])' <=> IsFull(rooms[s]))
  BY <1>3, <1>4 DEF Seats, IsFull
<1>8. Plays(c)' <=> Plays(c)
  BY <1>6, <1>7 DEF Plays, SitsIn
<1>9. CASE Plays(c)
  <2>1. Table(c)' = Table(c)
    BY <1>6, <1>7, <1>9 DEF Plays, SitsIn, Table
  <2>2. PICK c0 \in Conns : At(c0, "gameQ", 1, Head(gameQ))
    BY <1>5, GameFacts DEF OnlyAppends
  <2>3. cid[c0] = Head(gameQ).id /\ room[c0] = r /\ Holds(c0, Head(gameQ))
    BY <1>1, <2>2, Requested
  <2>4. cid[c0] \in Seats(r) /\ cid[c0] = rooms[r].players[rooms[r].turn + 1].id
    BY <2>3 DEF Holds, TurnTypes, HasTurn, Plays, SitsIn, HolderOfTurn
  <2>5. rooms[r].turn + 1 \in DOMAIN rooms[r].players /\ rooms[r].turn \in 0 .. MaxPlayers - 1
    <3>1. rooms[r] \in Room /\ rooms[r].turn \in 0 .. Len(rooms[r].players) - 1
      BY <1>3 DEF CanChangeTurn
    <3>2. rooms[r].players \in Seq(Player) /\ rooms[r].turn \in 0 .. MaxPlayers - 1
      BY <3>1 DEF Room
    <3>3. DOMAIN rooms[r].players = 1 .. Len(rooms[r].players) /\ Len(rooms[r].players) \in Nat
      BY <3>2, LenProperties
    <3> QED BY <3>1, <3>2, <3>3
  <2>6. new.turn # rooms[r].turn
    BY <1>4, <2>5, TurnMoves, GameAssumption
  <2>7. ASSUME p.to = cid[c0] PROVE FALSE
    <3>1. rooms[r].players[new.turn + 1].id = rooms[r].players[rooms[r].turn + 1].id
      BY <1>2, <1>4, <2>4, <2>7
    <3>2. new.turn + 1 = rooms[r].turn + 1
      BY <1>3, <1>4, <2>5, <3>1 DEF RoomsInv, SeatsOK
    <3>3. new.turn \in Int /\ rooms[r].turn \in Int
      BY <1>4, <2>5 DEF Room
    <3> QED BY <2>6, <3>2, <3>3
  <2>8. ASSUME NEW i, NEW q, Sent(c, i, q) PROVE News(c, q) /\ q.type # "ALLOW_PLAY_GAME"
    <3>1. q = p /\ cid[c] = p.to
      BY <1>5, <2>8
    <3>2. cid[c] \in Seats(r)
      BY <1>2, <1>4, <3>1 DEF Seats
    <3>3. room[c] = r
      BY <1>3, <3>2 DEF RoomsInv, SeatsOK
    <3>4. p.previous \in Table(c)
      BY <1>2, <2>3, <2>4, <2>7, <3>1, <3>3 DEF Table
    <3> QED BY <1>2, <3>1, <3>4 DEF News
  <2> QED BY <1>5, <1>8, <2>1, <2>8, GameKeepsTable
<1> QED BY <1>8, <1>9, GameOutsiderTable

\* The seats of a room that starts, and what its players are sent.
LEMMA StartTable ==
  ASSUME DInv, DInv', RoomsInv, RoomsInv', GameStep(HandleGamePacket), OnlyAppends,
         NEW r \in RoomNames, NEW new, rooms'[r] = new, IsFull(new), AllHold(new), Deals(g2r, g2r', new),
         NEW c \in Conns, TableOK(c), ~Plays(c), room[c] = r, NEW k \in DOMAIN new.players, cid[c] = new.players[k].id
  PROVE  TableOK(c)'
<1>1. UNCHANGED <<cid, me, room, others>>
  BY GameParts DEF clientVars, relayVars
<1>2. others'[c] = <<>>
  BY <1>1 DEF TableOK
<1>3. /\ Others(new)[k] = [type |-> "ALLOW_PLAY_GAME", to |-> cid[c], others |-> OtherIds(new.players, k)]
      /\ Hands(new)[k] = [type |-> "DEAL_CARDS", to |-> cid[c], cards |-> new.players[k].hand]
  BY DEF Others, Hands
<1>4. new.players \in Seq(Player) /\ Len(new.players) = MaxPlayers
  BY DEF DInv, IInv, TypeOK, GameTypeOK, Room, IsFull
<1>5. Table(c)' = {new.players[j].id : j \in DOMAIN new.players} \ {cid[c]}
  BY <1>1 DEF Table, Seats
<1>6. \A j \in DOMAIN new.players : new.players[j].id = cid[c] => j = k
  BY DEF RoomsInv, SeatsOK
<1>7. NamesTable(c, OtherIds(new.players, k))'
  <2>1. Len(OtherIds(new.players, k)) = MaxPlayers - 1
    BY <1>4, OtherIdsAll
  <2>2. ASSUME NEW u \in Table(c)' PROVE \E j \in DOMAIN OtherIds(new.players, k) : OtherIds(new.players, k)[j] = u
    <3>1. PICK i \in DOMAIN new.players : u = new.players[i].id /\ u # cid[c]
      BY <1>5, <2>2
    <3>2. i \in DOMAIN new.players \ {k}
      BY <3>1
    <3>3. PICK s : s = new.players
      OBVIOUS
    <3>4. s \in Seq(Player) /\ k \in DOMAIN s /\ i \in DOMAIN s \ {k}
      BY <1>4, <3>2, <3>3
    <3>5. \E j \in DOMAIN OtherIds(s, k) : OtherIds(s, k)[j] = s[i].id
      BY <3>4, OtherIdsAll
    <3> QED BY <3>1, <3>3, <3>5
  <2>3. PICK ids : ids = OtherIds(new.players, k)
    OBVIOUS
  <2>4. Len(ids) = MaxPlayers - 1 /\ \A u \in Table(c)' : \E j \in DOMAIN ids : ids[j] = u
    BY <2>1, <2>2, <2>3
  <2> QED BY <1>1, <2>3, <2>4 DEF NamesTable
<1>8. PICK x, y : x = TableAt(g2r, new, k) /\ y = HandAt(g2r, new, k)
  OBVIOUS
<1>9. x \in DOMAIN g2r' /\ g2r'[x] = Others(new)[k] /\ y \in DOMAIN g2r' /\ g2r'[y] = Hands(new)[k]
  BY <1>8 DEF Deals
<1>10. Bears(c, "ALLOW_PLAY_GAME")' /\ Bears(c, "DEAL_CARDS")'
  <2>1. PICK q, d : q = g2r'[x] /\ d = g2r'[y]
    OBVIOUS
  <2>2. q.type = "ALLOW_PLAY_GAME" /\ q.to = cid[c] /\ d.type = "DEAL_CARDS" /\ d.to = cid[c]
    BY <1>3, <1>9, <2>1
  <2>3. At(c, "g2r", x, q)' /\ At(c, "g2r", y, d)'
    BY <1>1, <1>9, <2>1, <2>2 DEF At
  <2> QED BY <2>2, <2>3 DEF Bears
<1>11. ASSUME NEW i, NEW q, Sent(c, i, q)
       PROVE  /\ q.type = "ALLOW_PLAY_GAME" => i = x /\ q.others = OtherIds(new.players, k)
              /\ q.type = "DEAL_CARDS" => HandSize <= Size(q.cards)
              /\ q.type = "PLAYER_TURN" => q.previous = Nobody
  <2>1. i \in DOMAIN g2r' /\ Len(g2r) < i /\ q = g2r'[i] /\ q.to = cid[c]
    BY <1>11 DEF Sent
  <2>2. ASSUME q.type = "ALLOW_PLAY_GAME" PROVE i = x /\ q.others = OtherIds(new.players, k)
    <3>1. PICK j \in DOMAIN new.players : i = TableAt(g2r, new, j)
      BY <2>1, <2>2 DEF Deals
    <3>2. q = Others(new)[j]
      BY <2>1, <3>1 DEF Deals
    <3>3. q.to = new.players[j].id
      BY <3>2 DEF Others
    <3>4. j = k
      BY <1>6, <2>1, <3>3
    <3> QED BY <1>3, <1>8, <3>1, <3>2, <3>4
  <2>3. ASSUME q.type = "DEAL_CARDS" PROVE HandSize <= Size(q.cards)
    <3>1. PICK j \in DOMAIN new.players : i = HandAt(g2r, new, j)
      BY <2>1, <2>3 DEF Deals
    <3>2. q = Hands(new)[j]
      BY <2>1, <3>1 DEF Deals
    <3>3. q.cards = new.players[j].hand
      BY <3>2 DEF Hands
    <3> QED BY <3>3 DEF AllHold
  <2>4. q.type = "PLAYER_TURN" => q.previous = Nobody
    BY <2>1 DEF Deals
  <2> QED BY <2>2, <2>3, <2>4
<1>12. \A at, i, q : At(c, at, i, q) => q.type \notin {"ALLOW_PLAY_GAME", "DEAL_CARDS", "PLAYER_TURN"}
  BY DEF RoomsInv, Course, PacketsOK, Holds, TurnTypes, HasTurn
<1>13. \A at, i, q : At(c, at, i, q)' /\ q.type \in {"ALLOW_PLAY_GAME", "DEAL_CARDS", "PLAYER_TURN"} =>
         at = "g2r" /\ Sent(c, i, q)
  BY <1>12, GameFacts DEF OnlyAppends
<1>14. AllNews(c)'
  <2>1. ASSUME NEW at, NEW i, NEW q, At(c, at, i, q)' PROVE News(c, q)'
    <3>1. q.type = "ALLOW_PLAY_GAME" => NamesTable(c, q.others)'
      <4>1. q.type = "ALLOW_PLAY_GAME" => q.others = OtherIds(new.players, k)
        BY <1>11, <1>13, <2>1
      <4> QED BY <1>7, <4>1 DEF NamesTable
    <3> QED BY <1>2, <1>11, <1>13, <2>1, <3>1 DEF News
  <2> QED BY <2>1 DEF AllNews
<1>15. OneOf(c, {"ALLOW_PLAY_GAME"})'
  BY <1>11, <1>13 DEF OneOf
<1>16. Plays(c)'
  <2>1. cid'[c] \in Seats(r)'
    BY <1>1 DEF Seats
  <2> QED BY <1>1, <2>1 DEF Plays, SitsIn
<1> QED BY <1>10, <1>14, <1>15, <1>16 DEF TableOK, Promised

LEMMA EnteredTable ==
  ASSUME DInv, DInv', RoomsInv, RoomsInv', GameStep(HandleGamePacket),
         Head(gameQ).type \in RoomRequests, Head(gameQ).room \in RoomNames,
         NEW rm, NEW new, NEW p, RoomEntered(Head(gameQ), rm, new, p), NEW c \in Conns, TableOK(c)
  PROVE  TableOK(c)'
<1>1. PICK r, n : r = Head(gameQ).room /\ n = Len(rooms[r].players)
  OBVIOUS
<1>2. GameTypeOK /\ g2r \in Seq(GamePacket) /\ g2r' \in Seq(GamePacket)
  BY GameParts DEF IInv, TypeOK, LinksTypeOK
<1>3. /\ rooms'[r] = new /\ (\A s \in RoomNames \ {r} : rooms'[s] = rooms[s]) /\ ~IsFull(rooms[r])
      /\ n \in Nat /\ DOMAIN new.players = 1 .. n + 1
      /\ new.players[n + 1].id = Head(gameQ).id /\ new.host = new.players[1].id
  BY <1>1, <1>2, EnteredRoom
<1>4. OnlyAppends /\ \E k \in Int : GoesOut(Head(gameQ), new, p, k)
  BY <1>2, EnteredAppends, EnteredPackets
<1>5. UNCHANGED <<cid, room>>
  BY GameParts DEF clientVars, relayVars
<1>6. ASSUME NEW i, NEW q, Sent(c, i, q) PROVE room[c] = r
  <2>1. PICK k \in Int : GoesOut(Head(gameQ), new, p, k)
    BY <1>4
  <2>2. 1 \in 1 .. n + 1 /\ n + 1 \in 1 .. n + 1
    BY <1>3
  <2>3. \E j \in DOMAIN new.players : cid[c] = new.players[j].id
    BY <1>3, <1>6, <2>1, <2>2 DEF GoesOut
  <2>4. cid'[c] \in Seats(r)'
    BY <1>3, <1>5, <2>3 DEF Seats
  <2> QED BY <1>1, <1>5, <2>4 DEF RoomsInv, SeatsOK
<1>7. Plays(c) => room[c] # r
  BY <1>3 DEF Plays
<1>8. CASE room[c] # r /\ Plays(c)
  <2>1. rooms'[room[c]] = rooms[room[c]]
    BY <1>3, <1>8 DEF Plays, SitsIn
  <2>2. (Plays(c)' <=> Plays(c)) /\ Table(c)' = Table(c)
    BY <1>5, <2>1 DEF Plays, SitsIn, Table, Seats, IsFull
  <2> QED BY <1>4, <1>6, <1>8, <2>2, GameKeepsTable
<1>9. CASE ~Plays(c) /\ ~Plays(c)'
  BY <1>9, GameOutsiderTable
<1>10. CASE ~Plays(c) /\ Plays(c)'
  <2>1. room[c] = r
    <3> SUFFICES ASSUME room[c] # r PROVE FALSE
      OBVIOUS
    <3>1. rooms'[room[c]] = rooms[room[c]]
      BY <1>3, <1>5, <1>10 DEF Plays, SitsIn
    <3> QED BY <1>5, <1>10, <3>1 DEF Plays, SitsIn, Seats, IsFull
  <2>2. IsFull(new) /\ \E k \in DOMAIN new.players : cid[c] = new.players[k].id
    BY <1>3, <1>5, <1>10, <2>1 DEF Plays, SitsIn, Seats, IsFull
  <2>3. AllHold(new) /\ Deals(g2r, g2r', new)
    BY <2>2 DEF RoomEntered
  <2> QED BY <1>1, <1>3, <1>4, <1>10, <2>1, <2>2, <2>3, StartTable
<1> QED BY <1>7, <1>8, <1>9, <1>10

LEMMA NextTable ==
  ASSUME TurnInv, TurnInv', MaxPlayers > 1, [Next]_vars, TableInv
  PROVE  TableInv'
<1> SUFFICES ASSUME NEW c \in Conns PROVE TableOK(c)'
  BY DEF TableInv
<1> USE DEF TurnInv
<1>1. TableOK(c)
  BY DEF TableInv
<1>2. ASSUME NEW d \in Conns, ClientStep(UserStep(d)) \/ ClientStep(HandleIO(d)) PROVE TableOK(c)'
  <2>1. CASE d = c
    BY <1>1, <1>2, <2>1, ClientTable
  <2>2. CASE d # c
    <3>1. LocalStep(d)
      BY <1>2, LocalFacts
    <3>2. /\ UNCHANGED <<rooms, cid, relayQ, gameQ, g2r>>
          /\ me'[c] = me[c] /\ room'[c] = room[c] /\ others'[c] = others[c] /\ io'[c] = io[c] /\ conn'[c] = conn[c]
          /\ c2r'[c] = c2r[c] /\ r2c'[c] = r2c[c]
      BY <2>2, <3>1 DEF LocalStep, gameVars, relayVars
    <3> QED BY <1>1, <3>2, StillTable
  <2> QED BY <2>1, <2>2
<1>3. CASE LoginStep(HandleLoginPacket) \/ UNCHANGED vars
  <2>1. UNCHANGED <<me, room, others, io, rooms, conn, cid, c2r, r2c, relayQ, gameQ, g2r>>
    BY <1>3 DEF LoginStep, HandleLoginPacket, HandleLogIn, HandleRegister, vars, links, relayVars, gameVars, clientVars
  <2> QED BY <1>1, <2>1, StillTable
<1>4. CASE GameStep(HandleGamePacket)
  <2>1. Head(gameQ).type = "PlAYER_TURN_OVER" => ~TurnFatal(Head(gameQ))
    BY <1>4, TurnIsPossible
  <2> QED BY <1>1, <1>4, <2>1, GameEffects, RefusedTable, EnteredTable, PassedTable
<1>5. CASE \/ RelayStep(HandleRelayPacket) \/ RelayStep(ReceiveFromLogin) \/ RelayStep(ReceiveFromGame)
           \/ \E d \in Conns : RelayStep(Accept(d)) \/ RelayStep(RelayWorker(d))
  BY <1>1, <1>5, RelayKeepsTable
<1> QED BY <1>2, <1>3, <1>4, <1>5, ServerStands DEF Next

LEMMA InitTable ==
  ASSUME Init
  PROVE  TableInv
<1> SUFFICES ASSUME NEW c \in Conns PROVE TableOK(c)
  BY DEF TableInv
<1>1. \A r \in RoomNames : Seats(r) = {}
  <2>1. \A r \in RoomNames : rooms[r].players = <<>>
    BY DEF Init, GameInit, NewRoom
  <2> QED BY <2>1, EmptySeq DEF Seats
<1>2. ~Plays(c) /\ others[c] = <<>>
  BY <1>1 DEF Plays, SitsIn, Init, ClientInit
<1> QED BY <1>2, InitRooms, OutsiderTable

(***************************************************************************)
(* Cards in bounds, and the ends of a client.                              *)
(***************************************************************************)

LEMMA TableInBounds ==
  ASSUME TurnInv, TableInv, MaxPlayers > 1
  PROVE  DrawInBounds
<1> USE DEF TurnInv
<1> SUFFICES ASSUME NEW c \in Conns,
                    io[c] = "turn" \/ (Alive(c) /\ r2c[c] # <<>> /\ Head(r2c[c]).type = "PLAYER_TURN")
             PROVE  LoggedIn(c) /\ me[c].num <= Size(me[c].hand) /\ Len(others[c]) = MaxPlayers - 1
  BY DEF DrawInBounds
<1>1. TableOK(c)
  BY DEF TableInv
<1>2. Plays(c) /\ Served(c)
  <2>1. CASE io[c] = "turn"
    BY <1>1, <2>1, ServedAtTurn
  <2>2. CASE Alive(c) /\ r2c[c] # <<>> /\ Head(r2c[c]).type = "PLAYER_TURN"
    <3>1. PICK p : p = r2c[c][1]
      OBVIOUS
    <3>2. At(c, "r2c", 1, p) /\ p.type = "PLAYER_TURN"
      BY <2>2, <3>1, FirstReceived DEF At, GameReplies
    <3> QED BY <1>1, <2>2, <3>2, ServedAtOffer
  <2> QED BY <2>1, <2>2
<1>3. LoggedIn(c)
  BY <1>2, PlayerFacts DEF LoggedIn
<1> QED BY <1>2, <1>3 DEF Served, HandServed, OthersServed

\* The two ways in which a client ends by itself.
EndsKnown(c) ==
  \/ ~LoggedIn(c) /\ io[c] = "lobby"
  \/ LoggedIn(c) /\ io[c] = "turn" /\ me[c].hand = NoCards

LEMMA OwnEnd ==
  ASSUME DInv, DInv', RoomsInv, MaxPlayers > 1, NEW c \in Conns \ Quitters, TableOK(c),
         ClientStep(UserStep(c)) \/ ClientStep(HandleIO(c)), Gone(c)'
  PROVE  ~Gone(c) /\ EndsKnown(c)'
<1>1. ClientTypeOK /\ conn \in [Conns -> ConnStates]
  BY LocalFacts
<1>2. ~Gone(c)
  BY DEF ClientStep, UserStep, HandleIO, Connect, LogInOrRegister, HostOrJoin, WrongInput, FinishTurn, Quit,
         HandleAcceptLogIn, HandleAcceptRegister, HandleRejectLogin, HandleAllowRoom, HandleRejectRoom,
         HandlePlayGame, HandleDealCards, HandlePlayerTurn, Receive, Gone, Alive
<1>3. conn'[c] # conn[c] /\ conn'[c] # "pending"
  BY <1>2 DEF Gone
<1>4. CASE ClientStep(HostOrJoin(c))
  <2>1. PICK type \in RoomRequests, r \in RoomNames :
          me[c] = Nobody /\ io[c] = "lobby" /\ UNCHANGED <<me, io>>
    BY <1>3, <1>4 DEF ClientStep, HostOrJoin
  <2> QED BY <1>2, <2>1 DEF EndsKnown, LoggedIn
<1>5. CASE ClientStep(FinishTurn(c))
  <2>1. io[c] = "turn" /\ Served(c) /\ me[c] # Nobody /\ me[c] \in Me
    BY <1>5, ServedAtTurn, PlayerFacts DEF ClientStep, FinishTurn
  <2>2. PICK chosen \in DiscardChoices :
          \/ \E p \in Discard(me[c], chosen) : ShowUI(c, p)
          \/ me[c].hand = NoCards /\ UNCHANGED <<me, io>>
    BY <1>5 DEF ClientStep, FinishTurn
  <2>3. ASSUME NEW p \in Discard(me[c], chosen), ShowUI(c, p) PROVE FALSE
    <3>1. p.num <= Size(p.hand)
      BY <2>1, DiscardLeaves DEF Served, HandServed
    <3>2. p.num > Size(p.hand)
      BY <1>3, <2>3 DEF ShowUI
    <3>3. p \in Me
      BY <2>1, DiscardType
    <3>4. p.num \in Int /\ Size(p.hand) \in Int
      BY <3>3, SizeType, ClientAssumption, NetworkAssumption DEF Me
    <3> QED BY <3>1, <3>2, <3>4
  <2> QED BY <1>2, <2>1, <2>2, <2>3 DEF EndsKnown, LoggedIn
<1>6. CASE ClientStep(HandleDealCards(c)) \/ ClientStep(HandlePlayerTurn(c))
  BY <1>3, <1>6, HandleDealCardsTable, HandlePlayerTurnTable
<1>7. CASE ClientStep(Connect(c)) \/ ClientStep(Quit(c))
  BY <1>1, <1>3, <1>7 DEF ClientStep, Connect, Quit
<1>8. CASE \/ ClientStep(LogInOrRegister(c)) \/ ClientStep(WrongInput(c))
           \/ ClientStep(HandleAcceptLogIn(c)) \/ ClientStep(HandleAcceptRegister(c)) \/ ClientStep(HandleRejectLogin(c))
           \/ ClientStep(HandleAllowRoom(c)) \/ ClientStep(HandleRejectRoom(c)) \/ ClientStep(HandlePlayGame(c))
  BY <1>3, <1>8 DEF ClientStep, LogInOrRegister, WrongInput, HandleAcceptLogIn, HandleAcceptRegister, HandleRejectLogin,
                    HandleAllowRoom, HandleRejectRoom, HandlePlayGame, ReceivedQuietly, links
<1> QED BY <1>4, <1>5, <1>6, <1>7, <1>8 DEF ClientStep, UserStep, HandleIO

LEMMA NextCrashes ==
  ASSUME TurnInv, TurnInv', TableInv, MaxPlayers > 1, [Next]_vars, KnownCrashes
  PROVE  KnownCrashes'
<1> USE DEF TurnInv
<1> SUFFICES ASSUME NEW c \in Conns \ Quitters, Gone(c)' PROVE EndsKnown(c)'
  BY DEF KnownCrashes, EndsKnown
<1>1. Gone(c) => EndsKnown(c)
  BY DEF KnownCrashes, EndsKnown
<1>2. Gone(c) /\ me'[c] = me[c] /\ io'[c] = io[c] => EndsKnown(c)'
  BY <1>1 DEF EndsKnown, LoggedIn
<1>3. ASSUME NEW d \in Conns, ClientStep(UserStep(d)) \/ ClientStep(HandleIO(d)) PROVE EndsKnown(c)'
  <2>1. CASE d = c
    <3>1. TableOK(c)
      BY DEF TableInv
    <3> QED BY <1>3, <2>1, <3>1, OwnEnd
  <2>2. CASE d # c
    <3>1. conn'[c] = conn[c] /\ me'[c] = me[c] /\ io'[c] = io[c]
      BY <1>3, <2>2, LocalFacts DEF LocalStep
    <3> QED BY <1>2, <3>1 DEF Gone
  <2> QED BY <2>1, <2>2
<1>4. CASE LoginStep(HandleLoginPacket) \/ GameStep(HandleGamePacket) \/ UNCHANGED vars
  <2>1. UNCHANGED <<conn, me, io>>
    BY <1>4, GameParts DEF LoginStep, HandleLoginPacket, HandleLogIn, HandleRegister, vars, links, clientVars
  <2> QED BY <1>2, <2>1 DEF Gone
<1>5. CASE \/ RelayStep(HandleRelayPacket) \/ RelayStep(ReceiveFromLogin) \/ RelayStep(ReceiveFromGame)
           \/ \E d \in Conns : RelayStep(Accept(d)) \/ RelayStep(RelayWorker(d))
  <2>1. UNCHANGED <<me, io>>
    BY <1>5 DEF RelayStep, clientVars
  <2>2. Gone(c)
    <3>1. \/ conn'[c] = conn[c]
          \/ conn[c] = "pending" /\ conn'[c] = "up"
          \/ Gone(c)
      BY <1>5, RelayKeepsAlive
    <3> QED BY <3>1 DEF Gone
  <2> QED BY <1>2, <2>1, <2>2
<1> QED BY <1>3, <1>4, <1>5, ServerStands DEF Next

LEMMA InitCrashes ==
  ASSUME Init
  PROVE  KnownCrashes
BY DEF Init, LinksInit, KnownCrashes, Gone

\* While nobody uses the account of another, whoever is about to see the table
\* knows who is there and holds the cards that drawMyCard reads: DEAL_CARDS and
\* ALLOW_PLAY_GAME are never behind the turn, and no choice takes more from the
\* hand than from the count.
THEOREM CardsInBounds ==
  ASSUME OwnMillis, OwnAccountEach, MaxPlayers > 1
  PROVE  Spec => []DrawInBounds
<1>1. TurnInv /\ TurnInv' /\ [Next]_vars /\ TableInv => TableInv'
  BY NextTable
<1>2. Spec => []TurnInv
  BY OwnAccounts DEF TurnInv
<1>3. Init => TableInv
  BY InitTable
<1>4. TurnInv /\ TableInv => DrawInBounds
  BY TableInBounds
<1> QED BY <1>1, <1>2, <1>3, <1>4, PTL DEF Spec

\* Then a client whose window stays open ends in two ways only: at host or join
\* without a login, and by an empty choice from an empty hand.
THEOREM CrashesAreKnown ==
  ASSUME OwnMillis, OwnAccountEach, MaxPlayers > 1
  PROVE  Spec => []KnownCrashes
<1>1. TurnInv /\ TurnInv' /\ [Next]_vars /\ TableInv => TableInv'
  BY NextTable
<1>2. TurnInv /\ TurnInv' /\ TableInv /\ [Next]_vars /\ KnownCrashes => KnownCrashes'
  BY NextCrashes
<1>3. Spec => []TurnInv
  BY OwnAccounts DEF TurnInv
<1>4. Init => TableInv /\ KnownCrashes
  BY InitTable, InitCrashes
<1> QED BY <1>1, <1>2, <1>3, <1>4, PTL DEF Spec

(***************************************************************************)
(* A sum over a set counts its units.                                      *)
(***************************************************************************)
Pick(s) == CHOOSE x \in s : TRUE
SumsTo(F, S, w) == F = [s \in SUBSET S |-> IF s = {} THEN 0 ELSE w[Pick(s)] + F[s \ {Pick(s)}]]
Units(s, w, m) == {e \in s \X (1 .. m) : e[2] <= w[e[1]]}

LEMMA UnitsFinite ==
  ASSUME NEW s, IsFiniteSet(s), NEW m \in Nat, NEW w
  PROVE  IsFiniteSet(Units(s, w, m)) /\ Cardinality(Units(s, w, m)) \in Nat
<1>1. IsFiniteSet(1 .. m)
  BY FS_Interval
<1>2. IsFiniteSet(s \X (1 .. m))
  BY <1>1, FS_Product
<1>3. Units(s, w, m) \in SUBSET (s \X (1 .. m))
  BY DEF Units
<1>4. IsFiniteSet(Units(s, w, m))
  BY <1>2, <1>3, FS_Subset
<1> QED BY <1>4, FS_CardinalityType

\* One element has as many as its weight.
LEMMA UnitsAdd ==
  ASSUME NEW s, IsFiniteSet(s), NEW x \in s, NEW m \in Nat, NEW w, w[x] \in 0 .. m
  PROVE  Cardinality(Units(s, w, m)) = w[x] + Cardinality(Units(s \ {x}, w, m))
<1> DEFINE A == Units(s \ {x}, w, m)
           B == {x} \X (1 .. w[x])
<1>1. IsFiniteSet(s \ {x})
  BY FS_RemoveElement
<1>2. IsFiniteSet(A) /\ Cardinality(A) \in Nat
  BY <1>1, UnitsFinite
<1>3. IsFiniteSet(B) /\ Cardinality(B) = w[x]
  <2>1. IsFiniteSet(1 .. w[x]) /\ Cardinality(1 .. w[x]) = w[x]
    <3>1. PICK n \in Nat : n = w[x]
      OBVIOUS
    <3>2. 1 .. w[x] = 1 .. (1 + n - 1)
      BY <3>1
    <3> QED BY <3>1, <3>2, IntervalSize
  <2>2. IsFiniteSet({x}) /\ Cardinality({x}) = 1
    BY FS_Singleton
  <2>3. IsFiniteSet(B) /\ Cardinality(B) = 1 * w[x]
    BY <2>1, <2>2, FS_Product
  <2> QED BY <2>3
<1>4. Units(s, w, m) = A \cup B
  BY DEF Units
<1>5. A \cap B = {}
  BY DEF Units
<1> HIDE DEF A, B
<1>6. Cardinality(A \cup B) = Cardinality(A) + Cardinality(B) - Cardinality(A \cap B)
  BY <1>2, <1>3, FS_Union
<1>7. Cardinality(A \cap B) = 0
  BY <1>5, FS_EmptySet
<1>8. Cardinality(A \cup B) = w[x] + Cardinality(A)
  BY <1>2, <1>3, <1>6, <1>7
<1> QED BY <1>4, <1>8 DEF A

LEMMA SumExists ==
  ASSUME NEW S, IsFiniteSet(S), NEW m \in Nat, NEW w \in [S -> 0 .. m]
  PROVE  \E F : SumsTo(F, S, w)
<1> DEFINE F == [s \in SUBSET S |-> Cardinality(Units(s, w, m))]
<1>1. ASSUME NEW s \in SUBSET S PROVE F[s] = IF s = {} THEN 0 ELSE w[Pick(s)] + F[s \ {Pick(s)}]
  <2>1. CASE s = {}
    <3>1. Units(s, w, m) = {}
      BY <2>1 DEF Units
    <3> QED BY <2>1, <3>1, FS_EmptySet
  <2>2. CASE s # {}
    <3>1. Pick(s) \in s
      BY <2>2 DEF Pick
    <3>2. IsFiniteSet(s) /\ w[Pick(s)] \in 0 .. m /\ s \ {Pick(s)} \in SUBSET S
      BY <3>1, FS_Subset
    <3>3. Cardinality(Units(s, w, m)) = w[Pick(s)] + Cardinality(Units(s \ {Pick(s)}, w, m))
      BY <3>1, <3>2, UnitsAdd
    <3> QED BY <2>2, <3>2, <3>3
  <2> QED BY <2>1, <2>2
<1>2. F = [s \in SUBSET S |-> IF s = {} THEN 0 ELSE w[Pick(s)] + F[s \ {Pick(s)}]]
  BY <1>1
<1> HIDE DEF F
<1> QED BY <1>2 DEF SumsTo

\* By the smallest subset for which it is not so.
LEMMA SumIsUnits ==
  ASSUME NEW S, IsFiniteSet(S), NEW m \in Nat, NEW w \in [S -> 0 .. m], NEW F, SumsTo(F, S, w)
  PROVE  F[S] = Cardinality(Units(S, w, m))
<1> DEFINE Wrong == {s \in SUBSET S : F[s] # Cardinality(Units(s, w, m))}
<1> SUFFICES ASSUME Wrong # {} PROVE FALSE
  OBVIOUS
<1>1. IsWellFoundedOn(StrictSubsetOrdering(S), SUBSET S)
  BY FS_StrictSubsetOrderingWellFounded, FS_FiniteSubsetsOfFinite
<1>2. PICK s \in Wrong : \A t \in Wrong : <<t, s>> \notin StrictSubsetOrdering(S)
  <2>1. Wrong \subseteq SUBSET S
    OBVIOUS
  <2> HIDE DEF Wrong
  <2> QED BY <1>1, <2>1, WFMin
<1>3. s \in SUBSET S /\ F[s] # Cardinality(Units(s, w, m))
  OBVIOUS
<1>4. F[s] = IF s = {} THEN 0 ELSE w[Pick(s)] + F[s \ {Pick(s)}]
  BY <1>3 DEF SumsTo
<1>5. s # {}
  <2> SUFFICES ASSUME s = {} PROVE FALSE
    OBVIOUS
  <2>1. Units(s, w, m) = {}
    BY DEF Units
  <2> QED BY <1>3, <1>4, <2>1, FS_EmptySet
<1>6. Pick(s) \in s
  BY <1>5 DEF Pick
<1>7. PICK t : t = s \ {Pick(s)}
  OBVIOUS
<1>8. t \in SUBSET S /\ t \subseteq s /\ t # s
  BY <1>3, <1>6, <1>7
<1>9. <<t, s>> \in StrictSubsetOrdering(S)
  BY <1>3, <1>8 DEF StrictSubsetOrdering
<1>10. F[t] = Cardinality(Units(t, w, m))
  BY <1>2, <1>8, <1>9
<1>11. IsFiniteSet(s) /\ w[Pick(s)] \in 0 .. m
  BY <1>3, <1>6, FS_Subset
<1>12. Cardinality(Units(s, w, m)) = w[Pick(s)] + Cardinality(Units(t, w, m))
  BY <1>6, <1>7, <1>11, UnitsAdd
<1> QED BY <1>3, <1>4, <1>5, <1>7, <1>10, <1>12

LEMMA SumCounts ==
  ASSUME NEW S, IsFiniteSet(S), NEW m \in Nat, NEW w \in [S -> 0 .. m]
  PROVE  MapThenSumSet(LAMBDA x : w[x], S) = Cardinality(Units(S, w, m))
<1>1. PICK F : F = (CHOOSE G : SumsTo(G, S, w))
  OBVIOUS
<1>2. MapThenSumSet(LAMBDA x : w[x], S) = F[S]
  BY <1>1 DEF MapThenSumSet, MapThenFoldSet, SumsTo, Pick
<1>3. SumsTo(F, S, w)
  BY <1>1, SumExists
<1> QED BY <1>2, <1>3, SumIsUnits

(***************************************************************************)
(* The cards of a table.                                                   *)
(***************************************************************************)
FromDeck(rm) == \E p \in Shuffles : \A k \in DOMAIN rm.players : rm.players[k].hand = HandOf(p, k)
Dealt == \A r \in RoomNames : IsFull(rooms[r]) => FromDeck(rooms[r])

\* No more cards than the player at client c was dealt; who does not play has none.
Fair(c, hand) ==
  \A t \in CardTypes :
    \/ hand[t] = 0
    \/ /\ Plays(c)
       /\ \E k \in DOMAIN rooms[room[c]].players :
            rooms[room[c]].players[k].id = cid[c] /\ hand[t] <= rooms[room[c]].players[k].hand[t]
HandOK(c) ==
  /\ me[c] # Nobody => Fair(c, me[c].hand)
  /\ \A at, i, p : At(c, at, i, p) /\ p.type = "DEAL_CARDS" => Fair(c, p.cards)
DeckInv == Dealt /\ \A c \in Conns : HandOK(c)

\* The seat of a player who plays, and what it was dealt, stay.
SeatKept(c) ==
  /\ cid'[c] = cid[c] /\ room'[c] = room[c]
  /\ Plays(c) =>
       /\ Plays(c)'
       /\ \A k \in DOMAIN rooms[room[c]].players :
            /\ k \in DOMAIN rooms'[room[c]].players
            /\ rooms'[room[c]].players[k].id = rooms[room[c]].players[k].id
            /\ rooms'[room[c]].players[k].hand = rooms[room[c]].players[k].hand

LEMMA FairStays ==
  ASSUME NEW c \in Conns, SeatKept(c), NEW hand, Fair(c, hand)
  PROVE  Fair(c, hand)'
<1> SUFFICES ASSUME NEW t \in CardTypes, hand[t] # 0
             PROVE  Plays(c)' /\ \E k \in DOMAIN rooms'[room'[c]].players :
                      rooms'[room'[c]].players[k].id = cid'[c] /\ hand[t] <= rooms'[room'[c]].players[k].hand[t]
  BY DEF Fair
<1>1. PICK k \in DOMAIN rooms[room[c]].players :
        Plays(c) /\ rooms[room[c]].players[k].id = cid[c] /\ hand[t] <= rooms[room[c]].players[k].hand[t]
  BY DEF Fair
<1> QED BY <1>1 DEF SeatKept

\* What is new on the way to the player is as fair as what was there.
LEMMA HandStays ==
  ASSUME NEW c \in Conns, SeatKept(c), HandOK(c), NEW hand, Fair(c, hand), me'[c] # Nobody => me'[c].hand = hand,
         \A at, i, p : At(c, at, i, p)' /\ p.type = "DEAL_CARDS" => Fair(c, p.cards)' \/ \E at2, i2 : At(c, at2, i2, p)
  PROVE  HandOK(c)'
<1>1. me'[c] # Nobody => Fair(c, me[c].hand)'
  BY FairStays
<1>2. ASSUME NEW at, NEW i, NEW p, At(c, at, i, p)', p.type = "DEAL_CARDS" PROVE Fair(c, p.cards)'
  <2>1. CASE \E at2, i2 : At(c, at2, i2, p)
    <3>1. Fair(c, p.cards)
      BY <1>2, <2>1 DEF HandOK
    <3>2. PICK cards : cards = p.cards
      OBVIOUS
    <3>3. Fair(c, cards)'
      BY <3>1, <3>2, FairStays
    <3> QED BY <3>2, <3>3
  <2> QED BY <1>2, <2>1
<1> QED BY <1>1, <1>2 DEF HandOK

\* The same for a player who keeps its cards.
LEMMA SameHand ==
  ASSUME NEW c \in Conns, SeatKept(c), HandOK(c), me'[c] = me[c],
         \A at, i, p : At(c, at, i, p)' /\ p.type = "DEAL_CARDS" => Fair(c, p.cards)' \/ \E at2, i2 : At(c, at2, i2, p)
  PROVE  HandOK(c)'
<1>1. Fair(c, NoCards)
  BY DEF Fair, NoCards
<1>2. CASE me[c] = Nobody
  BY <1>1, <1>2, HandStays
<1>3. CASE me[c] # Nobody
  <2>1. PICK hand : hand = me[c].hand
    OBVIOUS
  <2>2. Fair(c, hand)
    BY <1>3, <2>1 DEF HandOK
  <2> QED BY <2>1, <2>2, HandStays
<1> QED BY <1>2, <1>3

\* Who does not play is dealt nothing.
LEMMA OutsiderHand ==
  ASSUME RoomsInv, NEW c \in Conns, ~Plays(c), me[c] = Nobody \/ \A t \in CardTypes : me[c].hand[t] = 0
  PROVE  HandOK(c)
<1>1. \A at, i, p : At(c, at, i, p) => p.type # "DEAL_CARDS"
  BY DEF RoomsInv, Course, PacketsOK, Holds
<1> QED BY <1>1 DEF HandOK, Fair

LEMMA OutsiderHandNext ==
  ASSUME RoomsInv', NEW c \in Conns, ~Plays(c)', me'[c] = Nobody \/ \A t \in CardTypes : me'[c].hand[t] = 0
  PROVE  HandOK(c)'
<1>1. (RoomsInv /\ ~Plays(c) /\ (me[c] = Nobody \/ \A t \in CardTypes : me[c].hand[t] = 0) => HandOK(c))'
  BY OutsiderHand, PTL
<1> QED BY <1>1

LEMMA RoomKeepsSeat ==
  ASSUME NEW c \in Conns, UNCHANGED rooms, cid'[c] = cid[c], room'[c] = room[c]
  PROVE  SeatKept(c)
<1>1. Plays(c)' <=> Plays(c)
  BY RoomKeepsTable
<1> QED BY <1>1 DEF SeatKept

LEMMA RelayKeepsHand ==
  ASSUME TurnInv, TurnInv', NEW c \in Conns, HandOK(c),
         \/ RelayStep(HandleRelayPacket) \/ RelayStep(ReceiveFromLogin) \/ RelayStep(ReceiveFromGame)
         \/ \E d \in Conns : RelayStep(Accept(d)) \/ RelayStep(RelayWorker(d))
  PROVE  HandOK(c)'
<1> USE DEF TurnInv
<1>1. UNCHANGED <<io, me, room, others, rooms>>
  BY DEF RelayStep, clientVars, gameVars
<1>2. CASE cid[c] \notin Users
  <2>1. me'[c] = Nobody
    BY <1>1, <1>2, ConnFacts
  <2>2. ~Plays(c)'
    BY <2>1 DEF Plays, SitsIn, RoomsInv, SeatsOK
  <2> QED BY <2>1, <2>2, OutsiderHandNext
<1>3. CASE cid[c] \in Users
  <2>1. cid'[c] = cid[c] /\ Moves(c)
    BY <1>3, RelayMoves
  <2>2. SeatKept(c)
    BY <1>1, <2>1, RoomKeepsSeat
  <2>3. \A at, i, p : At(c, at, i, p)' => \E at2, i2 : At(c, at2, i2, p)
    BY <2>1 DEF Moves, Moved
  <2> QED BY <1>1, <2>2, <2>3, SameHand
<1> QED BY <1>2, <1>3


\* A step of the client delivers at most one packet, and sends no cards.
LEMMA ClientPackets ==
  ASSUME DInv, NEW c \in Conns, ClientStep(UserStep(c)) \/ ClientStep(HandleIO(c)),
         NEW at, NEW i, NEW p, At(c, at, i, p)', p.type = "DEAL_CARDS"
  PROVE  \E at2, i2 : At(c, at2, i2, p)
<1>1. LocalStep(c) /\ r2c[c] \in Seq(PacketToClient) /\ r2c \in [Conns -> Seq(PacketToClient)]
  BY LocalFacts
<1>2. UNCHANGED <<cid, relayQ, gameQ, g2r>>
  BY <1>1 DEF LocalStep, relayVars
<1>3. UNCHANGED r2c \/ (r2c[c] # <<>> /\ Received(c)) \/ Die(c)
  BY DEF ClientStep, UserStep, Connect, LogInOrRegister, HostOrJoin, WrongInput, FinishTurn, Quit, HandleIO,
         LeaveLobby, LeaveLoginPage, ShowUI, links, Receive, ReceivedQuietly,
         HandleAcceptLogIn, HandleAcceptRegister, HandleRejectLogin, HandleAllowRoom, HandleRejectRoom,
         HandlePlayGame, HandleDealCards, HandlePlayerTurn
<1>4. PICK k \in {0, 1} : \A j \in DOMAIN r2c'[c] :
        j \in Int /\ j + k \in DOMAIN r2c[c] /\ r2c'[c][j] = r2c[c][j + k]
  BY <1>1, <1>3, LinkShrinks
<1>5. at # "c2r"
  BY DEF At, GameRequests, RoomRequests
<1>6. CASE at = "r2c"
  <2>1. i \in DOMAIN r2c'[c] /\ p = r2c'[c][i] /\ p.type \in GameReplies
    BY <1>6 DEF At
  <2>2. At(c, "r2c", i + k, p)
    BY <1>4, <2>1 DEF At
  <2> QED BY <2>2
<1>7. CASE at # "r2c"
  <2>1. At(c, at, i, p)
    BY <1>2, <1>5, <1>7 DEF At
  <2> QED BY <2>1
<1> QED BY <1>6, <1>7

\* A choice takes cards of a type from the hand, and adds none.
LEMMA DiscardLowers ==
  ASSUME NEW p \in Me, NEW chosen \in DiscardChoices, NEW q \in Discard(p, chosen), NEW t \in CardTypes
  PROVE  q.hand[t] <= p.hand[t]
<1> USE NetworkAssumption
<1>1. /\ p.hand \in [CardTypes -> 0 .. HandSize] /\ p.hand[t] \in 0 .. HandSize /\ chosen[t] \in Nat
      /\ p = [id |-> p.id, hand |-> p.hand, num |-> p.num]
  BY DEF Me, Bag, DiscardChoices
<1>2. CASE Size(chosen) = 0
  <2>1. CASE q = [p EXCEPT !.num = Floored(@ - 1)]
    BY <1>1, <2>1
  <2>2. CASE \E u \in CardTypes : q = [p EXCEPT !.hand[u] = @ - 1, !.num = Floored(@ - 2)]
    <3>1. PICK u \in CardTypes : q = [p EXCEPT !.hand[u] = @ - 1, !.num = Floored(@ - 2)]
      BY <2>2
    <3>2. q.hand = [p.hand EXCEPT ![u] = @ - 1]
      BY <1>1, <3>1
    <3> QED BY <1>1, <3>2
  <2> QED BY <1>2, <2>1, <2>2 DEF Discard
<1>3. CASE Size(chosen) # 0 /\ Size(chosen) > MaxDiscard
  BY <1>1, <1>3 DEF Discard
<1>4. CASE Size(chosen) # 0 /\ ~(Size(chosen) > MaxDiscard)
  <2> DEFINE left == [u \in CardTypes |-> IF chosen[u] < p.hand[u] THEN p.hand[u] - chosen[u] ELSE 0]
  <2>1. q = [p EXCEPT !.hand = left, !.num = Floored(@ - (Size(p.hand) - Size(left)))]
    BY <1>4 DEF Discard
  <2>2. left[t] <= p.hand[t]
    BY <1>1
  <2> HIDE DEF left
  <2>3. q.hand = left
    BY <1>1, <2>1
  <2> QED BY <2>2, <2>3
<1> QED BY <1>2, <1>3, <1>4

LEMMA FinishTurnHand ==
  ASSUME DInv, RoomsInv, NEW c \in Conns, ClientStep(FinishTurn(c)), HandOK(c)
  PROVE  HandOK(c)'
<1>1. ClientStep(UserStep(c)) /\ LocalStep(c) /\ ClientTypeOK
  BY LocalFacts DEF ClientStep, UserStep
<1>2. UNCHANGED <<room, rooms, cid>> /\ io[c] = "turn"
  BY <1>1 DEF ClientStep, FinishTurn, LocalStep, gameVars, relayVars
<1>3. SeatKept(c)
  BY <1>2, RoomKeepsSeat
<1>4. Plays(c)
  BY <1>2 DEF RoomsInv, Course, ToldOK, HasTurn
<1>5. me[c] # Nobody /\ me[c] \in Me
  BY <1>4, PlayerFacts
<1>6. PICK chosen \in DiscardChoices : UNCHANGED me \/ \E p \in Discard(me[c], chosen) : me' = [me EXCEPT ![c] = p]
  BY DEF ClientStep, FinishTurn
<1>7. CASE UNCHANGED me
  BY <1>1, <1>3, <1>7, ClientPackets, SameHand
<1>8. ASSUME NEW p \in Discard(me[c], chosen), me' = [me EXCEPT ![c] = p] PROVE HandOK(c)'
  <2>1. me'[c] = p
    BY <1>1, <1>8 DEF ClientTypeOK
  <2>2. \A t \in CardTypes : p.hand[t] <= me[c].hand[t]
    BY <1>5, DiscardLowers
  <2>3. \A t \in CardTypes : p.hand[t] \in Nat /\ me[c].hand[t] \in Nat
    <3>1. p \in Me
      BY <1>5, DiscardType
    <3> QED BY <1>5, <3>1, NetworkAssumption DEF Me, Bag
  <2>4. Fair(c, me[c].hand)
    BY <1>5 DEF HandOK
  <2>5. Fair(c, p.hand)
    <3> SUFFICES ASSUME NEW t \in CardTypes, p.hand[t] # 0
                 PROVE  \E k \in DOMAIN rooms[room[c]].players :
                          rooms[room[c]].players[k].id = cid[c] /\ p.hand[t] <= rooms[room[c]].players[k].hand[t]
      BY <1>4 DEF Fair
    <3>1. me[c].hand[t] # 0
      BY <2>2, <2>3
    <3>2. PICK k \in DOMAIN rooms[room[c]].players :
            rooms[room[c]].players[k].id = cid[c] /\ me[c].hand[t] <= rooms[room[c]].players[k].hand[t]
      BY <2>4, <3>1 DEF Fair
    <3>3. rooms[room[c]].players[k].hand[t] \in Nat
      <4>1. rooms[room[c]].players \in Seq(Player)
        BY <1>4 DEF DInv, IInv, TypeOK, GameTypeOK, Room, Plays, SitsIn
      <4>2. rooms[room[c]].players[k] \in Player
        BY <4>1, QueueTypes
      <4> QED BY <4>2, NetworkAssumption DEF Player, Bag
    <3>4. p.hand[t] <= rooms[room[c]].players[k].hand[t]
      BY <2>2, <2>3, <3>2, <3>3
    <3> QED BY <3>2, <3>4
  <2> QED BY <1>1, <1>3, <2>1, <2>5, ClientPackets, HandStays
<1> QED BY <1>6, <1>7, <1>8

LEMMA HandleDealCardsHand ==
  ASSUME DInv, NEW c \in Conns, ClientStep(HandleDealCards(c)), HandOK(c)
  PROVE  HandOK(c)'
<1>1. /\ ClientStep(HandleIO(c)) /\ Receive(c, {"DEAL_CARDS"}) /\ ClientTypeOK /\ r2c[c] # <<>>
      /\ LocalStep(c) /\ UNCHANGED room
  BY LocalFacts DEF ClientStep, HandleIO, HandleDealCards, Receive
<1>2. PICK p : p = Head(r2c[c])
  OBVIOUS
<1>3. p.type = "DEAL_CARDS" /\ At(c, "r2c", 1, p)
  <2>1. p = r2c[c][1] /\ 1 \in DOMAIN r2c[c] /\ p.type = "DEAL_CARDS"
    BY <1>1, <1>2, FirstReceived DEF Receive
  <2> QED BY <2>1 DEF At, GameReplies
<1>4. Fair(c, p.cards)
  BY <1>3 DEF HandOK
<1>5. SeatKept(c)
  BY <1>1, RoomKeepsSeat DEF LocalStep, gameVars, relayVars
<1>6. CASE me[c] # Nobody
  <2>1. me[c] \in Me
    BY <1>1, <1>6 DEF ClientTypeOK
  <2>2. me' = [me EXCEPT ![c].hand = p.cards]
    BY <1>2, <1>6 DEF ClientStep, HandleDealCards
  <2>3. me'[c].hand = p.cards
    BY <1>1, <2>1, <2>2 DEF ClientTypeOK, Me
  <2>4. PICK hand : hand = p.cards
    OBVIOUS
  <2> QED BY <1>1, <1>4, <1>5, <2>3, <2>4, ClientPackets, HandStays
<1>7. CASE me[c] = Nobody
  <2>1. UNCHANGED me
    BY <1>7 DEF ClientStep, HandleDealCards
  <2> QED BY <1>1, <1>5, <2>1, ClientPackets, SameHand
<1> QED BY <1>6, <1>7

\* Who logs in, asks for a room or connects has no seat yet, and no cards.
LEMMA OutsiderStepHand ==
  ASSUME DInv, RoomsInv, RoomsInv', NEW c \in Conns,
         \/ ClientStep(HostOrJoin(c)) \/ ClientStep(Connect(c)) \/ ClientStep(HandleAcceptLogIn(c)),
         HandOK(c)
  PROVE  HandOK(c)'
<1>1. ClientStep(UserStep(c)) \/ ClientStep(HandleIO(c))
  BY DEF ClientStep, UserStep, HandleIO
<1>2. LocalStep(c) /\ UNCHANGED <<rooms, cid>> /\ ClientTypeOK
  BY <1>1, LocalFacts DEF LocalStep, gameVars, relayVars
<1>3. ~Seated(cid[c])
  BY OutsiderHasNoSeat
<1>4. ~Plays(c) /\ ~Plays(c)'
  BY <1>2, <1>3 DEF Plays, SitsIn, Seated, Seats
<1>5. me'[c] = me[c] \/ (me'[c] # Nobody => me'[c].hand = NoCards)
  BY <1>2 DEF ClientStep, HostOrJoin, Connect, HandleAcceptLogIn, ClientTypeOK
<1>6. me'[c] = Nobody \/ \A t \in CardTypes : me'[c].hand[t] = 0
  BY <1>4, <1>5 DEF HandOK, Fair, NoCards
<1> QED BY <1>4, <1>6, OutsiderHandNext

LEMMA ClientHand ==
  ASSUME DInv, RoomsInv, RoomsInv', NEW c \in Conns, ClientStep(UserStep(c)) \/ ClientStep(HandleIO(c)), HandOK(c)
  PROVE  HandOK(c)'
<1>1. CASE \/ ClientStep(HostOrJoin(c)) \/ ClientStep(Connect(c)) \/ ClientStep(HandleAcceptLogIn(c))
  BY <1>1, OutsiderStepHand
<1>2. CASE ClientStep(FinishTurn(c)) \/ ClientStep(HandleDealCards(c))
  BY <1>2, FinishTurnHand, HandleDealCardsHand
<1>3. CASE \/ ClientStep(LogInOrRegister(c)) \/ ClientStep(WrongInput(c)) \/ ClientStep(Quit(c))
           \/ ClientStep(HandleAcceptRegister(c)) \/ ClientStep(HandleRejectLogin(c))
           \/ ClientStep(HandleAllowRoom(c)) \/ ClientStep(HandleRejectRoom(c))
           \/ ClientStep(HandlePlayGame(c)) \/ ClientStep(HandlePlayerTurn(c))
  <2>1. UNCHANGED <<me, room>>
    BY <1>3 DEF ClientStep, LogInOrRegister, WrongInput, Quit, clientVars, HandleAcceptRegister, HandleRejectLogin,
                HandleAllowRoom, HandleRejectRoom, HandlePlayGame, HandlePlayerTurn
  <2>2. UNCHANGED <<rooms, cid>>
    BY LocalFacts DEF LocalStep, gameVars, relayVars
  <2>3. SeatKept(c)
    BY <2>1, <2>2, RoomKeepsSeat
  <2> QED BY <2>1, <2>3, ClientPackets, SameHand
<1> QED BY <1>1, <1>2, <1>3 DEF ClientStep, UserStep, HandleIO


\* What the game server sends in a hand is what the player it is for was dealt.
LEMMA GameKeepsHand ==
  ASSUME DInv, RoomsInv, GameStep(HandleGamePacket), OnlyAppends, NEW c \in Conns, HandOK(c), SeatKept(c),
         \A i, p : Sent(c, i, p) /\ p.type = "DEAL_CARDS" => Fair(c, p.cards)'
  PROVE  HandOK(c)'
<1>1. UNCHANGED me
  BY GameParts DEF clientVars
<1>2. \A at, i, p : At(c, at, i, p)' => (\E at2, i2 : At(c, at2, i2, p)) \/ Sent(c, i, p)
  BY GameFacts DEF OnlyAppends
<1> QED BY <1>1, <1>2, SameHand

\* A room that changes is not full yet, or has just been dealt its cards.
LEMMA EnteredDeck ==
  ASSUME DInv, GameStep(HandleGamePacket), Head(gameQ).type \in RoomRequests, NEW r \in RoomNames,
         IsFull(rooms'[r])
  PROVE  rooms'[r] = rooms[r] \/ FromDeck(rooms'[r])
<1> DEFINE m == Head(gameQ)
<1>1. GameTypeOK /\ m.id \in Users
  BY GameParts, QueueTypes, GameRequestKinds
<1>2. \/ UNCHANGED rooms
      \/ \E rm \in Room : \E reply : EnterRoom(m.room, rm, m.id, reply)
  <2>1. CASE HandleHostRoom
    <3>1. NewRoom(m.id) \in Room
      BY <1>1, GameAssumption, EmptySeq DEF NewRoom, Room
    <3> QED BY <2>1, <3>1 DEF HandleHostRoom
  <2>2. CASE HandleEnterRoom
    <3>1. m.room \in RoomNames
      BY GameParts, QueueTypes, GameRequestKinds
    <3>2. rooms[m.room] \in Room
      BY <1>1, <3>1 DEF GameTypeOK
    <3> QED BY <2>2, <3>2 DEF HandleEnterRoom
  <2>3. ~HandleTurnOver
    BY DEF HandleTurnOver, PopGame, RoomRequests
  <2> QED BY <2>1, <2>2, <2>3 DEF GameStep, HandleGamePacket
<1>3. ASSUME NEW rm \in Room, NEW reply, EnterRoom(m.room, rm, m.id, reply), rooms'[r] # rooms[r]
      PROVE  FromDeck(rooms'[r])
  <2> DEFINE seated == [rm EXCEPT !.players = Append(@, NewPlayer(m.id))]
  <2>1. seated \in Room
    <3>1. NewPlayer(m.id) \in Player
      BY <1>1, NetworkAssumption DEF NewPlayer, Player, Bag, NoCards
    <3>2. Append(rm.players, NewPlayer(m.id)) \in Seq(Player)
      BY <3>1, AppendProperties DEF Room
    <3> QED BY <3>2 DEF Room
  <2>2. \/ ~IsFull(seated) /\ rooms' = [rooms EXCEPT ![m.room] = seated]
        \/ \E p \in Shuffles : rooms' = [rooms EXCEPT ![m.room] = DealCards(seated, p)]
    BY <1>3 DEF EnterRoom
  <2> HIDE DEF seated
  <2>3. PICK p \in Shuffles : rooms' = [rooms EXCEPT ![m.room] = DealCards(seated, p)]
    BY <1>1, <1>3, <2>2 DEF GameTypeOK
  <2>4. rooms'[r] = DealCards(seated, p)
    BY <1>1, <1>3, <2>3 DEF GameTypeOK
  <2>5. \A k \in DOMAIN DealCards(seated, p).players : DealCards(seated, p).players[k].hand = HandOf(p, k)
    BY <2>1, DealtSeats
  <2> QED BY <2>4, <2>5 DEF FromDeck
<1> QED BY <1>2, <1>3

LEMMA RefusedHand ==
  ASSUME DInv, RoomsInv, GameStep(HandleGamePacket), RoomRefused(Head(gameQ)), NEW c \in Conns, HandOK(c)
  PROVE  HandOK(c)'
<1>1. PICK p \in GamePacket : p.type \in Rejections /\ g2r' = Append(g2r, p)
  BY DEF RoomRefused, Rejections
<1>2. OnlyAppends /\ \A i, q : Sent(c, i, q) => q = p
  BY <1>1, OneSent
<1>3. p.type # "DEAL_CARDS"
  BY <1>1 DEF Rejections
<1>4. UNCHANGED <<rooms, cid, room>>
  BY GameParts DEF RoomRefused, clientVars, relayVars
<1>5. SeatKept(c)
  BY <1>4, RoomKeepsSeat
<1> QED BY <1>2, <1>3, <1>5, GameKeepsHand

LEMMA PassedHand ==
  ASSUME DInv, RoomsInv, GameStep(HandleGamePacket), TurnPassed(Head(gameQ)), NEW c \in Conns, HandOK(c)
  PROVE  HandOK(c)'
<1>1. PICK r, new : r = Head(gameQ).room /\ new = ChangeTurn(rooms[r])
  OBVIOUS
<1>2. PICK p \in GamePacket : g2r' = Append(g2r, p) /\ p.type = "PLAYER_TURN"
  BY <1>1 DEF TurnPassed
<1>3. CanChangeTurn(r) /\ r \in RoomNames /\ rooms' = [rooms EXCEPT ![r] = new] /\ rooms \in [RoomNames -> Room]
  BY <1>1, GameParts DEF TurnPassed, GameTypeOK
<1>4. /\ DOMAIN new.players = DOMAIN rooms[r].players /\ Len(new.players) = Len(rooms[r].players)
      /\ \A k \in DOMAIN new.players : /\ new.players[k].id = rooms[r].players[k].id
                                       /\ new.players[k].hand = rooms[r].players[k].hand
  BY <1>1, <1>3, PassedSeats
<1>5. OnlyAppends /\ \A i, q : Sent(c, i, q) => q = p
  BY <1>2, OneSent
<1>6. UNCHANGED <<cid, room>>
  BY GameParts DEF clientVars, relayVars
<1>7. \A s \in RoomNames : Seats(s)' = Seats(s) /\ (IsFull(rooms[s])' <=> IsFull(rooms[s]))
  BY <1>3, <1>4 DEF Seats, IsFull
<1>8. Plays(c)' <=> Plays(c)
  BY <1>6, <1>7 DEF Plays, SitsIn
<1>9. SeatKept(c)
  BY <1>3, <1>4, <1>6, <1>8 DEF SeatKept, Plays, SitsIn
<1> QED BY <1>2, <1>5, <1>9, GameKeepsHand

LEMMA EnteredHand ==
  ASSUME DInv, DInv', RoomsInv, RoomsInv', GameStep(HandleGamePacket),
         Head(gameQ).type \in RoomRequests, Head(gameQ).room \in RoomNames,
         NEW rm, NEW new, NEW p, RoomEntered(Head(gameQ), rm, new, p), NEW c \in Conns, HandOK(c)
  PROVE  HandOK(c)'
<1>1. PICK r, n : r = Head(gameQ).room /\ n = Len(rooms[r].players)
  OBVIOUS
<1>2. GameTypeOK /\ g2r \in Seq(GamePacket) /\ g2r' \in Seq(GamePacket)
  BY GameParts DEF IInv, TypeOK, LinksTypeOK
<1>3. /\ rooms'[r] = new /\ (\A s \in RoomNames \ {r} : rooms'[s] = rooms[s]) /\ ~IsFull(rooms[r])
  BY <1>1, <1>2, EnteredRoom
<1>4. OnlyAppends
  BY <1>2, EnteredAppends
<1>5. UNCHANGED <<cid, room>>
  BY GameParts DEF clientVars, relayVars
<1>6. SeatKept(c)
  <2>1. ASSUME Plays(c) PROVE rooms'[room[c]] = rooms[room[c]]
    BY <1>3, <2>1 DEF Plays, SitsIn
  <2> QED BY <1>5, <2>1 DEF SeatKept, Plays, SitsIn, Seats
<1>7. ASSUME NEW i, NEW q, Sent(c, i, q), q.type = "DEAL_CARDS" PROVE Fair(c, q.cards)'
  <2>1. i \in DOMAIN g2r' /\ Len(g2r) < i /\ q = g2r'[i] /\ q.to = cid[c]
    BY <1>7 DEF Sent
  <2>2. IsFull(new) /\ Deals(g2r, g2r', new)
    <3>1. CASE g2r' = Append(g2r, p)
      <4>1. q = p
        BY <1>2, <1>7, <3>1, OneSent DEF RoomEntered
      <4> QED BY <1>7, <4>1 DEF RoomEntered
    <3> QED BY <3>1 DEF RoomEntered
  <2>3. PICK k \in DOMAIN new.players : q = Hands(new)[k]
    BY <1>7, <2>1, <2>2 DEF Deals
  <2>4. q.to = new.players[k].id /\ q.cards = new.players[k].hand
    BY <2>3 DEF Hands
  <2>5. cid'[c] \in Seats(r)' /\ r \in RoomNames
    BY <1>1, <1>3, <1>5, <2>1, <2>4 DEF Seats
  <2>6. room'[c] = r
    BY <2>5 DEF RoomsInv, SeatsOK
  <2>7. Plays(c)'
    BY <1>3, <2>2, <2>5, <2>6 DEF Plays, SitsIn
  <2>8. new.players[k].hand \in Bag
    <3>1. new.players \in Seq(Player)
      BY <1>3, <2>5 DEF DInv, IInv, TypeOK, GameTypeOK, Room
    <3>2. new.players[k] \in Player
      BY <3>1, QueueTypes
    <3> QED BY <3>2 DEF Player
  <2>9. \A t \in CardTypes : q.cards[t] <= new.players[k].hand[t]
    BY <2>4, <2>8, NetworkAssumption DEF Bag
  <2>10. k \in DOMAIN rooms'[room'[c]].players /\ rooms'[room'[c]].players[k] = new.players[k] /\ new.players[k].id = cid'[c]
    BY <1>3, <1>5, <2>1, <2>4, <2>6
  <2>11. PICK hand : hand = q.cards
    OBVIOUS
  <2>12. Fair(c, hand)'
    BY <2>7, <2>9, <2>10, <2>11 DEF Fair
  <2> QED BY <2>11, <2>12
<1> QED BY <1>4, <1>6, <1>7, GameKeepsHand

LEMMA NextDeck ==
  ASSUME TurnInv, TurnInv', [Next]_vars, DeckInv
  PROVE  DeckInv'
<1> USE DEF TurnInv
<1>1. CASE GameStep(HandleGamePacket)
  <2>1. Head(gameQ).type = "PlAYER_TURN_OVER" => ~TurnFatal(Head(gameQ))
    BY <1>1, TurnIsPossible
  <2>2. \/ /\ Head(gameQ).type \in RoomRequests /\ Head(gameQ).room \in RoomNames
           /\ RoomRefused(Head(gameQ)) \/ \E rm, new, p : RoomEntered(Head(gameQ), rm, new, p)
        \/ TurnPassed(Head(gameQ))
    BY <1>1, <2>1, GameEffects
  <2>3. \A c \in Conns : HandOK(c)'
    BY <1>1, <2>2, RefusedHand, EnteredHand, PassedHand DEF DeckInv
  <2>4. ASSUME NEW r \in RoomNames, IsFull(rooms'[r]) PROVE FromDeck(rooms'[r])
    <3>1. CASE Head(gameQ).type \in RoomRequests
      BY <1>1, <2>4, <3>1, EnteredDeck DEF DeckInv, Dealt
    <3>2. CASE TurnPassed(Head(gameQ))
      <4>1. PICK s, new : s = Head(gameQ).room /\ new = ChangeTurn(rooms[s])
        OBVIOUS
      <4>2. CanChangeTurn(s) /\ s \in RoomNames /\ rooms' = [rooms EXCEPT ![s] = new] /\ rooms \in [RoomNames -> Room]
        BY <1>1, <3>2, <4>1, GameParts DEF TurnPassed, GameTypeOK
      <4>3. /\ DOMAIN new.players = DOMAIN rooms[s].players /\ Len(new.players) = Len(rooms[s].players)
            /\ \A k \in DOMAIN new.players : new.players[k].hand = rooms[s].players[k].hand
        BY <4>1, <4>2, PassedSeats
      <4>4. CASE r = s
        <5>1. rooms'[r] = new /\ IsFull(rooms[r])
          BY <2>4, <4>2, <4>3, <4>4 DEF IsFull
        <5>2. FromDeck(rooms[r])
          BY <5>1 DEF DeckInv, Dealt
        <5> QED BY <4>3, <4>4, <5>1, <5>2 DEF FromDeck
      <4>5. CASE r # s
        BY <2>4, <4>2, <4>5 DEF DeckInv, Dealt
      <4> QED BY <4>4, <4>5
    <3> QED BY <2>2, <3>1, <3>2
  <2> QED BY <2>3, <2>4 DEF DeckInv, Dealt
<1>2. CASE UNCHANGED rooms
  <2>1. Dealt'
    BY <1>2 DEF DeckInv, Dealt
  <2>2. ASSUME NEW c \in Conns PROVE HandOK(c)'
    <3>1. HandOK(c)
      BY DEF DeckInv
    <3>2. ASSUME NEW d \in Conns, ClientStep(UserStep(d)) \/ ClientStep(HandleIO(d)) PROVE HandOK(c)'
      <4>1. CASE d = c
        BY <3>1, <3>2, <4>1, ClientHand
      <4>2. CASE d # c
        <5>1. LocalStep(d)
          BY <3>2, LocalFacts
        <5>2. /\ UNCHANGED <<cid, relayQ, gameQ, g2r>>
              /\ me'[c] = me[c] /\ room'[c] = room[c] /\ c2r'[c] = c2r[c] /\ r2c'[c] = r2c[c]
          BY <4>2, <5>1 DEF LocalStep, gameVars, relayVars
        <5>3. \A at, i, p : At(c, at, i, p)' => At(c, at, i, p)
          BY <5>2 DEF At
        <5> QED BY <1>2, <3>1, <5>2, <5>3, RoomKeepsSeat, SameHand
      <4> QED BY <4>1, <4>2
    <3>3. CASE LoginStep(HandleLoginPacket) \/ UNCHANGED vars
      <4>1. UNCHANGED <<me, room, cid, c2r, r2c, relayQ, gameQ, g2r>>
        BY <3>3 DEF LoginStep, HandleLoginPacket, HandleLogIn, HandleRegister, vars, links, relayVars, gameVars, clientVars
      <4>2. \A at, i, p : At(c, at, i, p)' => At(c, at, i, p)
        BY <4>1 DEF At
      <4> QED BY <1>2, <3>1, <4>1, <4>2, RoomKeepsSeat, SameHand
    <3>4. CASE \/ RelayStep(HandleRelayPacket) \/ RelayStep(ReceiveFromLogin) \/ RelayStep(ReceiveFromGame)
               \/ \E d \in Conns : RelayStep(Accept(d)) \/ RelayStep(RelayWorker(d))
      BY <3>1, <3>4, RelayKeepsHand
    <3>5. GameStep(HandleGamePacket) => HandOK(c)'
      BY <1>1 DEF DeckInv
    <3> QED BY <3>2, <3>3, <3>4, <3>5, ServerStands DEF Next
  <2> QED BY <2>1, <2>2 DEF DeckInv
<1>3. UNCHANGED rooms \/ GameStep(HandleGamePacket)
  <2>1. ASSUME NEW d \in Conns, ClientStep(UserStep(d)) \/ ClientStep(HandleIO(d)) PROVE UNCHANGED rooms
    BY <2>1, LocalFacts DEF LocalStep, gameVars
  <2> QED BY <2>1 DEF Next, RelayStep, LoginStep, gameVars, vars
<1> QED BY <1>1, <1>2, <1>3

LEMMA InitDeck ==
  ASSUME Init
  PROVE  DeckInv
<1>1. \A r \in RoomNames : rooms[r].players = <<>>
  BY DEF Init, GameInit, NewRoom
<1>2. Dealt
  BY <1>1, EmptySeq, GameAssumption DEF Dealt, IsFull
<1>3. ASSUME NEW c \in Conns PROVE HandOK(c)
  <2>1. \A r \in RoomNames : Seats(r) = {}
    BY <1>1, EmptySeq DEF Seats
  <2>2. ~Plays(c) /\ me[c] = Nobody
    BY <2>1 DEF Plays, SitsIn, Init, ClientInit
  <2> QED BY <2>2, InitRooms, OutsiderHand
<1> QED BY <1>2, <1>3 DEF DeckInv


\* An account has one program at most, which holds no more of a type than the
\* account was dealt.
LEMMA HeldByOne ==
  ASSUME TurnInv, DeckInv, NEW r \in RoomNames, NEW u \in Seats(r), NEW t \in CardTypes
  PROVE  /\ HeldBy(u, t) \in 0 .. HandSize
         /\ HeldBy(u, t) # 0 =>
              /\ IsFull(rooms[r])
              /\ \E k \in DOMAIN rooms[r].players :
                   rooms[r].players[k].id = u /\ HeldBy(u, t) <= rooms[r].players[k].hand[t]
<1> USE DEF TurnInv
<1> DEFINE cs == {c \in Conns : LoggedIn(c) /\ me[c].id = u}
           w == [c \in cs |-> me[c].hand[t]]
<1>1. HandSize \in Nat
  BY NetworkAssumption
<1>2. ASSUME NEW c \in cs
      PROVE  /\ cid[c] = u /\ u \in Users /\ me[c] \in Me /\ me[c].hand[t] \in 0 .. HandSize
             /\ me[c].hand[t] # 0 =>
                  /\ IsFull(rooms[r])
                  /\ \E k \in DOMAIN rooms[r].players :
                       rooms[r].players[k].id = u /\ me[c].hand[t] <= rooms[r].players[k].hand[t]
  <2>1. me[c] # Nobody /\ me[c].id = u
    BY DEF LoggedIn
  <2>2. cid[c] = u /\ u \in Users
    BY <2>1, ConnFacts
  <2>3. me[c] \in Me
    BY <2>1 DEF DInv, IInv, TypeOK, ClientTypeOK
  <2>4. me[c].hand[t] \in 0 .. HandSize
    BY <2>3 DEF Me, Bag
  <2>5. ASSUME me[c].hand[t] # 0
        PROVE  /\ IsFull(rooms[r])
               /\ \E k \in DOMAIN rooms[r].players :
                    rooms[r].players[k].id = u /\ me[c].hand[t] <= rooms[r].players[k].hand[t]
    <3>1. Fair(c, me[c].hand)
      BY <2>1 DEF DeckInv, HandOK
    <3>2. room[c] = r
      BY <2>2 DEF RoomsInv, SeatsOK
    <3> QED BY <2>2, <2>5, <3>1, <3>2 DEF Fair, Plays
  <2> QED BY <2>2, <2>3, <2>4, <2>5
<1>3. \A c, d \in cs : c = d
  BY <1>2, OwnerIsOne
<1>4. cs = {} \/ \E c \in cs : cs = {c}
  BY <1>3
<1>5. IsFiniteSet(cs) /\ w \in [cs -> 0 .. HandSize]
  <2>1. IsFiniteSet(cs)
    <3> HIDE DEF cs
    <3>1. CASE cs = {}
      BY <3>1, FS_EmptySet
    <3>2. ASSUME NEW c, cs = {c} PROVE IsFiniteSet(cs)
      BY <3>2, FS_Singleton
    <3> QED BY <1>4, <3>1, <3>2
  <2> QED BY <1>2, <2>1
<1>6. \A s \in SUBSET cs : s # {} => w[Pick(s)] = me[Pick(s)].hand[t]
  BY DEF Pick
<1>7. PICK F : F = (CHOOSE G : G = [s \in SUBSET cs |-> IF s = {} THEN 0 ELSE me[Pick(s)].hand[t] + G[s \ {Pick(s)}]])
  OBVIOUS
<1>8. HeldBy(u, t) = F[cs]
  BY <1>7 DEF HeldBy, MapThenSumSet, MapThenFoldSet, Pick
<1>9. ASSUME NEW G
      PROVE  G = [s \in SUBSET cs |-> IF s = {} THEN 0 ELSE me[Pick(s)].hand[t] + G[s \ {Pick(s)}]]
               <=> SumsTo(G, cs, w)
  <2> HIDE DEF cs, w
  <2> QED BY <1>6 DEF SumsTo
<1> HIDE DEF cs, w
<1>10. PICK E : SumsTo(E, cs, w)
  BY <1>1, <1>5, SumExists
<1>11. SumsTo(F, cs, w)
  <2>1. E = [s \in SUBSET cs |-> IF s = {} THEN 0 ELSE me[Pick(s)].hand[t] + E[s \ {Pick(s)}]]
    BY <1>9, <1>10
  <2>2. F = [s \in SUBSET cs |-> IF s = {} THEN 0 ELSE me[Pick(s)].hand[t] + F[s \ {Pick(s)}]]
    BY <1>7, <2>1
  <2> QED BY <1>9, <2>2
<1>12. F[cs] = Cardinality(Units(cs, w, HandSize))
  BY <1>1, <1>5, <1>11, SumIsUnits
<1>13. CASE cs = {}
  <2>1. Units(cs, w, HandSize) = {}
    BY <1>13 DEF Units
  <2>2. HeldBy(u, t) = 0
    BY <1>8, <1>12, <2>1, FS_EmptySet
  <2> QED BY <1>1, <2>2
<1>14. ASSUME NEW c \in cs, cs = {c}
       PROVE  HeldBy(u, t) = me[c].hand[t]
  <2>1. Cardinality(Units(cs, w, HandSize)) = w[c] + Cardinality(Units(cs \ {c}, w, HandSize))
    BY <1>1, <1>5, UnitsAdd
  <2>2. Units(cs \ {c}, w, HandSize) = {}
    BY <1>14 DEF Units
  <2>3. w[c] \in Nat /\ w[c] = me[c].hand[t]
    BY <1>1, <1>5 DEF w
  <2>4. Cardinality(Units(cs \ {c}, w, HandSize)) = 0
    BY <2>2, FS_EmptySet
  <2>5. Cardinality(Units(cs, w, HandSize)) = w[c]
    BY <2>1, <2>3, <2>4
  <2> QED BY <1>8, <1>12, <2>3, <2>5
<1> QED BY <1>2, <1>4, <1>13, <1>14

\* The cards of two players are at different positions of the deck.
LEMMA SlicesApart ==
  ASSUME NEW i \in 1 .. MaxPlayers, NEW k \in 1 .. MaxPlayers
  PROVE  /\ Slice(i) \subseteq DOMAIN Deck /\ IsFiniteSet(Slice(i))
         /\ i # k => Slice(i) \cap Slice(k) = {}
<1>1. HandSize \in Nat /\ MaxPlayers \in Nat /\ i \in Nat /\ k \in Nat
  BY NetworkAssumption, GameAssumption
<1>2. Slice(i) \subseteq DOMAIN Deck
  <2>1. DOMAIN Deck = 1 .. Len(Deck) /\ Len(Deck) \in Nat /\ MaxPlayers * HandSize <= Len(Deck)
    BY GameAssumption, LenProperties
  <2>2. PICK a \in Int, b \in Int : a = (i - 1) * HandSize + 1 /\ b = i * HandSize
    BY <1>1
  <2>3. 1 <= a
    BY <1>1, <2>2
  <2>4. i * HandSize <= MaxPlayers * HandSize
    BY <1>1
  <2>5. PICK n \in Nat : n = MaxPlayers * HandSize
    BY <1>1
  <2>6. b <= Len(Deck)
    BY <2>1, <2>2, <2>4, <2>5
  <2>7. a .. b \subseteq 1 .. Len(Deck)
    BY <2>1, <2>3, <2>6
  <2> QED BY <2>1, <2>2, <2>7 DEF Slice
<1>3. ASSUME NEW x \in Nat, NEW y \in Nat, x < y PROVE Slice(x) \cap Slice(y) = {}
  <2>1. x * HandSize <= (y - 1) * HandSize
    BY <1>1, <1>3
  <2>2. PICK a \in Int, b \in Int : a = x * HandSize /\ b = (y - 1) * HandSize
    BY <1>1
  <2>3. a <= b
    BY <2>1, <2>2
  <2> QED BY <2>2, <2>3 DEF Slice
<1>4. i # k => Slice(i) \cap Slice(k) = {}
  <2>1. i < k \/ k < i \/ i = k
    BY <1>1
  <2> QED BY <1>1, <1>3, <2>1
<1> QED BY <1>1, <1>2, <1>4, SliceSize


\* The deck is finite.
LEMMA DeckFinite ==
  ASSUME NEW t
  PROVE  IsFiniteSet({i \in DOMAIN Deck : Deck[i] = t}) /\ Cardinality({i \in DOMAIN Deck : Deck[i] = t}) \in Nat
<1>1. PICK n \in Nat : DOMAIN Deck = 1 .. n
  BY GameAssumption, LenProperties
<1>2. IsFiniteSet(1 .. n)
  BY FS_Interval
<1>3. PICK D : D = {i \in DOMAIN Deck : Deck[i] = t}
  OBVIOUS
<1>4. D \in SUBSET (1 .. n)
  BY <1>1, <1>3
<1>5. IsFiniteSet(D)
  BY <1>2, <1>4, FS_Subset
<1> QED BY <1>3, <1>5, FS_CardinalityType

\* Every card a player of the table holds is at a place of the deck of its own.
LEMMA HandsFromDeck ==
  ASSUME TurnInv, DeckInv, NEW r \in RoomNames, NEW t \in CardTypes, IsFull(rooms[r]),
         NEW w \in [Seats(r) -> 0 .. HandSize],
         \A u \in Seats(r) : w[u] # 0 => \E k \in DOMAIN rooms[r].players :
            rooms[r].players[k].id = u /\ w[u] <= rooms[r].players[k].hand[t]
  PROVE  Cardinality(Units(Seats(r), w, HandSize)) <= Cardinality({i \in DOMAIN Deck : Deck[i] = t})
<1> USE DEF TurnInv
<1>1. HandSize \in Nat
  BY NetworkAssumption
<1>2. PICK s : s = rooms[r].players
  OBVIOUS
<1>3. s \in Seq(Player) /\ DOMAIN s = 1 .. MaxPlayers
  BY <1>2, LenProperties DEF DInv, IInv, TypeOK, GameTypeOK, Room, IsFull
<1>4. PICK p \in Shuffles : \A k \in DOMAIN s : s[k].hand = HandOf(p, k)
  BY <1>2 DEF DeckInv, Dealt, FromDeck
<1>5. p \in [DOMAIN Deck -> DOMAIN Deck] /\ \A j, k \in DOMAIN Deck : p[j] = p[k] => j = k
  BY DEF Shuffles
<1> DEFINE D == {i \in DOMAIN Deck : Deck[i] = t}
           C(k) == {j \in Slice(k) : Deck[p[j]] = t}
           b == [k \in DOMAIN s |-> CHOOSE f : f \in Bijection(1 .. Cardinality(C(k)), C(k))]
           seat == [u \in Seats(r) |-> CHOOSE k \in DOMAIN s : s[k].id = u]
           E == Units(Seats(r), w, HandSize)
           g == [e \in E |-> p[b[seat[e[1]]][e[2]]]]
<1>6. ASSUME NEW k \in DOMAIN s
      PROVE  /\ s[k].hand[t] = Cardinality(C(k)) /\ C(k) \subseteq Slice(k) /\ Slice(k) \subseteq DOMAIN Deck
             /\ b[k] \in [1 .. Cardinality(C(k)) -> C(k)] /\ Cardinality(C(k)) \in Nat
             /\ \A x, y \in 1 .. Cardinality(C(k)) : b[k][x] = b[k][y] => x = y
  <2>1. s[k].hand[t] = Cardinality(C(k))
    BY <1>4 DEF HandOf
  <2>2. C(k) \in SUBSET Slice(k)
    OBVIOUS
  <2>3. Slice(k) \subseteq DOMAIN Deck /\ IsFiniteSet(Slice(k))
    BY <1>3, SlicesApart
  <2>4. b[k] = CHOOSE f : f \in Bijection(1 .. Cardinality(C(k)), C(k))
    OBVIOUS
  <2>5. PICK A : A = C(k)
    OBVIOUS
  <2>6. IsFiniteSet(A)
    BY <2>2, <2>3, <2>5, FS_Subset
  <2>7. Cardinality(A) \in Nat /\ ExistsBijection(1 .. Cardinality(A), A)
    BY <2>6, FS_CardinalityType
  <2>8. b[k] \in Bijection(1 .. Cardinality(A), A)
    BY <2>4, <2>5, <2>7 DEF ExistsBijection
  <2>9. b[k] \in [1 .. Cardinality(A) -> A] /\ \A x, y \in 1 .. Cardinality(A) : b[k][x] = b[k][y] => x = y
    BY <2>8 DEF Bijection, Injection, IsInjective
  <2> QED BY <2>1, <2>2, <2>3, <2>5, <2>7, <2>9
<1>7. ASSUME NEW u \in Seats(r)
      PROVE  seat[u] \in DOMAIN s /\ s[seat[u]].id = u /\ \A k \in DOMAIN s : s[k].id = u => k = seat[u]
  <2>1. \E k \in DOMAIN s : s[k].id = u
    BY <1>2 DEF Seats
  <2>2. seat[u] \in DOMAIN s /\ s[seat[u]].id = u
    BY <2>1
  <2>3. \A k \in DOMAIN s : s[k].id = u => k = seat[u]
    BY <1>2, <2>2 DEF RoomsInv, SeatsOK
  <2> QED BY <2>2, <2>3
<1> HIDE DEF C, b, seat
<1>8. ASSUME NEW e \in E
      PROVE  /\ e[1] \in Seats(r) /\ e[2] \in Nat /\ e = <<e[1], e[2]>>
             /\ seat[e[1]] \in DOMAIN s /\ e[2] \in 1 .. Cardinality(C(seat[e[1]]))
             /\ b[seat[e[1]]][e[2]] \in C(seat[e[1]])
  <2>1. e[1] \in Seats(r) /\ e[2] \in 1 .. HandSize /\ e[2] <= w[e[1]] /\ e = <<e[1], e[2]>>
    BY DEF Units
  <2>2. w[e[1]] \in 0 .. HandSize
    BY <2>1
  <2>3. w[e[1]] # 0
    BY <1>1, <2>1, <2>2
  <2>4. PICK k \in DOMAIN s : s[k].id = e[1] /\ w[e[1]] <= s[k].hand[t]
    BY <1>2, <2>1, <2>3
  <2>5. k = seat[e[1]] /\ s[k].hand[t] = Cardinality(C(k)) /\ Cardinality(C(k)) \in Nat
    BY <1>6, <1>7, <2>1, <2>4
  <2>6. e[2] \in 1 .. Cardinality(C(k))
    BY <1>1, <2>1, <2>2, <2>4, <2>5
  <2>7. b[k][e[2]] \in C(k)
    BY <1>6, <2>6
  <2> QED BY <1>1, <2>1, <2>5, <2>6, <2>7
<1>9. ASSUME NEW e \in E PROVE g[e] \in D
  <2>1. PICK j : j = b[seat[e[1]]][e[2]]
    OBVIOUS
  <2>2. j \in DOMAIN Deck /\ Deck[p[j]] = t
    <3>1. PICK k \in DOMAIN s : k = seat[e[1]]
      BY <1>8
    <3>2. j \in C(k) /\ C(k) \subseteq Slice(k) /\ Slice(k) \subseteq DOMAIN Deck
      BY <1>6, <1>8, <2>1, <3>1
    <3> QED BY <3>2 DEF C
  <2>3. g[e] = p[j]
    BY <2>1
  <2> QED BY <1>5, <2>2, <2>3
<1>10. ASSUME NEW e \in E, NEW d \in E, g[e] = g[d] PROVE e = d
  <2>1. PICK j, k : j = b[seat[e[1]]][e[2]] /\ k = b[seat[d[1]]][d[2]]
    OBVIOUS
  <2>2. p[j] = p[k]
    BY <1>10, <2>1
  <2>3. j \in C(seat[e[1]]) /\ k \in C(seat[d[1]])
    BY <1>8, <2>1
  <2>4. j \in Slice(seat[e[1]]) /\ k \in Slice(seat[d[1]]) /\ j \in DOMAIN Deck /\ k \in DOMAIN Deck
    BY <1>6, <1>8, <2>3
  <2>5. j = k
    BY <1>5, <2>2, <2>4
  <2>6. seat[e[1]] = seat[d[1]]
    <3>1. seat[e[1]] \in 1 .. MaxPlayers /\ seat[d[1]] \in 1 .. MaxPlayers
      BY <1>3, <1>8
    <3> QED BY <2>4, <2>5, <3>1, SlicesApart
  <2>7. e[1] = d[1]
    BY <1>7, <1>8, <2>6
  <2>8. e[2] = d[2]
    <3>1. PICK i \in DOMAIN s : i = seat[e[1]]
      BY <1>8
    <3>2. e[2] \in 1 .. Cardinality(C(i)) /\ d[2] \in 1 .. Cardinality(C(i)) /\ b[i][e[2]] = b[i][d[2]]
      BY <1>8, <2>1, <2>5, <2>6, <3>1
    <3> QED BY <1>6, <3>2
  <2> QED BY <1>8, <2>7, <2>8
<1> HIDE DEF E, g, D
<1>11. g \in Injection(E, D)
  <2>1. g \in [E -> D]
    <3>1. \A e \in E : g[e] \in D
      BY <1>9
    <3> QED BY <3>1 DEF g
  <2> QED BY <1>10, <2>1 DEF Injection, IsInjective
<1>12. IsFiniteSet(D)
  BY DeckFinite DEF D
<1>13. Cardinality(E) <= Cardinality(D)
  BY <1>11, <1>12, FS_Injection
<1> QED BY <1>13 DEF E, D

LEMMA DeckIsOne ==
  ASSUME TurnInv, DeckInv
  PROVE  OneDeck
<1> USE DEF TurnInv
<1> SUFFICES ASSUME NEW r \in RoomNames, NEW t \in CardTypes
             PROVE  MapThenSumSet(LAMBDA u : HeldBy(u, t), Seats(r)) <= Cardinality({i \in DOMAIN Deck : Deck[i] = t})
  BY DEF OneDeck
<1>1. HandSize \in Nat
  BY NetworkAssumption
<1>2. PICK S : S = Seats(r)
  OBVIOUS
<1> DEFINE w == [u \in S |-> HeldBy(u, t)]
<1>3. IsFiniteSet(S)
  <2>1. PICK s : s = rooms[r].players
    OBVIOUS
  <2>2. s \in Seq(Player)
    BY <2>1 DEF DInv, IInv, TypeOK, GameTypeOK, Room
  <2>3. DOMAIN s = 1 .. Len(s) /\ Len(s) \in Nat
    BY <2>2, LenProperties
  <2>4. IsFiniteSet(DOMAIN s)
    BY <2>3, FS_Interval
  <2> DEFINE f == [k \in DOMAIN s |-> s[k].id]
  <2>5. f \in Surjection(DOMAIN s, S)
    BY <1>2, <2>1 DEF Seats, Surjection
  <2> HIDE DEF f
  <2> QED BY <2>4, <2>5, FS_Surjection
<1>4. w \in [S -> 0 .. HandSize]
  BY <1>2, HeldByOne
<1>5. \A s \in SUBSET S : s # {} => w[Pick(s)] = HeldBy(Pick(s), t)
  BY DEF Pick
<1>6. PICK F : F = (CHOOSE G : G = [s \in SUBSET S |-> IF s = {} THEN 0 ELSE HeldBy(Pick(s), t) + G[s \ {Pick(s)}]])
  OBVIOUS
<1>7. MapThenSumSet(LAMBDA u : HeldBy(u, t), Seats(r)) = F[S]
  BY <1>2, <1>6 DEF MapThenSumSet, MapThenFoldSet, Pick
<1>8. ASSUME NEW G
      PROVE  G = [s \in SUBSET S |-> IF s = {} THEN 0 ELSE HeldBy(Pick(s), t) + G[s \ {Pick(s)}]]
               <=> SumsTo(G, S, w)
  <2> HIDE DEF w
  <2> QED BY <1>5 DEF SumsTo
<1> HIDE DEF w
<1>9. PICK E : SumsTo(E, S, w)
  BY <1>1, <1>3, <1>4, SumExists
<1>10. SumsTo(F, S, w)
  <2>1. E = [s \in SUBSET S |-> IF s = {} THEN 0 ELSE HeldBy(Pick(s), t) + E[s \ {Pick(s)}]]
    BY <1>8, <1>9
  <2>2. F = [s \in SUBSET S |-> IF s = {} THEN 0 ELSE HeldBy(Pick(s), t) + F[s \ {Pick(s)}]]
    BY <1>6, <2>1
  <2> QED BY <1>8, <2>2
<1>11. F[S] = Cardinality(Units(S, w, HandSize))
  BY <1>1, <1>3, <1>4, <1>10, SumIsUnits
<1>12. CASE IsFull(rooms[r])
  <2>1. \A u \in Seats(r) : w[u] # 0 => \E k \in DOMAIN rooms[r].players :
            rooms[r].players[k].id = u /\ w[u] <= rooms[r].players[k].hand[t]
    BY <1>2, HeldByOne DEF w
  <2> QED BY <1>2, <1>4, <1>7, <1>11, <1>12, <2>1, HandsFromDeck
<1>13. CASE ~IsFull(rooms[r])
  <2>1. \A u \in S : w[u] = 0
    BY <1>2, <1>13, HeldByOne DEF w
  <2>2. Units(S, w, HandSize) = {}
    BY <2>1 DEF Units
  <2>3. PICK D : D = {i \in DOMAIN Deck : Deck[i] = t}
    OBVIOUS
  <2>4. Cardinality(D) \in Nat
    BY <2>3, DeckFinite
  <2> QED BY <1>7, <1>11, <2>2, <2>3, <2>4, FS_EmptySet
<1> QED BY <1>12, <1>13

\* Nor do the players of a table ever hold more cards of a type than the deck
\* has: random_shuffle and the slices of dealCards give each card to one player
\* at most, a hand reaches its player and nobody else, and no choice adds cards.
THEOREM HandsOfOneDeck ==
  ASSUME OwnMillis, OwnAccountEach
  PROVE  Spec => []OneDeck
<1>1. TurnInv /\ TurnInv' /\ [Next]_vars /\ DeckInv => DeckInv'
  BY NextDeck
<1>2. Spec => []TurnInv
  BY OwnAccounts DEF TurnInv
<1>3. Init => DeckInv
  BY InitDeck
<1>4. TurnInv /\ DeckInv => OneDeck
  BY DeckIsOne
<1> QED BY <1>1, <1>2, <1>3, <1>4, PTL DEF Spec
=============================================================================
