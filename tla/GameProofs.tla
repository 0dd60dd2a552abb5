----------------------------- MODULE GameProofs -----------------------------
(***************************************************************************)
(* Proofs about the rooms and the turns of LiarsBar where no two clients   *)
(* are accepted in one millisecond and no account is used by two, for any  *)
(* number of clients, rooms, seats and cards: who sits where, where the    *)
(* turn of a room is, and that the game server outlives what it is sent.   *)
(*                                                                         *)
(* The argument follows the token of a player: the right to ask for a room *)
(* until it is seated, the turn after it.  A player has one at most, in    *)
(* one place, and nothing for the player is behind it.                     *)
(***************************************************************************)
EXTENDS LiarsBarProofs

Rejections == {"REJECT_HOST_ROOM", "REJECT_ENTER_ROOM"}
Admissions == {"ALLOW_HOST_ROOM", "ALLOW_ENTER_ROOM"}
TurnTypes == {"PLAYER_TURN", "PlAYER_TURN_OVER"}
Tokens == RoomRequests \cup Rejections \cup TurnTypes

(***************************************************************************)
(* Packet p, from or for the player at client c, is number i of the place  *)
(* at: a queue to the game server ("c2r", "over" in the relay, "gameQ") or *)
(* back ("g2r", "back" in the relay, "r2c").                               *)
(***************************************************************************)
Stages == {"c2r", "over", "gameQ", "g2r", "back", "r2c"}
At(c, at, i, p) ==
  \/ /\ at = "c2r" /\ i \in DOMAIN c2r[c]
     /\ p = c2r[c][i] /\ p.type \in GameRequests
  \/ /\ at = "over" /\ i \in DOMAIN relayQ
     /\ p = relayQ[i].pb /\ relayQ[i].from = c /\ p.type \in GameRequests
  \/ /\ at = "gameQ" /\ i \in DOMAIN gameQ
     /\ p = gameQ[i] /\ p.id = cid[c]
  \/ /\ at = "g2r" /\ i \in DOMAIN g2r
     /\ p = g2r[i] /\ p.to = cid[c]
  \/ /\ at = "back" /\ i \in DOMAIN relayQ
     /\ p = relayQ[i].pb /\ p.type \in GameReplies /\ p.to = cid[c]
  \/ /\ at = "r2c" /\ i \in DOMAIN r2c[c]
     /\ p = r2c[c][i] /\ p.type \in GameReplies

\* What reaches the client first of two packets for it.
Before(at, i, at2, i2) ==
  \/ at = at2 /\ i < i2
  \/ at = "r2c" /\ at2 \in {"back", "g2r"}
  \/ at = "back" /\ at2 = "g2r"

\* The seat of the player at client c.
Seated(u) == \E r \in RoomNames : u \in Seats(r)
SitsIn(c) == room[c] \in RoomNames /\ cid[c] \in Seats(room[c])
Plays(c) == SitsIn(c) /\ IsFull(rooms[room[c]])
HasTurn(c) == Plays(c) /\ cid[c] = HolderOfTurn(room[c])

\* What a packet says of the player it comes from or goes to.
Holds(c, p) ==
  /\ p.type \in GameRequests => p.room = room[c]
  /\ p.type \in RoomRequests \cup Rejections => ~Seated(cid[c])
  /\ p.type \in Admissions => SitsIn(c)
  /\ p.type = "ALLOW_HOST_ROOM" => rooms[room[c]].host = cid[c]
  /\ p.type \in {"ALLOW_PLAY_GAME", "DEAL_CARDS"} => Plays(c)
  /\ p.type \in TurnTypes => HasTurn(c)

\* The host has the first seat, and a player one seat in the room asked for last.
SeatsOK ==
  /\ \A r \in RoomNames :
       /\ rooms[r].players # <<>> => rooms[r].host = rooms[r].players[1].id
       /\ Len(rooms[r].players) <= MaxPlayers
       /\ ~IsFull(rooms[r]) => rooms[r].turn = 0
  /\ \A r, s \in RoomNames : \A i \in DOMAIN rooms[r].players, j \in DOMAIN rooms[s].players :
       rooms[r].players[i].id = rooms[s].players[j].id => r = s /\ i = j
  /\ \A c \in Conns, r \in RoomNames : cid[c] \in Seats(r) => room[c] = r /\ me[c] # Nobody

\* What the client has been told.
ToldOK(c) ==
  /\ notice[c] = "hosted" => rooms[room[c]].host = cid[c]
  /\ notice[c] # "none" => SitsIn(c)
  /\ io[c] = "lobby" => ~Seated(cid[c])
  /\ io[c] = "turn" => HasTurn(c)

\* What is under way for the client is true of it, and a token is alone.
PacketsOK(c) == \A at, i, p : At(c, at, i, p) => me[c] # Nobody /\ Holds(c, p)
OneOf(c, types) ==
  \A at, i, p, at2, i2, p2 :
    At(c, at, i, p) /\ At(c, at2, i2, p2) /\ p.type \in types /\ p2.type \in types => at = at2 /\ i = i2
OneToken(c) == OneOf(c, Tokens)
PageAlone(c) == \A at, i, p : At(c, at, i, p) /\ io[c] \in {"lobby", "turn"} => p.type \notin Tokens

\* At a table of two or more nothing for a player is behind the token.
LastWord(c) ==
  MaxPlayers > 1 =>
    /\ io[c] \in {"lobby", "turn"} => \A at, i, p : ~At(c, at, i, p)
    /\ \A at, i, p, at2, i2, p2 :
         At(c, at, i, p) /\ At(c, at2, i2, p2) /\ p.type \in Tokens =>
           (at = at2 /\ i = i2) \/ Before(at2, i2, at, i)

Course(c) == ToldOK(c) /\ PacketsOK(c) /\ OneToken(c) /\ PageAlone(c) /\ LastWord(c)
RoomsInv == SeatsOK /\ (\A c \in Conns : Course(c)) /\ gameUp


(***************************************************************************)
(* Packets and their places.                                               *)
(***************************************************************************)

\* A packet belongs to a player who has an account, and bears it.
LEMMA AtFacts ==
  ASSUME DInv, NEW c \in Conns, NEW at, NEW i, NEW p, At(c, at, i, p)
  PROVE  /\ i \in Int /\ 1 <= i /\ cid[c] \in Users
         /\ at \in {"c2r", "over", "gameQ"} => p \in GameRequest /\ p.type \in GameRequests /\ p.id = cid[c]
         /\ at \notin {"c2r", "over", "gameQ"} => p.type \in GameReplies /\ p.to = cid[c]
         /\ at \in Stages
<1>1. /\ c2r[c] \in Seq(ClientPacket) /\ r2c[c] \in Seq(PacketToClient)
      /\ gameQ \in Seq(GameRequest) /\ g2r \in Seq(GamePacket) /\ relayQ \in Seq(RelayPacket)
  BY RelayTypes
<1>2. CASE at = "c2r" /\ i \in DOMAIN c2r[c] /\ p = c2r[c][i] /\ p.type \in GameRequests
  <2>1. p \in GameRequest /\ i \in Int /\ 1 <= i
    BY <1>1, <1>2, QueueTypes, QueuePositions, ClientPacketKinds
  <2>2. p.id = cid[c]
    BY <1>2 DEF DInv, RequestsSigned
  <2> QED BY <1>2, <2>1, <2>2, GameRequestKinds DEF Stages
<1>3. CASE at = "over" /\ i \in DOMAIN relayQ /\ p = relayQ[i].pb /\ relayQ[i].from = c /\ p.type \in GameRequests
  <2>1. p \in GameRequest /\ i \in Int /\ 1 <= i
    BY <1>1, <1>3, QueueTypes, QueuePositions, RelayPacketKinds
  <2>2. p.id = cid[c]
    BY <1>3 DEF DInv, RequestsSigned
  <2> QED BY <1>3, <2>1, <2>2, GameRequestKinds DEF Stages
<1>4. CASE at = "gameQ" /\ i \in DOMAIN gameQ /\ p = gameQ[i] /\ p.id = cid[c]
  <2>1. p \in GameRequest /\ i \in Int /\ 1 <= i
    BY <1>1, <1>4, QueueTypes, QueuePositions
  <2>2. p.type \in GameRequests
    BY <2>1 DEF GameRequest, GameRequests
  <2> QED BY <1>4, <2>1, <2>2, GameRequestKinds DEF Stages
<1>5. CASE at = "g2r" /\ i \in DOMAIN g2r /\ p = g2r[i] /\ p.to = cid[c]
  <2>1. p \in GamePacket /\ i \in Int /\ 1 <= i
    BY <1>1, <1>5, QueueTypes, QueuePositions
  <2>2. p.type \in GameReplies /\ p.to \in Users
    BY <2>1 DEF GamePacket, GameReplies
  <2> QED BY <1>5, <2>1, <2>2 DEF Stages
<1>6. CASE at = "back" /\ i \in DOMAIN relayQ /\ p = relayQ[i].pb /\ p.type \in GameReplies /\ p.to = cid[c]
  <2>1. i \in Int /\ 1 <= i
    BY <1>1, <1>6, QueuePositions
  <2>2. IsAccount(p.to)
    BY <1>6 DEF DInv, PlayersKnown
  <2> QED BY <1>6, <2>1, <2>2 DEF Stages, IsAccount
<1>7. CASE at = "r2c" /\ i \in DOMAIN r2c[c] /\ p = r2c[c][i] /\ p.type \in GameReplies
  <2>1. p \in PacketToClient /\ i \in Int /\ 1 <= i
    BY <1>1, <1>7, QueueTypes, QueuePositions
  <2>2. p.to \in Users
    BY <1>7, <2>1, TypesDiffer DEF PacketToClient, GamePacket, LoginReplies
  <2>3. p.to = cid[c]
    BY <1>7 DEF DInv, ReachesOwn
  <2> QED BY <1>7, <2>1, <2>2, <2>3 DEF Stages
<1> QED BY <1>2, <1>3, <1>4, <1>5, <1>6, <1>7 DEF At

\* After a step places are counted from 1 as before.
LEMMA AtNext ==
  ASSUME DInv', NEW c \in Conns, NEW at, NEW i, NEW p, At(c, at, i, p)'
  PROVE  i \in Int /\ 1 <= i
<1>1. /\ c2r'[c] \in Seq(ClientPacket) /\ r2c'[c] \in Seq(PacketToClient)
      /\ gameQ' \in Seq(GameRequest) /\ g2r' \in Seq(GamePacket) /\ relayQ' \in Seq(RelayPacket)
  BY DEF DInv, IInv, TypeOK, LinksTypeOK, RelayTypeOK
<1> QED BY <1>1, QueuePositions DEF At

\* An account belongs to one connection.
LEMMA OwnerIsOne ==
  ASSUME ~SharedAccount, NEW c \in Conns, NEW d \in Conns, cid[c] \in Users, cid[d] = cid[c]
  PROVE  c = d
BY DEF SharedAccount

(***************************************************************************)
(* A step of the relay takes the first packet off a queue, perhaps puts it *)
(* at place n of the next one, and touches no other: sh are the places at  *)
(* which the rest moves up.                                                *)
(***************************************************************************)
Moved(c, from, to, n, sh) ==
  \A at, i, p : At(c, at, i, p)' =>
    IF at = to /\ i = n THEN At(c, from, 1, p)
    ELSE At(c, at, IF at \in sh THEN i + 1 ELSE i, p)
Flow(from, to, sh) ==
  \/ from = "c2r" /\ to = "over" /\ sh = {"c2r"}
  \/ from = "over" /\ to = "gameQ" /\ sh = {"over", "back"}
  \/ from = "g2r" /\ to = "back" /\ sh = {"g2r"}
  \/ from = "back" /\ to = "r2c" /\ sh = {"over", "back"}
  \/ from = "none" /\ to = "none" /\ sh = {"none"}
AddedLast(c, to, n) == \A i, p, p2 : At(c, to, i, p)' /\ At(c, to, n, p2)' => i <= n
Moves(c) ==
  \E from, to, sh : \E n \in Int : Flow(from, to, sh) /\ Moved(c, from, to, n, sh) /\ AddedLast(c, to, n)

\* The player at client c is where it was.
PlayerStays(c) ==
  /\ UNCHANGED rooms
  /\ cid'[c] = cid[c] /\ me'[c] = me[c] /\ io'[c] = io[c]
  /\ room'[c] = room[c] /\ notice'[c] = notice[c]

LEMMA PlayerStaysHolds ==
  ASSUME NEW c \in Conns, PlayerStays(c)
  PROVE  /\ \A p : Holds(c, p)' <=> Holds(c, p)
         /\ ToldOK(c)' <=> ToldOK(c)
         /\ me'[c] = me[c] /\ io'[c] = io[c]
BY DEF PlayerStays, Holds, ToldOK, Seated, SitsIn, Plays, HasTurn, Seats, HolderOfTurn, IsFull

\* What is in one place is in one place when it has moved.
LEMMA MovesKeepOne ==
  ASSUME DInv', NEW c \in Conns, Moves(c), NEW types, OneOf(c, types)
  PROVE  OneOf(c, types)'
<1> PICK from, to, sh : \E n \in Int : Flow(from, to, sh) /\ Moved(c, from, to, n, sh)
  BY DEF Moves
<1>1. PICK n \in Int : Flow(from, to, sh) /\ Moved(c, from, to, n, sh)
  OBVIOUS
<1>2. OneOf(c, types)'
  <2> SUFFICES ASSUME NEW at, NEW i, NEW p, NEW at2, NEW i2, NEW p2,
                      At(c, at, i, p)', At(c, at2, i2, p2)', p.type \in types, p2.type \in types
               PROVE  at = at2 /\ i = i2
    BY DEF OneOf
  <2>1. from \in sh
    BY <1>1 DEF Flow
  <2>2. i \in Int /\ 1 <= i /\ i2 \in Int /\ 1 <= i2
    BY AtNext
  <2>3. CASE at = to /\ i = n
    <3>1. At(c, from, 1, p)
      BY <1>1, <2>3 DEF Moved
    <3>2. CASE at2 = to /\ i2 = n
      BY <2>3, <3>2
    <3>3. CASE ~(at2 = to /\ i2 = n)
      <4>1. At(c, at2, IF at2 \in sh THEN i2 + 1 ELSE i2, p2)
        BY <1>1, <3>3 DEF Moved
      <4>2. from = at2 /\ 1 = (IF at2 \in sh THEN i2 + 1 ELSE i2)
        BY <3>1, <4>1 DEF OneOf
      <4> QED BY <2>1, <2>2, <4>2
    <3> QED BY <3>2, <3>3
  <2>4. CASE ~(at = to /\ i = n)
    <3>1. At(c, at, IF at \in sh THEN i + 1 ELSE i, p)
      BY <1>1, <2>4 DEF Moved
    <3>2. CASE at2 = to /\ i2 = n
      <4>1. At(c, from, 1, p2)
        BY <1>1, <3>2 DEF Moved
      <4>2. from = at /\ 1 = (IF at \in sh THEN i + 1 ELSE i)
        BY <3>1, <4>1 DEF OneOf
      <4> QED BY <2>1, <2>2, <4>2
    <3>3. CASE ~(at2 = to /\ i2 = n)
      <4>1. At(c, at2, IF at2 \in sh THEN i2 + 1 ELSE i2, p2)
        BY <1>1, <3>3 DEF Moved
      <4>2. at = at2 /\ (IF at \in sh THEN i + 1 ELSE i) = (IF at2 \in sh THEN i2 + 1 ELSE i2)
        BY <3>1, <4>1 DEF OneOf
      <4> QED BY <2>2, <4>2
    <3> QED BY <3>2, <3>3
  <2> QED BY <2>3, <2>4
<1> QED BY <1>2

\* What moves is the same packet, and a token is alone at its next place too.
LEMMA MovesKeepToken ==
  ASSUME DInv, DInv', NEW c \in Conns, PlayerStays(c), Moves(c), Course(c)
  PROVE  ToldOK(c)' /\ PacketsOK(c)' /\ OneToken(c)' /\ PageAlone(c)'
<1> PICK from, to, sh : \E n \in Int : Flow(from, to, sh) /\ Moved(c, from, to, n, sh)
  BY DEF Moves
<1>1. PICK n \in Int : Flow(from, to, sh) /\ Moved(c, from, to, n, sh)
  OBVIOUS
<1>2. ToldOK(c) /\ PacketsOK(c) /\ OneToken(c) /\ PageAlone(c)
  BY DEF Course
<1>3. ASSUME NEW at, NEW i, NEW p, At(c, at, i, p)'
      PROVE  \E at2, i2 : At(c, at2, i2, p)
  BY <1>1, <1>3 DEF Moved
<1>4. ToldOK(c)' /\ PacketsOK(c)' /\ PageAlone(c)'
  BY <1>2, <1>3, PlayerStaysHolds DEF PacketsOK, PageAlone
<1>5. OneToken(c)'
  BY <1>2, MovesKeepOne DEF OneToken
<1> QED BY <1>4, <1>5

\* Nor does anything overtake the token.
LEMMA MovesKeepOrder ==
  ASSUME DInv, DInv', NEW c \in Conns, PlayerStays(c), Moves(c), Course(c)
  PROVE  LastWord(c)'
<1> SUFFICES ASSUME MaxPlayers > 1 PROVE LastWord(c)'
  BY DEF LastWord
<1> USE DEF Course
<1> PICK from, to, sh : \E n \in Int : Flow(from, to, sh) /\ Moved(c, from, to, n, sh) /\ AddedLast(c, to, n)
  BY DEF Moves
<1>1. PICK n \in Int : Flow(from, to, sh) /\ Moved(c, from, to, n, sh) /\ AddedLast(c, to, n)
  OBVIOUS
<1>2. ASSUME NEW at, NEW i, NEW p, At(c, at, i, p)'
      PROVE  \E at2, i2 : At(c, at2, i2, p)
  BY <1>1, <1>2 DEF Moved
<1>3. io'[c] \in {"lobby", "turn"} => \A at, i, p : ~At(c, at, i, p)'
  BY <1>2, PlayerStaysHolds DEF LastWord
<1>4. ASSUME NEW at, NEW i, NEW p, NEW at2, NEW i2, NEW p2,
             At(c, at, i, p)', At(c, at2, i2, p2)', p.type \in Tokens
      PROVE  (at = at2 /\ i = i2) \/ Before(at2, i2, at, i)
  <2>1. i \in Int /\ 1 <= i /\ i2 \in Int /\ 1 <= i2
    BY <1>4, AtNext
  <2>2. \A k, q, k2, q2, s, s2 : At(c, s, k, q) /\ At(c, s2, k2, q2) /\ q.type \in Tokens =>
          (s = s2 /\ k = k2) \/ Before(s2, k2, s, k)
    BY DEF LastWord
  <2>3. CASE at = to /\ i = n /\ ~(at2 = to /\ i2 = n)
    <3>1. At(c, from, 1, p) /\ At(c, at2, IF at2 \in sh THEN i2 + 1 ELSE i2, p2)
      BY <1>1, <1>4, <2>3 DEF Moved
    <3>2. at2 = to => i2 <= n
      BY <1>1, <1>4, <2>3 DEF AddedLast
    <3>3. (from = at2 /\ 1 = IF at2 \in sh THEN i2 + 1 ELSE i2) \/ Before(at2, IF at2 \in sh THEN i2 + 1 ELSE i2, from, 1)
      BY <1>4, <2>2, <3>1
    <3> QED BY <1>1, <2>1, <2>3, <3>2, <3>3 DEF Flow, Before
  <2>4. CASE at2 = to /\ i2 = n /\ ~(at = to /\ i = n)
    <3>1. At(c, from, 1, p2) /\ At(c, at, IF at \in sh THEN i + 1 ELSE i, p)
      BY <1>1, <1>4, <2>4 DEF Moved
    <3>2. (at = from /\ 1 = IF at \in sh THEN i + 1 ELSE i) \/ Before(from, 1, at, IF at \in sh THEN i + 1 ELSE i)
      BY <1>4, <2>2, <3>1
    <3>3. CASE from \in {"c2r", "over"}
      <4>1. p2.type \in Tokens
        BY <3>1, <3>3, AtFacts DEF GameRequests, Tokens, TurnTypes
      <4>2. from = at /\ 1 = IF at \in sh THEN i + 1 ELSE i
        BY <1>4, <3>1, <4>1 DEF OneToken, OneOf
      <4> QED BY <1>1, <2>1, <4>2 DEF Flow
    <3>4. CASE from \notin {"c2r", "over"}
      <4>1. at \in Stages
        BY <3>1, AtFacts
      <4> QED BY <1>1, <2>1, <2>4, <3>2, <3>4, <4>1 DEF Flow, Before, Stages
    <3> QED BY <3>3, <3>4
  <2>5. CASE ~(at = to /\ i = n) /\ ~(at2 = to /\ i2 = n)
    <3>1. /\ At(c, at, IF at \in sh THEN i + 1 ELSE i, p)
          /\ At(c, at2, IF at2 \in sh THEN i2 + 1 ELSE i2, p2)
      BY <1>1, <1>4, <2>5 DEF Moved
    <3>2. \/ at = at2 /\ (IF at \in sh THEN i + 1 ELSE i) = (IF at2 \in sh THEN i2 + 1 ELSE i2)
          \/ Before(at2, IF at2 \in sh THEN i2 + 1 ELSE i2, at, IF at \in sh THEN i + 1 ELSE i)
      BY <1>4, <2>2, <3>1
    <3> QED BY <2>1, <3>2 DEF Before
  <2> QED BY <2>3, <2>4, <2>5
<1> QED BY <1>3, <1>4 DEF LastWord

LEMMA MovesKeep ==
  ASSUME DInv, DInv', NEW c \in Conns, PlayerStays(c), Moves(c), Course(c)
  PROVE  Course(c)'
BY MovesKeepToken, MovesKeepOrder DEF Course

LEMMA QueueEnd ==
  ASSUME NEW S, NEW q \in Seq(S), NEW i \in DOMAIN q
  PROVE  i <= Len(q)
BY LenProperties

LEMMA MovesBy ==
  ASSUME NEW c, NEW from, NEW to, NEW sh, NEW n \in Int,
         Flow(from, to, sh), Moved(c, from, to, n, sh), AddedLast(c, to, n)
  PROVE  Moves(c)
<1> SUFFICES \E from_1, to_1, sh_1 : \E n_1 \in Int :
               Flow(from_1, to_1, sh_1) /\ Moved(c, from_1, to_1, n_1, sh_1) /\ AddedLast(c, to_1, n_1)
  BY DEF Moves
<1> WITNESS from, to, sh
<1> WITNESS n \in Int
<1> QED OBVIOUS

\* Where nothing new is anywhere, nothing has moved.
LEMMA NothingMoved ==
  ASSUME NEW c \in Conns, \A at, i, p : At(c, at, i, p)' => At(c, at, i, p)
  PROVE  Moves(c)
<1>1. \A at, i, p : At(c, at, i, p) => at # "none"
  BY DEF At
<1>2. Moved(c, "none", "none", 0, {"none"}) /\ AddedLast(c, "none", 0)
  BY <1>1 DEF Moved, AddedLast
<1>3. Flow("none", "none", {"none"})
  BY DEF Flow
<1> QED BY <1>2, <1>3, MovesBy

LEMMA ForwardToLoginMoves ==
  ASSUME DInv, DInv', RelayStep(ForwardToLogin), NEW c \in Conns
  PROVE  Moves(c)
<1> DEFINE sh == {"over", "back"}
<1>1. PopRelay(LoginRequests) /\ UNCHANGED <<cid, c2r, r2c, gameQ, g2r>>
  BY DEF RelayStep, ForwardToLogin
<1>2. \A j \in DOMAIN relayQ' : j + 1 \in DOMAIN relayQ /\ relayQ'[j] = relayQ[j + 1]
  BY <1>1, RelayPopped
<1>3. Moved(c, "over", "gameQ", 0, sh)
  <2> SUFFICES ASSUME NEW at, NEW i, NEW p, At(c, at, i, p)'
               PROVE  /\ ~(at = "gameQ" /\ i = 0)
                      /\ At(c, at, IF at \in sh THEN i + 1 ELSE i, p)
    BY DEF Moved
  <2> QED BY <1>1, <1>2, AtNext DEF At
<1>4. AddedLast(c, "gameQ", 0)
  BY AtNext DEF AddedLast
<1>5. Flow("over", "gameQ", sh)
  BY DEF Flow
<1> QED BY <1>3, <1>4, <1>5, MovesBy

LEMMA ForwardToGameMoves ==
  ASSUME DInv, ~SharedAccount, RelayStep(ForwardToGame), NEW c \in Conns
  PROVE  Moves(c)
<1> DEFINE sh == {"over", "back"}
<1>1. /\ PopRelay(GameRequests) /\ gameQ' = Append(gameQ, Head(relayQ).pb)
      /\ UNCHANGED <<cid, c2r, r2c, g2r>>
  BY DEF RelayStep, ForwardToGame
<1>2. /\ 1 \in DOMAIN relayQ /\ Head(relayQ) = relayQ[1] /\ relayQ[1].pb.type \in GameRequests
      /\ \A j \in DOMAIN relayQ' : j + 1 \in DOMAIN relayQ /\ relayQ'[j] = relayQ[j + 1]
  BY <1>1, RelayPopped
<1>3. PICK m \in GameRequest : m = relayQ[1].pb /\ relayQ[1].from \in Conns /\ m.id \in Users
  BY <1>2, QueuedFacts, RelayPacketKinds, GameRequestKinds
<1>4. m.id = cid[relayQ[1].from]
  BY <1>2, <1>3 DEF DInv, RequestsSigned
<1>5. PICK n \in Int : n = Len(gameQ) + 1
  BY RelayTypes, QueuePositions
<1>6. \A j \in DOMAIN gameQ' : (j \in DOMAIN gameQ /\ gameQ'[j] = gameQ[j] /\ j \in Int /\ j < n) \/ (j = n /\ gameQ'[j] = m)
  <2>1. gameQ' = Append(gameQ, m) /\ gameQ \in Seq(GameRequest) /\ Len(gameQ) \in Nat
    BY <1>1, <1>2, <1>3, RelayTypes, QueuePositions
  <2> QED BY <1>5, <2>1, QueuePositions, QueueEnd
<1>7. Moved(c, "over", "gameQ", n, sh)
  <2> SUFFICES ASSUME NEW at, NEW i, NEW p, At(c, at, i, p)'
               PROVE  IF at = "gameQ" /\ i = n THEN At(c, "over", 1, p)
                      ELSE At(c, at, IF at \in sh THEN i + 1 ELSE i, p)
    BY DEF Moved
  <2>1. CASE at = "gameQ" /\ i = n
    <3>1. p.id = cid[c] /\ i \in DOMAIN gameQ' /\ p = gameQ'[i]
      BY <1>1, <2>1 DEF At
    <3>2. p = m
      BY <1>6, <2>1, <3>1
    <3>3. relayQ[1].from = c
      BY <1>3, <1>4, <3>1, <3>2, OwnerIsOne
    <3> QED BY <1>2, <1>3, <2>1, <3>2, <3>3 DEF At
  <2>2. CASE at = "gameQ" /\ i # n
    BY <1>1, <1>6, <2>2 DEF At
  <2>3. CASE at # "gameQ"
    BY <1>1, <1>2, <2>3 DEF At
  <2> QED BY <2>1, <2>2, <2>3
<1>8. AddedLast(c, "gameQ", n)
  BY <1>6 DEF AddedLast, At
<1>9. Flow("over", "gameQ", sh)
  BY DEF Flow
<1> QED BY <1>7, <1>8, <1>9, MovesBy

LEMMA ForwardToClientMoves ==
  ASSUME DInv, DInv', RelayStep(ForwardToClient), NEW c \in Conns
  PROVE  Moves(c)
<1> DEFINE sh == {"over", "back"}
           types == (LoginReplies \ {"ACCEPT_LOG_IN"}) \cup GameReplies
<1>1. /\ PopRelay(types)
      /\ \/ clients[Head(relayQ).pb.to] # Nobody /\ SendTo(clients[Head(relayQ).pb.to], Head(relayQ).pb)
         \/ UNCHANGED r2c
      /\ UNCHANGED <<cid, c2r, gameQ, g2r>>
  BY DEF RelayStep, ForwardToClient
<1>2. /\ 1 \in DOMAIN relayQ /\ Head(relayQ) = relayQ[1] /\ relayQ[1].pb.type \in types
      /\ \A j \in DOMAIN relayQ' : j + 1 \in DOMAIN relayQ /\ relayQ'[j] = relayQ[j + 1]
  BY <1>1, RelayPopped
<1>3. PICK m \in PacketToClient : m = relayQ[1].pb /\ m.to \in Ids
  <2>1. types \subseteq LoginReplies \cup GameReplies /\ "ACCEPT_LOG_IN" \notin types
    BY DEF GameReplies, RoomReplies
  <2> QED BY <1>2, <2>1, ReplyFacts, ServerPacketKinds
<1>4. /\ r2c[c] \in Seq(PacketToClient) /\ r2c \in [Conns -> Seq(PacketToClient)]
  BY RelayTypes
<1>5. PICK n \in Int : n = Len(r2c[c]) + 1
  BY <1>4, QueuePositions
<1>6. \A j \in DOMAIN r2c'[c] : \/ j \in DOMAIN r2c[c] /\ r2c'[c][j] = r2c[c][j] /\ j \in Int /\ j < n
                                \/ j = n /\ r2c'[c][j] = m /\ m.to = cid[c]
  <2>1. CASE UNCHANGED r2c
    BY <1>4, <1>5, <2>1, QueuePositions, QueueEnd
  <2>2. CASE clients[m.to] # Nobody /\ SendTo(clients[m.to], m)
    <3>1. clients[m.to] \in Conns /\ cid[clients[m.to]] = m.to
      BY <1>3, <2>2, MapFacts
    <3>2. CASE clients[m.to] # c
      <4>1. r2c'[c] = r2c[c]
        BY <1>4, <2>2, <3>1, <3>2 DEF SendTo
      <4> QED BY <1>4, <1>5, <4>1, QueuePositions, QueueEnd
    <3>3. CASE clients[m.to] = c
      <4>1. r2c'[c] = r2c[c] \/ r2c'[c] = Append(r2c[c], m)
        BY <1>4, <2>2, <3>3 DEF SendTo
      <4> QED BY <1>4, <1>5, <3>1, <3>3, <4>1, QueuePositions, QueueEnd
    <3> QED BY <3>2, <3>3
  <2> QED BY <1>1, <1>2, <1>3, <2>1, <2>2
<1>7. Moved(c, "back", "r2c", n, sh)
  <2> SUFFICES ASSUME NEW at, NEW i, NEW p, At(c, at, i, p)'
               PROVE  IF at = "r2c" /\ i = n THEN At(c, "back", 1, p)
                      ELSE At(c, at, IF at \in sh THEN i + 1 ELSE i, p)
    BY DEF Moved
  <2>1. CASE at = "r2c"
    <3>1. i \in DOMAIN r2c'[c] /\ p = r2c'[c][i] /\ p.type \in GameReplies
      BY <2>1 DEF At
    <3>2. CASE i = n
      <4>1. p = relayQ[1].pb /\ p.to = cid[c]
        BY <1>3, <1>6, <3>1, <3>2
      <4> QED BY <1>2, <2>1, <3>1, <3>2, <4>1 DEF At
    <3>3. CASE i # n
      BY <1>6, <2>1, <3>1, <3>3 DEF At
    <3> QED BY <3>2, <3>3
  <2>2. CASE at # "r2c"
    BY <1>1, <1>2, <2>2 DEF At
  <2> QED BY <2>1, <2>2
<1>8. AddedLast(c, "r2c", n)
  BY <1>6 DEF AddedLast, At
<1>9. Flow("back", "r2c", sh)
  BY DEF Flow
<1> QED BY <1>7, <1>8, <1>9, MovesBy

LEMMA FinishRekeyMoves ==
  ASSUME DInv, RelayStep(FinishRekey), NEW c \in Conns
  PROVE  Moves(c)
<1>1. /\ rekey # Nobody /\ SendTo(rekey.c, [type |-> "ACCEPT_LOG_IN", to |-> rekey.id])
      /\ UNCHANGED <<cid, c2r, relayQ, gameQ, g2r>>
  BY DEF RelayStep, FinishRekey
<1>2. PICK d \in Conns, u \in Users : rekey.c = d /\ rekey.id = u
  <2>1. rekey.c \in Conns
    BY <1>1, RelayTypes DEF Rekeying
  <2> QED BY <1>1, <2>1, ConnFacts
<1>3. PICK m \in PacketToClient : m = [type |-> "ACCEPT_LOG_IN", to |-> u]
  BY DEF PacketToClient
<1>4. \A j \in DOMAIN r2c'[c] : r2c'[c][j] = m \/ (j \in DOMAIN r2c[c] /\ r2c'[c][j] = r2c[c][j])
  <2>1. r2c[c] \in Seq(PacketToClient)
    BY RelayTypes
  <2>2. r2c'[c] = r2c[c] \/ r2c'[c] = Append(r2c[c], m)
    BY <1>1, <1>2, <1>3, RelayTypes DEF SendTo
  <2>3. CASE r2c'[c] = Append(r2c[c], m)
    BY <2>1, <2>3, QueuePositions
  <2> QED BY <2>2, <2>3
<1>5. m.type \notin GameReplies
  BY <1>3 DEF GameReplies, RoomReplies
<1>6. \A at, i, p : At(c, at, i, p)' => At(c, at, i, p)
  BY <1>1, <1>4, <1>5 DEF At
<1> QED BY <1>6, NothingMoved

LEMMA ReceiveFromClientMoves ==
  ASSUME DInv, DInv', NEW d \in Conns, RelayStep(ReceiveFromClient(d)), NEW c \in Conns
  PROVE  Moves(c)
<1>1. /\ c2r[d] # <<>> /\ c2r' = [c2r EXCEPT ![d] = Tail(@)]
      /\ relayQ' = Append(relayQ, [pb |-> Head(c2r[d]), from |-> d])
      /\ UNCHANGED <<cid, r2c, gameQ, g2r>>
  BY DEF RelayStep, ReceiveFromClient
<1>2. c2r[d] \in Seq(ClientPacket)
  BY RelayTypes
<1>3. PICK m \in ClientPacket : m = Head(c2r[d]) /\ m = c2r[d][1] /\ 1 \in DOMAIN c2r[d]
  BY <1>1, <1>2, QueueTypes, QueuePositions
<1>4. m.type \notin GameReplies
  BY ClientPacketKinds, TypesDiffer
<1>5. PICK e \in RelayPacket : e.pb = m /\ e.from = d /\ relayQ' = Append(relayQ, e)
  BY <1>1, <1>3 DEF RelayPacket
<1>6. PICK n \in Int : n = Len(relayQ) + 1
  BY RelayTypes, QueuePositions
<1>7. \A j \in DOMAIN relayQ' : \/ j \in DOMAIN relayQ /\ relayQ'[j] = relayQ[j] /\ j \in Int /\ j < n
                                \/ j = n /\ relayQ'[j] = e
  BY <1>5, <1>6, RelayTypes, QueuePositions, QueueEnd
<1>8. CASE c # d
  <2>1. c2r'[c] = c2r[c]
    BY <1>1, <1>8, RelayTypes
  <2>2. \A at, i, p : At(c, at, i, p)' => At(c, at, i, p)
    BY <1>1, <1>4, <1>5, <1>7, <1>8, <2>1 DEF At
  <2> QED BY <2>2, NothingMoved
<1>9. CASE c = d
  <2>1. \A j \in DOMAIN c2r'[c] : j + 1 \in DOMAIN c2r[c] /\ c2r'[c][j] = c2r[c][j + 1]
    BY <1>1, <1>2, <1>9, RelayTypes, QueuePositions
  <2>2. Moved(c, "c2r", "over", n, {"c2r"})
    <3> SUFFICES ASSUME NEW at, NEW i, NEW p, At(c, at, i, p)'
                 PROVE  IF at = "over" /\ i = n THEN At(c, "c2r", 1, p)
                        ELSE At(c, at, IF at \in {"c2r"} THEN i + 1 ELSE i, p)
      BY DEF Moved
    <3>1. CASE at = "over"
      <4>1. n \notin DOMAIN relayQ
        BY <1>6, RelayTypes, QueueEnd, QueuePositions
      <4> QED BY <1>3, <1>5, <1>7, <1>9, <3>1, <4>1 DEF At
    <3>2. CASE at = "back"
      BY <1>1, <1>4, <1>5, <1>7, <3>2 DEF At
    <3>3. CASE at = "c2r"
      BY <2>1, <3>3 DEF At
    <3>4. CASE at \notin {"over", "back", "c2r"}
      BY <1>1, <3>4 DEF At
    <3> QED BY <3>1, <3>2, <3>3, <3>4
  <2>3. AddedLast(c, "over", n)
    BY <1>7 DEF AddedLast, At
  <2>4. Flow("c2r", "over", {"c2r"})
    BY DEF Flow
  <2> QED BY <2>2, <2>3, <2>4, MovesBy
<1> QED BY <1>8, <1>9

LEMMA ReceiveFromLoginMoves ==
  ASSUME DInv, RelayStep(ReceiveFromLogin), NEW c \in Conns
  PROVE  Moves(c)
<1>1. /\ l2r # <<>> /\ relayQ' = Append(relayQ, [pb |-> Head(l2r), from |-> Nobody])
      /\ UNCHANGED <<cid, c2r, r2c, gameQ, g2r>>
  BY DEF RelayStep, ReceiveFromLogin
<1>2. PICK m \in LoginReply : m = Head(l2r) /\ m.type \in LoginReplies
  BY <1>1, RelayTypes, QueueTypes DEF LoginReply
<1>3. PICK e \in RelayPacket : e.pb = m /\ relayQ' = Append(relayQ, e)
  BY <1>1, <1>2 DEF RelayPacket, ServerPacket
<1>4. m.type \notin GameRequests \cup GameReplies
  BY <1>2, TypesDiffer
<1>5. \A j \in DOMAIN relayQ' : relayQ'[j] = e \/ (j \in DOMAIN relayQ /\ relayQ'[j] = relayQ[j])
  BY <1>3, RelayTypes, QueuePositions
<1>6. \A at, i, p : At(c, at, i, p)' => At(c, at, i, p)
  BY <1>1, <1>3, <1>4, <1>5 DEF At
<1> QED BY <1>6, NothingMoved

LEMMA ReceiveFromGameMoves ==
  ASSUME DInv, RelayStep(ReceiveFromGame), NEW c \in Conns
  PROVE  Moves(c)
<1>1. /\ g2r # <<>> /\ g2r' = Tail(g2r) /\ relayQ' = Append(relayQ, [pb |-> Head(g2r), from |-> Nobody])
      /\ UNCHANGED <<cid, c2r, r2c, gameQ>>
  BY DEF RelayStep, ReceiveFromGame
<1>2. PICK m \in GamePacket : m = Head(g2r) /\ m = g2r[1] /\ 1 \in DOMAIN g2r
  BY <1>1, RelayTypes, QueueTypes, QueuePositions
<1>3. m.type \notin GameRequests
  BY TypesDiffer DEF GamePacket, GameReplies
<1>4. PICK e \in RelayPacket : e.pb = m /\ relayQ' = Append(relayQ, e)
  BY <1>1, <1>2 DEF RelayPacket, ServerPacket
<1>5. PICK n \in Int : n = Len(relayQ) + 1
  BY RelayTypes, QueuePositions
<1>6. \A j \in DOMAIN relayQ' : \/ j \in DOMAIN relayQ /\ relayQ'[j] = relayQ[j] /\ j \in Int /\ j < n
                                \/ j = n /\ relayQ'[j] = e
  BY <1>4, <1>5, RelayTypes, QueuePositions, QueueEnd
<1>7. \A j \in DOMAIN g2r' : j + 1 \in DOMAIN g2r /\ g2r'[j] = g2r[j + 1]
  BY <1>1, RelayTypes, QueuePositions
<1>8. Moved(c, "g2r", "back", n, {"g2r"})
  <2> SUFFICES ASSUME NEW at, NEW i, NEW p, At(c, at, i, p)'
               PROVE  IF at = "back" /\ i = n THEN At(c, "g2r", 1, p)
                      ELSE At(c, at, IF at \in {"g2r"} THEN i + 1 ELSE i, p)
    BY DEF Moved
  <2>1. CASE at = "back"
    <3>1. n \notin DOMAIN relayQ
      BY <1>5, RelayTypes, QueueEnd, QueuePositions
    <3> QED BY <1>1, <1>2, <1>4, <1>6, <2>1, <3>1 DEF At
  <2>2. CASE at = "over"
    BY <1>3, <1>4, <1>6, <2>2 DEF At
  <2>3. CASE at = "g2r"
    BY <1>1, <1>7, <2>3 DEF At
  <2>4. CASE at \notin {"over", "back", "g2r"}
    BY <1>1, <2>4 DEF At
  <2> QED BY <2>1, <2>2, <2>3, <2>4
<1>9. AddedLast(c, "back", n)
  BY <1>6 DEF AddedLast, At
<1>10. Flow("g2r", "back", {"g2r"})
  BY DEF Flow
<1> QED BY <1>8, <1>9, <1>10, MovesBy

LEMMA WorkerMoves ==
  ASSUME DInv, NEW d \in Conns, NEW c \in Conns,
         RelayStep(NoticeReset(d)) \/ RelayStep(NoticeEof(d)) \/ RelayStep(NoticeFailedWrite(d))
  PROVE  Moves(c)
<1>1. /\ UNCHANGED c2r \/ c2r' = [c2r EXCEPT ![d] = <<>>]
      /\ UNCHANGED <<cid, relayQ, r2c, gameQ, g2r>>
  BY DEF RelayStep, NoticeReset, NoticeEof, NoticeFailedWrite, Drop
<1>2. c2r'[c] = c2r[c] \/ c2r'[c] = <<>>
  BY <1>1, RelayTypes
<1>3. \A at, i, p : At(c, at, i, p)' => At(c, at, i, p)
  BY <1>1, <1>2 DEF At
<1> QED BY <1>3, NothingMoved

\* Who sits somewhere has an account that a connection has.
LEMMA SeatedAreAccounts ==
  ASSUME DInv, NEW u, Seated(u)
  PROVE  IsAccount(u)
BY DEF Seated, Seats, DInv, PlayersKnown

\* Nobody loses the account another has too.
LEMMA SharedStays ==
  ASSUME DInv, \A c \in Conns : cid[c] \in Users => cid'[c] = cid[c], SharedAccount
  PROVE  SharedAccount'
<1>1. PICK c \in Conns, d \in Conns : c # d /\ cid[c] \in Users /\ cid[c] = cid[d]
  BY DEF SharedAccount
<1>2. cid'[c] = cid[c] /\ cid'[d] = cid[d]
  BY <1>1
<1> QED BY <1>1, <1>2 DEF SharedAccount

\* A step of the relay that gives nobody an id moves packets only.
LEMMA RelayMovesKeep ==
  ASSUME DInv, DInv', RoomsInv, UNCHANGED <<clientVars, gameVars, cid>>, \A c \in Conns : Moves(c)
  PROVE  RoomsInv'
<1>1. UNCHANGED <<rooms, gameUp, cid, me, io, room, notice>>
  BY DEF clientVars, gameVars
<1>2. SeatsOK'
  BY <1>1 DEF RoomsInv, SeatsOK, Seats, IsFull
<1>3. ASSUME NEW c \in Conns PROVE Course(c)'
  <2>1. PlayerStays(c)
    BY <1>1 DEF PlayerStays
  <2> QED BY <2>1, MovesKeep DEF RoomsInv
<1> QED BY <1>1, <1>2, <1>3 DEF RoomsInv

\* An id that is new in the game brings nothing with it.
LEMMA NewIdKeeps ==
  ASSUME DInv, DInv', RoomsInv, ~SharedAccount', UNCHANGED <<clientVars, gameVars, c2r, r2c, gameQ, g2r>>,
         NEW d \in Conns, cid[d] \notin Users,
         \A j \in DOMAIN relayQ' : \E k \in DOMAIN relayQ : relayQ'[j] = relayQ[k],
         \A c \in Conns \ {d} : cid'[c] = cid[c] /\ Moves(c)
  PROVE  RoomsInv'
<1>1. UNCHANGED <<rooms, gameUp, me, io, room, notice>>
  BY DEF clientVars, gameVars
<1>2. ASSUME IsAccount(cid'[d]) PROVE FALSE
  BY <1>2 DEF IsAccount, SharedAccount
<1>3. ~Seated(cid[d])' /\ ~Seated(cid[d])
  <2>1. ~Seated(cid'[d])
    BY <1>2, SeatedAreAccounts
  <2>2. ~Seated(cid[d])
    BY SeatedAreAccounts DEF IsAccount
  <2> QED BY <1>1, <2>1, <2>2 DEF Seated, Seats
<1>4. SeatsOK'
  <2>1. \A r \in RoomNames : Seats(r)' = Seats(r) /\ (IsFull(rooms[r])' <=> IsFull(rooms[r]))
    BY <1>1 DEF Seats, IsFull
  <2>2. \A c \in Conns, r \in RoomNames : cid'[c] \in Seats(r)' => room'[c] = r /\ me'[c] # Nobody
    BY <1>1, <1>3, <2>1 DEF RoomsInv, SeatsOK, Seated
  <2> QED BY <1>1, <2>1, <2>2 DEF RoomsInv, SeatsOK
<1>5. \A at, i, p : ~At(d, at, i, p)'
  <2> SUFFICES ASSUME NEW at, NEW i, NEW p, At(d, at, i, p)' PROVE FALSE
    OBVIOUS
  <2>1. CASE at = "c2r"
    BY <2>1, ConnFacts DEF At
  <2>2. CASE at = "over"
    <3>1. PICK k \in DOMAIN relayQ : p = relayQ[k].pb /\ relayQ[k].from = d /\ p.type \in GameRequests
      BY <2>2 DEF At
    <3>2. p.id \in Users
      BY <3>1, QueuedFacts, RelayPacketKinds, GameRequestKinds
    <3> QED BY <3>1, <3>2 DEF DInv, RequestsSigned
  <2>3. CASE at = "gameQ"
    BY <1>2, <2>3 DEF At, DInv, RequestsSigned
  <2>4. CASE at = "g2r"
    BY <1>2, <2>4 DEF At, DInv, PlayersKnown
  <2>5. CASE at = "back"
    BY <1>2, <2>5 DEF At, DInv, PlayersKnown
  <2>6. CASE at = "r2c"
    <3>1. i \in DOMAIN r2c[d] /\ p = r2c[d][i] /\ p.type \in GameReplies /\ r2c[d] \in Seq(PacketToClient)
      BY <2>6, RelayTypes DEF At
    <3>2. p \in PacketToClient
      BY <3>1, QueueTypes
    <3>3. p.to \in Users
      BY <3>1, <3>2, TypesDiffer DEF PacketToClient, GamePacket, LoginReplies
    <3> QED BY <3>1, <3>3 DEF DInv, ReachesOwn
  <2> QED BY <2>1, <2>2, <2>3, <2>4, <2>5, <2>6 DEF At
<1>6. Course(d)'
  <2>1. notice[d] = "none" /\ io[d] # "turn"
    BY <1>3 DEF RoomsInv, Course, ToldOK, HasTurn, Plays, SitsIn, Seated
  <2>2. ToldOK(d)'
    BY <1>1, <1>3, <2>1 DEF ToldOK
  <2> QED BY <1>5, <2>2 DEF Course, PacketsOK, OneToken, OneOf, PageAlone, LastWord
<1>7. ASSUME NEW c \in Conns, c # d PROVE Course(c)'
  <2>1. PlayerStays(c) /\ Moves(c) /\ Course(c)
    BY <1>1, <1>7 DEF PlayerStays, RoomsInv
  <2> QED BY <2>1, MovesKeep
<1> QED BY <1>1, <1>4, <1>6, <1>7 DEF RoomsInv

\* The ids that a step gives go to connections that have no account.
LEMMA AcceptMoves ==
  ASSUME DInv, NEW d \in Conns, RelayStep(Accept(d))
  PROVE  cid[d] \notin Users /\ \A c \in Conns \ {d} : cid'[c] = cid[c] /\ Moves(c)
<1>1. conn[d] = "pending" /\ UNCHANGED <<c2r, r2c, gameQ, g2r, relayQ>> /\ \E t : cid' = [cid EXCEPT ![d] = t]
  BY DEF RelayStep, Accept
<1>2. cid[d] \notin Users /\ \A c \in Conns \ {d} : cid'[c] = cid[c]
  BY <1>1, ConnFacts, RelayTypes, IdKinds
<1>3. ASSUME NEW c \in Conns \ {d} PROVE Moves(c)
  <2>1. \A at, i, p : At(c, at, i, p)' => At(c, at, i, p)
    BY <1>1, <1>2, <1>3 DEF At
  <2> QED BY <2>1, NothingMoved
<1> QED BY <1>2, <1>3

LEMMA RekeyMoves ==
  ASSUME DInv, DInv', RelayStep(BeginRekey)
  PROVE  /\ relayUp /\ UNCHANGED <<clientVars, gameVars, links>>
         /\ \A j \in DOMAIN relayQ' : \E k \in DOMAIN relayQ : relayQ'[j] = relayQ[k]
         /\ \/ UNCHANGED cid /\ \A c \in Conns : Moves(c)
            \/ \E d \in Conns : cid[d] \notin Users /\ \A c \in Conns \ {d} : cid'[c] = cid[c] /\ Moves(c)
<1> DEFINE sh == {"over", "back"}
<1>1. PICK p : p = Head(relayQ).pb
  OBVIOUS
<1>2. /\ PopRelay({"ACCEPT_LOG_IN"})
      /\ \/ clients[p.to] # Nobody /\ cid' = [cid EXCEPT ![clients[p.to]] = p.id]
         \/ UNCHANGED cid
      /\ UNCHANGED <<clientVars, gameVars, links>>
  BY <1>1 DEF RelayStep, BeginRekey
<1>3. /\ relayUp /\ 1 \in DOMAIN relayQ /\ p = relayQ[1].pb /\ p.type = "ACCEPT_LOG_IN"
      /\ \A j \in DOMAIN relayQ' : j \in Int /\ j + 1 \in DOMAIN relayQ /\ relayQ'[j] = relayQ[j + 1]
  BY <1>1, <1>2, RelayPopped
<1>4. p.to \in Keys /\ p.to \in Ids
  <2>1. p.type \in LoginReplies
    BY <1>3 DEF LoginReplies
  <2> QED BY <1>3, <2>1, ReplyFacts
<1>5. ASSUME NEW c \in Conns, cid'[c] = cid[c] PROVE Moves(c)
  <2>1. Moved(c, "back", "r2c", 0, sh)
    <3> SUFFICES ASSUME NEW at, NEW i, NEW q, At(c, at, i, q)'
                 PROVE  /\ ~(at = "r2c" /\ i = 0)
                        /\ At(c, at, IF at \in sh THEN i + 1 ELSE i, q)
      BY DEF Moved
    <3> QED BY <1>2, <1>3, <1>5, AtNext DEF At, links
  <2>2. AddedLast(c, "r2c", 0)
    BY AtNext DEF AddedLast
  <2>3. Flow("back", "r2c", sh)
    BY DEF Flow
  <2> QED BY <2>1, <2>2, <2>3, MovesBy
<1>6. CASE clients[p.to] # Nobody /\ cid' = [cid EXCEPT ![clients[p.to]] = p.id]
  <2>1. PICK d \in Conns : d = clients[p.to] /\ cid[d] = p.to
    BY <1>4, <1>6, MapFacts
  <2>2. cid[d] \notin Users /\ \A c \in Conns \ {d} : cid'[c] = cid[c]
    BY <1>4, <1>6, <2>1, RelayTypes, IdKinds
  <2> QED BY <1>2, <1>3, <1>5, <2>2
<1> HIDE DEF sh
<1> QED BY <1>2, <1>3, <1>5, <1>6

LEMMA AcceptKeepsRooms ==
  ASSUME DInv, DInv', RoomsInv, ~SharedAccount', NEW d \in Conns, RelayStep(Accept(d))
  PROVE  RoomsInv'
<1>1. UNCHANGED <<clientVars, gameVars, c2r, r2c, gameQ, g2r, relayQ>>
  BY DEF RelayStep, Accept
<1> QED BY <1>1, AcceptMoves, NewIdKeeps

LEMMA BeginRekeyKeepsRooms ==
  ASSUME DInv, DInv', RoomsInv, ~SharedAccount', RelayStep(BeginRekey)
  PROVE  RoomsInv'
<1>1. /\ UNCHANGED <<clientVars, gameVars, c2r, r2c, gameQ, g2r>>
      /\ \A j \in DOMAIN relayQ' : \E k \in DOMAIN relayQ : relayQ'[j] = relayQ[k]
  BY RekeyMoves DEF links
<1>2. CASE UNCHANGED cid /\ \A c \in Conns : Moves(c)
  BY <1>1, <1>2, RelayMovesKeep
<1>3. ASSUME NEW d \in Conns, cid[d] \notin Users, \A c \in Conns \ {d} : cid'[c] = cid[c] /\ Moves(c)
      PROVE  RoomsInv'
  BY <1>1, <1>3, NewIdKeeps
<1> QED BY <1>2, <1>3, RekeyMoves

(***************************************************************************)
(* The client.                                                             *)
(***************************************************************************)

\* A step of client c adds no packet of the game, and takes k from its link.
Left(c, k) == \A at, i, p : At(c, at, i, p)' => At(c, at, IF at = "r2c" THEN i + k ELSE i, p)

LEMMA LocalLeft ==
  ASSUME DInv, NEW c \in Conns, LocalStep(c), NEW k \in {0, 1},
         \A j \in DOMAIN r2c'[c] : j \in Int /\ j + k \in DOMAIN r2c[c] /\ r2c'[c][j] = r2c[c][j + k],
         UNCHANGED c2r \/ \E m \in LoginRequest : Send(c, m)
  PROVE  Left(c, k)
<1>1. UNCHANGED <<cid, relayQ, gameQ, g2r>>
  BY DEF LocalStep, relayVars
<1>2. \A j \in DOMAIN c2r'[c] :
        c2r'[c][j].type \in GameRequests => j \in DOMAIN c2r[c] /\ c2r'[c][j] = c2r[c][j]
  <2>1. c2r[c] \in Seq(ClientPacket) /\ c2r \in [Conns -> Seq(ClientPacket)]
    BY RelayTypes
  <2>2. ASSUME NEW m \in LoginRequest, Send(c, m)
        PROVE  \A j \in DOMAIN c2r'[c] :
                 c2r'[c][j].type \in GameRequests => j \in DOMAIN c2r[c] /\ c2r'[c][j] = c2r[c][j]
    <3>1. m \in ClientPacket /\ m.type \in LoginRequests
      BY DEF ClientPacket, LoginRequest
    <3>2. c2r'[c] = Append(c2r[c], m)
      BY <2>1, <2>2 DEF Send
    <3> QED BY <2>1, <3>1, <3>2, QueuePositions, TypesDiffer
  <2> QED BY <2>2
<1>3. SUFFICES ASSUME NEW at, NEW i, NEW p, At(c, at, i, p)'
               PROVE  At(c, at, IF at = "r2c" THEN i + k ELSE i, p)
  BY DEF Left
<1>4. CASE at = "r2c"
  BY <1>1, <1>3, <1>4 DEF At
<1>5. CASE at = "c2r"
  BY <1>1, <1>2, <1>3, <1>5 DEF At
<1>6. CASE at \notin {"c2r", "r2c"}
  BY <1>1, <1>3, <1>6 DEF At
<1> QED BY <1>4, <1>5, <1>6

LEMMA QuietLeft ==
  ASSUME DInv, NEW c \in Conns, ClientStep(UserStep(c)) \/ ClientStep(HandleIO(c)),
         UNCHANGED r2c \/ (r2c[c] # <<>> /\ Received(c)) \/ Die(c),
         UNCHANGED c2r \/ \E m \in LoginRequest : Send(c, m)
  PROVE  \E k \in {0, 1} : Left(c, k)
<1>1. LocalStep(c) /\ r2c \in [Conns -> Seq(PacketToClient)]
  BY LocalFacts
<1>2. PICK k \in {0, 1} : \A j \in DOMAIN r2c'[c] :
        j \in Int /\ j + k \in DOMAIN r2c[c] /\ r2c'[c][j] = r2c[c][j + k]
  BY <1>1, LinkShrinks
<1>3. Left(c, k)
  BY <1>1, <1>2, LocalLeft
<1> QED BY <1>3

LEMMA ReceivedLeft ==
  ASSUME DInv, NEW c \in Conns, ClientStep(HandleIO(c)), r2c[c] # <<>>, Received(c), UNCHANGED c2r
  PROVE  /\ Left(c, 1)
         /\ Head(r2c[c]).type \in GameReplies => At(c, "r2c", 1, Head(r2c[c]))
<1>1. LocalStep(c) /\ r2c[c] \in Seq(PacketToClient)
  BY LocalFacts
<1>2. Head(r2c[c]) = r2c[c][1] /\ 1 \in DOMAIN r2c[c] /\ r2c'[c] = Tail(r2c[c]) /\ Tail(r2c[c]) \in Seq(PacketToClient)
  BY <1>1, QueuePositions, QueueTypes, LocalFacts DEF Received
<1>3. \A j \in DOMAIN r2c'[c] : j \in Int /\ j + 1 \in DOMAIN r2c[c] /\ r2c'[c][j] = r2c[c][j + 1]
  BY <1>1, <1>2, QueuePositions
<1>4. Left(c, 1)
  BY <1>1, <1>3, LocalLeft
<1> QED BY <1>2, <1>4 DEF At

\* The other players are where they were.
LEMMA LocalKeeps ==
  ASSUME DInv, DInv', RoomsInv, NEW c \in Conns, LocalStep(c),
         Seated(cid[c]) => room'[c] = room[c] /\ me'[c] # Nobody,
         Course(c)'
  PROVE  RoomsInv'
<1>1. UNCHANGED <<rooms, gameUp, cid, relayQ, gameQ, g2r>>
  BY DEF LocalStep, relayVars, gameVars
<1>2. \A r \in RoomNames : Seats(r)' = Seats(r) /\ (IsFull(rooms[r])' <=> IsFull(rooms[r]))
  BY <1>1 DEF Seats, IsFull
<1>3. SeatsOK'
  <2>1. ASSUME NEW d \in Conns, NEW r \in RoomNames, cid[d] \in Seats(r) PROVE room'[d] = r /\ me'[d] # Nobody
    <3>1. room[d] = r /\ me[d] # Nobody /\ Seated(cid[d])
      BY <2>1 DEF RoomsInv, SeatsOK, Seated
    <3> QED BY <3>1 DEF LocalStep
  <2> QED BY <1>1, <1>2, <2>1 DEF RoomsInv, SeatsOK
<1>4. ASSUME NEW d \in Conns, d # c PROVE Course(d)'
  <2>1. PlayerStays(d)
    BY <1>1, <1>4 DEF PlayerStays, LocalStep
  <2>2. c2r'[d] = c2r[d] /\ r2c'[d] = r2c[d]
    BY <1>4 DEF LocalStep
  <2>3. \A at, i, p : At(d, at, i, p)' => At(d, at, i, p)
    BY <1>1, <2>2 DEF At
  <2>4. Course(d)
    BY DEF RoomsInv
  <2> QED BY <2>1, <2>3, <2>4, NothingMoved, MovesKeep
<1> QED BY <1>1, <1>3, <1>4 DEF RoomsInv

LEMMA LeftKeepsOne ==
  ASSUME DInv', NEW c \in Conns, NEW k \in {0, 1}, Left(c, k), NEW types, OneOf(c, types)
  PROVE  OneOf(c, types)'
<1> SUFFICES ASSUME NEW at, NEW i, NEW p, NEW at2, NEW i2, NEW p2,
                    At(c, at, i, p)', At(c, at2, i2, p2)', p.type \in types, p2.type \in types
             PROVE  at = at2 /\ i = i2
  BY DEF OneOf
<1>1. i \in Int /\ i2 \in Int
  BY AtNext
<1>2. /\ At(c, at, IF at = "r2c" THEN i + k ELSE i, p)
      /\ At(c, at2, IF at2 = "r2c" THEN i2 + k ELSE i2, p2)
  BY DEF Left
<1>3. at = at2 /\ (IF at = "r2c" THEN i + k ELSE i) = (IF at2 = "r2c" THEN i2 + k ELSE i2)
  BY <1>2 DEF OneOf
<1> QED BY <1>1, <1>3

\* What is left is as true and as ordered as before.
LEMMA LeftKeeps ==
  ASSUME DInv', NEW c \in Conns, LocalStep(c), Course(c), NEW k \in {0, 1}, Left(c, k),
         room'[c] = room[c], me[c] # Nobody => me'[c] # Nobody
  PROVE  /\ PacketsOK(c)' /\ OneToken(c)'
         /\ io'[c] \notin {"lobby", "turn"} => PageAlone(c)' /\ LastWord(c)'
         /\ io'[c] = io[c] => PageAlone(c)' /\ LastWord(c)'
<1>1. UNCHANGED <<rooms, cid>>
  BY DEF LocalStep, relayVars, gameVars
<1>2. \A p : Holds(c, p)' <=> Holds(c, p)
  BY <1>1 DEF Holds, Seated, SitsIn, Plays, HasTurn, Seats, HolderOfTurn, IsFull
<1>3. PacketsOK(c)'
  BY <1>2 DEF Course, PacketsOK, Left
<1>4. OneToken(c)'
  BY LeftKeepsOne DEF Course, OneToken
<1>5. io'[c] \notin {"lobby", "turn"} \/ io'[c] = io[c] => PageAlone(c)'
  BY DEF Course, PageAlone, Left
<1>6. ASSUME io'[c] \notin {"lobby", "turn"} \/ io'[c] = io[c], MaxPlayers > 1
      PROVE  LastWord(c)'
  <2>1. io'[c] \in {"lobby", "turn"} => \A at, i, p : ~At(c, at, i, p)'
    BY <1>6 DEF Course, LastWord, Left
  <2>2. ASSUME NEW at, NEW i, NEW p, NEW at2, NEW i2, NEW p2,
               At(c, at, i, p)', At(c, at2, i2, p2)', p.type \in Tokens
        PROVE  (at = at2 /\ i = i2) \/ Before(at2, i2, at, i)
    <3>1. i \in Int /\ i2 \in Int
      BY <2>2, AtNext
    <3>2. /\ At(c, at, IF at = "r2c" THEN i + k ELSE i, p)
          /\ At(c, at2, IF at2 = "r2c" THEN i2 + k ELSE i2, p2)
      BY <2>2 DEF Left
    <3>3. \/ at = at2 /\ (IF at = "r2c" THEN i + k ELSE i) = (IF at2 = "r2c" THEN i2 + k ELSE i2)
          \/ Before(at2, IF at2 = "r2c" THEN i2 + k ELSE i2, at, IF at = "r2c" THEN i + k ELSE i)
      BY <1>6, <2>2, <3>2 DEF Course, LastWord
    <3> QED BY <3>1, <3>3 DEF Before
  <2> QED BY <2>1, <2>2 DEF LastWord
<1>7. LastWord(c)' \/ MaxPlayers > 1
  BY DEF LastWord
<1> QED BY <1>3, <1>4, <1>5, <1>6, <1>7

LEMMA QuietKeeps ==
  ASSUME DInv, DInv', RoomsInv, NEW c \in Conns, LocalStep(c), NEW k \in {0, 1}, Left(c, k),
         room'[c] = room[c], notice'[c] = notice[c], me[c] # Nobody => me'[c] # Nobody,
         io'[c] \in {io[c], "idle", "login"}
  PROVE  RoomsInv'
<1>1. UNCHANGED <<rooms, cid>>
  BY DEF LocalStep, relayVars, gameVars
<1>2. Course(c)
  BY DEF RoomsInv
<1>3. ToldOK(c)'
  BY <1>1, <1>2 DEF Course, ToldOK, Seated, SitsIn, Plays, HasTurn, Seats, HolderOfTurn, IsFull
<1>4. Course(c)'
  BY <1>2, <1>3, LeftKeeps DEF Course
<1>5. Seated(cid[c]) => me[c] # Nobody
  BY DEF RoomsInv, SeatsOK, Seated
<1> QED BY <1>4, <1>5, LocalKeeps

\* Before its program knows its account a client has no part in the game.
LEMMA NoPlayerYet ==
  ASSUME RoomsInv, NEW c \in Conns, me[c] = Nobody
  PROVE  /\ \A at, i, p : ~At(c, at, i, p)
         /\ ~Seated(cid[c]) /\ notice[c] = "none" /\ io[c] # "turn"
<1>1. ~Seated(cid[c])
  BY DEF RoomsInv, SeatsOK, Seated
<1>2. notice[c] = "none" /\ io[c] # "turn"
  BY <1>1 DEF RoomsInv, Course, ToldOK, HasTurn, Plays, SitsIn, Seated
<1> QED BY <1>1, <1>2 DEF RoomsInv, Course, PacketsOK

LEMMA OutsiderKeeps ==
  ASSUME DInv, DInv', RoomsInv, NEW c \in Conns, LocalStep(c), NEW k \in {0, 1}, Left(c, k),
         me[c] = Nobody, notice'[c] = notice[c], io'[c] # "turn"
  PROVE  RoomsInv'
<1>1. UNCHANGED <<rooms, cid>>
  BY DEF LocalStep, relayVars, gameVars
<1>2. \A at, i, p : ~At(c, at, i, p)'
  BY NoPlayerYet DEF Left
<1>3. ToldOK(c)'
  BY <1>1, NoPlayerYet DEF ToldOK, Seated, Seats
<1>4. Course(c)'
  BY <1>2, <1>3 DEF Course, PacketsOK, OneToken, OneOf, PageAlone, LastWord
<1> QED BY <1>4, NoPlayerYet, LocalKeeps

\* A request is sent while its client has no other token under way.
LEMMA RequestKeeps ==
  ASSUME DInv, DInv', RoomsInv, NEW c \in Conns, LocalStep(c), NEW m \in GameRequest, Send(c, m),
         UNCHANGED r2c \/ Die(c), io[c] \in {"lobby", "turn"}, io'[c] = "idle", me'[c] # Nobody,
         Holds(c, m)', \A at, i, p : At(c, at, i, p) => Holds(c, p)', ToldOK(c)'
  PROVE  Course(c)'
<1>1. UNCHANGED <<cid, relayQ, gameQ, g2r>>
  BY DEF LocalStep, relayVars
<1>2. PICK n : n = Len(c2r[c]) + 1
  OBVIOUS
<1>3. \A j \in DOMAIN c2r'[c] : (j \in DOMAIN c2r[c] /\ c2r'[c][j] = c2r[c][j]) \/ (j = n /\ c2r'[c][j] = m)
  <2>1. c2r[c] \in Seq(ClientPacket) /\ c2r'[c] = Append(c2r[c], m) /\ m \in ClientPacket
    BY RelayTypes DEF Send, ClientPacket
  <2> QED BY <1>2, <2>1, QueuePositions
<1>4. r2c'[c] = r2c[c] \/ r2c'[c] = <<>>
  BY RelayTypes DEF Die
<1>5. \A at, i, p : At(c, at, i, p)' => At(c, at, i, p) \/ (at = "c2r" /\ i = n /\ p = m)
  BY <1>1, <1>3, <1>4 DEF At
<1>6. \A at, i, p : At(c, at, i, p) => p.type \notin Tokens /\ ~(MaxPlayers > 1)
  BY DEF RoomsInv, Course, PageAlone, LastWord
<1>7. PacketsOK(c)'
  BY <1>5 DEF PacketsOK
<1>8. OneToken(c)' /\ PageAlone(c)' /\ LastWord(c)'
  BY <1>5, <1>6 DEF OneToken, OneOf, PageAlone, LastWord
<1> QED BY <1>7, <1>8 DEF Course

LEMMA HostOrJoinKeeps ==
  ASSUME DInv, DInv', RoomsInv, NEW c \in Conns, ClientStep(HostOrJoin(c))
  PROVE  RoomsInv'
<1>1. ClientStep(UserStep(c)) /\ LocalStep(c) /\ ClientTypeOK
  BY LocalFacts DEF ClientStep, UserStep
<1>2. PICK type \in RoomRequests, r \in RoomNames :
        \/ /\ me[c] # Nobody /\ LeaveLobby(c) /\ room' = [room EXCEPT ![c] = r]
           /\ Send(c, [type |-> type, id |-> me[c].id, room |-> r]) /\ UNCHANGED r2c
        \/ me[c] = Nobody /\ Die(c) /\ UNCHANGED <<io, c2r>>
  BY DEF ClientStep, HostOrJoin
<1>3. UNCHANGED <<me, notice, rooms, cid>> /\ io[c] = "lobby"
  BY <1>1 DEF ClientStep, HostOrJoin, gameVars, relayVars
<1>4. CASE me[c] = Nobody /\ Die(c) /\ UNCHANGED <<io, c2r>>
  <2>1. PICK k \in {0, 1} : Left(c, k)
    BY <1>1, <1>4, QuietLeft
  <2> QED BY <1>1, <1>3, <1>4, <2>1, OutsiderKeeps
<1>5. CASE /\ me[c] # Nobody /\ LeaveLobby(c) /\ room' = [room EXCEPT ![c] = r]
           /\ Send(c, [type |-> type, id |-> me[c].id, room |-> r]) /\ UNCHANGED r2c
  <2>1. PICK m \in GameRequest : Send(c, m) /\ m.room = r /\ m.type \in RoomRequests
    <3>1. me[c].id \in Users
      BY <1>5, ConnFacts
    <3> QED BY <1>5, <3>1 DEF GameRequest
  <2>2. ~Seated(cid[c]) /\ Course(c)
    BY <1>3 DEF RoomsInv, Course, ToldOK
  <2>3. ~Seated(cid[c])'
    BY <1>3, <2>2 DEF Seated, Seats
  <2>4. room'[c] = r /\ io'[c] = "idle"
    BY <1>1, <1>5 DEF ClientTypeOK, LeaveLobby
  <2>5. Holds(c, m)'
    BY <2>1, <2>3, <2>4 DEF Holds, Admissions, TurnTypes, RoomRequests
  <2>6. \A at, i, p : ~At(c, at, i, p)
    <3> SUFFICES ASSUME NEW at, NEW i, NEW p, At(c, at, i, p) PROVE FALSE
      OBVIOUS
    <3>1. p.type \notin Tokens /\ Holds(c, p)
      BY <1>3, <2>2 DEF Course, PageAlone, PacketsOK
    <3>2. p.type \in GameRequests \cup GameReplies
      BY AtFacts
    <3>3. ~SitsIn(c) /\ ~Plays(c)
      BY <2>2 DEF SitsIn, Plays, Seated
    <3> QED BY <3>1, <3>2, <3>3 DEF Holds, Tokens, GameRequests, GameReplies, RoomReplies, Rejections, Admissions, TurnTypes
  <2>7. notice[c] = "none"
    BY <2>2 DEF Course, ToldOK, SitsIn, Seated
  <2>8. ToldOK(c)'
    BY <1>3, <2>4, <2>7 DEF ToldOK
  <2>9. Course(c)'
    BY <1>1, <1>3, <1>5, <2>1, <2>4, <2>5, <2>6, <2>8, RequestKeeps
  <2> QED BY <1>1, <2>2, <2>9, LocalKeeps
<1> QED BY <1>2, <1>4, <1>5

LEMMA FinishTurnKeeps ==
  ASSUME DInv, DInv', RoomsInv, NEW c \in Conns, ClientStep(FinishTurn(c))
  PROVE  RoomsInv'
<1>1. ClientStep(UserStep(c)) /\ LocalStep(c) /\ ClientTypeOK
  BY LocalFacts DEF ClientStep, UserStep
<1>2. UNCHANGED <<room, notice, rooms, cid>> /\ io[c] = "turn" /\ me[c] \in Me /\ me[c] # Nobody
  BY <1>1, ClientAssumption DEF ClientStep, FinishTurn, gameVars, relayVars, DInv, IInv, PagesInv, TurnsLoggedIn
<1>3. PICK chosen \in DiscardChoices :
        \/ \E p \in Discard(me[c], chosen) :
             /\ me' = [me EXCEPT ![c] = p]
             /\ io' = [io EXCEPT ![c] = "idle"]
             /\ Send(c, [type |-> "PlAYER_TURN_OVER", id |-> me[c].id, room |-> room[c],
                         discarded |-> Size(chosen)])
             /\ ShowUI(c, p)
        \/ Die(c) /\ UNCHANGED <<me, io, c2r>>
  BY DEF ClientStep, FinishTurn
<1>4. CASE Die(c) /\ UNCHANGED <<me, io, c2r>>
  <2>1. PICK k \in {0, 1} : Left(c, k)
    BY <1>1, <1>4, QuietLeft
  <2> QED BY <1>1, <1>2, <1>4, <2>1, QuietKeeps
<1>5. ASSUME NEW p \in Discard(me[c], chosen),
             me' = [me EXCEPT ![c] = p],
             io' = [io EXCEPT ![c] = "idle"],
             Send(c, [type |-> "PlAYER_TURN_OVER", id |-> me[c].id, room |-> room[c], discarded |-> Size(chosen)]),
             ShowUI(c, p)
      PROVE  RoomsInv'
  <2>1. PICK m \in GameRequest : Send(c, m) /\ m.room = room[c] /\ m.type = "PlAYER_TURN_OVER"
    <3>1. Size(chosen) \in Nat /\ me[c].id \in Users /\ room[c] \in RoomNames \cup {Nobody}
      BY <1>1, <1>2, SizeType DEF DiscardChoices, Me, ClientTypeOK
    <3> QED BY <1>5, <3>1 DEF GameRequest
  <2>2. me'[c] # Nobody /\ io'[c] = "idle"
    <3>1. p \in Me
      BY <1>2, DiscardType
    <3> QED BY <1>1, <1>5, <3>1, ClientAssumption DEF ClientTypeOK
  <2>3. \A q : Holds(c, q)' <=> Holds(c, q)
    BY <1>2 DEF Holds, Seated, SitsIn, Plays, HasTurn, Seats, HolderOfTurn, IsFull
  <2>4. HasTurn(c) /\ Course(c)
    BY <1>2 DEF RoomsInv, Course, ToldOK
  <2>5. Holds(c, m)'
    BY <2>1, <2>3, <2>4 DEF Holds, RoomRequests, Rejections, Admissions, TurnTypes
  <2>6. ToldOK(c)'
    BY <1>2, <2>2, <2>4 DEF Course, ToldOK, Seated, SitsIn, Seats
  <2>7. Course(c)'
    BY <1>1, <1>2, <1>5, <2>1, <2>2, <2>3, <2>4, <2>5, <2>6, RequestKeeps DEF ShowUI, Course, PacketsOK
  <2> QED BY <1>1, <1>2, <2>2, <2>7, LocalKeeps
<1> QED BY <1>3, <1>4, <1>5

LEMMA QuietUserKeeps ==
  ASSUME DInv, DInv', RoomsInv, NEW c \in Conns,
         \/ ClientStep(Connect(c)) \/ ClientStep(LogInOrRegister(c))
         \/ ClientStep(WrongInput(c)) \/ ClientStep(Quit(c))
  PROVE  RoomsInv'
<1>1. ClientStep(UserStep(c)) /\ LocalStep(c) /\ ClientTypeOK
  BY LocalFacts DEF ClientStep, UserStep
<1>2. UNCHANGED <<me, room, notice>>
  BY DEF ClientStep, Connect, LogInOrRegister, WrongInput, Quit, clientVars
<1>3. io'[c] \in {io[c], "idle"}
  BY <1>1 DEF ClientStep, Connect, LogInOrRegister, WrongInput, Quit, LeaveLoginPage, LeaveLobby, clientVars, ClientTypeOK
<1>4. UNCHANGED r2c \/ Die(c)
  BY DEF ClientStep, Connect, LogInOrRegister, WrongInput, Quit, links
<1>5. UNCHANGED c2r \/ \E m \in LoginRequest : Send(c, m)
  <2>1. CASE ClientStep(LogInOrRegister(c))
    BY <2>1, ClientAssumption DEF ClientStep, LogInOrRegister, LoginRequest
  <2> QED BY <2>1 DEF ClientStep, Connect, WrongInput, Quit, links
<1>6. PICK k \in {0, 1} : Left(c, k)
  BY <1>1, <1>4, <1>5, QuietLeft
<1> QED BY <1>1, <1>2, <1>3, <1>6, QuietKeeps

LEMMA LoginAnswerKeeps ==
  ASSUME DInv, DInv', RoomsInv, NEW c \in Conns,
         \/ ClientStep(HandleAcceptLogIn(c)) \/ ClientStep(HandleAcceptRegister(c))
         \/ ClientStep(HandleRejectLogin(c))
  PROVE  RoomsInv'
<1>1. ClientStep(HandleIO(c)) /\ LocalStep(c) /\ ClientTypeOK /\ r2c[c] \in Seq(PacketToClient)
  BY LocalFacts DEF ClientStep, HandleIO
<1>2. /\ r2c[c] # <<>> /\ Head(r2c[c]).type \in LoginReplies /\ Received(c)
      /\ UNCHANGED <<c2r, notice>> /\ io'[c] \in {"lobby", "login"}
  BY <1>1 DEF ClientStep, HandleAcceptLogIn, HandleAcceptRegister, HandleRejectLogin, ShowPage, Receive,
              ReceivedQuietly, ClientTypeOK, LoginReplies
<1>3. me[c] = Nobody
  <2>1. Head(r2c[c]) = r2c[c][1] /\ 1 \in DOMAIN r2c[c]
    BY <1>1, <1>2, QueuePositions
  <2> QED BY <1>2, <2>1 DEF DInv, OneLoginEach, LoginAt
<1>4. PICK k \in {0, 1} : Left(c, k)
  BY <1>1, <1>2, QuietLeft
<1> QED BY <1>1, <1>2, <1>3, <1>4, OutsiderKeeps

\* What a client receives of the game is true of it.
LEMMA GameReceived ==
  ASSUME DInv, RoomsInv, NEW c \in Conns, ClientStep(HandleIO(c)), NEW types, types \subseteq GameReplies,
         Receive(c, types), Received(c), UNCHANGED c2r
  PROVE  /\ LocalStep(c) /\ ClientTypeOK /\ Left(c, 1) /\ Course(c)
         /\ Head(r2c[c]).type \in types /\ Head(r2c[c]) \in PacketToClient
         /\ Holds(c, Head(r2c[c])) /\ me[c] # Nobody
         /\ Head(r2c[c]).type \in Tokens =>
              \A at, i, p : At(c, at, i, p)' /\ i \in Int /\ 1 <= i => p.type \notin Tokens /\ ~(MaxPlayers > 1)
<1>1. LocalStep(c) /\ ClientTypeOK /\ r2c[c] \in Seq(PacketToClient) /\ r2c[c] # <<>> /\ Head(r2c[c]).type \in types
  BY LocalFacts DEF Receive
<1>2. Head(r2c[c]) \in PacketToClient
  BY <1>1, QueueTypes
<1>3. Left(c, 1) /\ At(c, "r2c", 1, Head(r2c[c]))
  BY <1>1, ReceivedLeft
<1>4. Course(c)
  BY DEF RoomsInv
<1>5. me[c] # Nobody /\ Holds(c, Head(r2c[c]))
  BY <1>3, <1>4 DEF Course, PacketsOK
<1>6. ASSUME Head(r2c[c]).type \in Tokens, NEW at, NEW i, NEW p, At(c, at, i, p)', i \in Int, 1 <= i
      PROVE  p.type \notin Tokens /\ ~(MaxPlayers > 1)
  <2>1. At(c, at, IF at = "r2c" THEN i + 1 ELSE i, p)
    BY <1>3, <1>6 DEF Left
  <2>2. p.type \notin Tokens
    <3>1. p.type \in Tokens => at = "r2c" /\ (IF at = "r2c" THEN i + 1 ELSE i) = 1
      BY <1>3, <1>4, <1>6, <2>1 DEF Course, OneToken, OneOf
    <3> QED BY <1>6, <3>1
  <2>3. ~(MaxPlayers > 1)
    <3>1. MaxPlayers > 1 =>
            \/ "r2c" = at /\ 1 = IF at = "r2c" THEN i + 1 ELSE i
            \/ Before(at, IF at = "r2c" THEN i + 1 ELSE i, "r2c", 1)
      BY <1>3, <1>4, <1>6, <2>1 DEF Course, LastWord
    <3> QED BY <1>6, <3>1 DEF Before
  <2> QED BY <2>2, <2>3
<1> QED BY <1>1, <1>2, <1>3, <1>4, <1>5, <1>6

\* A page that a token brings is shown to a client without another token.
LEMMA PageKeeps ==
  ASSUME DInv, DInv', RoomsInv, NEW c \in Conns, ClientStep(HandleIO(c)), NEW types, types \subseteq GameReplies,
         Receive(c, types), Received(c), UNCHANGED <<c2r, me, room, notice>>, types \subseteq Tokens,
         io'[c] = "lobby" => ~Seated(cid[c]),
         io'[c] = "turn" => HasTurn(c)
  PROVE  RoomsInv'
<1>1. /\ LocalStep(c) /\ ClientTypeOK /\ Left(c, 1) /\ Course(c) /\ me[c] # Nobody
      /\ \A at, i, p : At(c, at, i, p)' /\ i \in Int /\ 1 <= i => p.type \notin Tokens /\ ~(MaxPlayers > 1)
  BY GameReceived
<1>2. \A at, i, p : At(c, at, i, p)' => p.type \notin Tokens /\ ~(MaxPlayers > 1)
  BY <1>1, AtNext
<1>3. UNCHANGED <<rooms, cid>>
  BY <1>1 DEF LocalStep, relayVars, gameVars
<1>4. ToldOK(c)'
  BY <1>1, <1>3 DEF Course, ToldOK, Seated, SitsIn, Plays, HasTurn, Seats, HolderOfTurn, IsFull
<1>5. PacketsOK(c)' /\ OneToken(c)'
  BY <1>1, LeftKeeps
<1>6. Course(c)'
  BY <1>2, <1>4, <1>5 DEF Course, PageAlone, LastWord
<1> QED BY <1>1, <1>6, LocalKeeps

LEMMA HandleAllowRoomKeeps ==
  ASSUME DInv, DInv', RoomsInv, NEW c \in Conns, ClientStep(HandleAllowRoom(c))
  PROVE  RoomsInv'
<1>1. ClientStep(HandleIO(c)) /\ Receive(c, Admissions) /\ Received(c) /\ UNCHANGED <<c2r, main, io, me, room>>
  BY DEF ClientStep, HandleIO, HandleAllowRoom, ReceivedQuietly, Admissions
<1>2. Admissions \subseteq GameReplies
  BY DEF Admissions, GameReplies, RoomReplies
<1>3. /\ LocalStep(c) /\ ClientTypeOK /\ Left(c, 1) /\ Course(c) /\ me[c] # Nobody
      /\ Head(r2c[c]).type \in Admissions /\ Holds(c, Head(r2c[c]))
  BY <1>1, <1>2, GameReceived
<1>4. notice'[c] = IF Head(r2c[c]).type = "ALLOW_HOST_ROOM" THEN "hosted" ELSE "entered"
  BY <1>3 DEF ClientStep, HandleAllowRoom, ClientTypeOK
<1>5. UNCHANGED <<rooms, cid>>
  BY <1>3 DEF LocalStep, relayVars, gameVars
<1>6. SitsIn(c) /\ (notice'[c] = "hosted" => rooms[room[c]].host = cid[c])
  BY <1>3, <1>4 DEF Holds
<1>7. ToldOK(c)'
  BY <1>1, <1>3, <1>5, <1>6 DEF Course, ToldOK, Seated, SitsIn, Plays, HasTurn, Seats, HolderOfTurn, IsFull
<1>8. PacketsOK(c)' /\ OneToken(c)' /\ PageAlone(c)' /\ LastWord(c)'
  BY <1>1, <1>3, LeftKeeps
<1>9. Course(c)'
  BY <1>7, <1>8 DEF Course
<1> QED BY <1>1, <1>3, <1>9, LocalKeeps

LEMMA HandleRejectRoomKeeps ==
  ASSUME DInv, DInv', RoomsInv, NEW c \in Conns, ClientStep(HandleRejectRoom(c))
  PROVE  RoomsInv'
<1>1. /\ ClientStep(HandleIO(c)) /\ Receive(c, Rejections) /\ Received(c)
      /\ UNCHANGED <<c2r, me, room, notice>> /\ ShowPage(c, "lobby")
  BY DEF ClientStep, HandleIO, HandleRejectRoom, ReceivedQuietly, Rejections
<1>2. Rejections \subseteq GameReplies /\ Rejections \subseteq Tokens
  BY DEF Rejections, GameReplies, RoomReplies, Tokens
<1>3. ClientTypeOK /\ Head(r2c[c]).type \in Rejections /\ Holds(c, Head(r2c[c]))
  BY <1>1, <1>2, GameReceived
<1>4. io'[c] = "lobby" /\ ~Seated(cid[c])
  BY <1>1, <1>3 DEF ShowPage, ClientTypeOK, Holds
<1> QED BY <1>1, <1>2, <1>4, PageKeeps

LEMMA HandlePlayerTurnKeeps ==
  ASSUME DInv, DInv', RoomsInv, NEW c \in Conns, ClientStep(HandlePlayerTurn(c))
  PROVE  RoomsInv'
<1>1. /\ ClientStep(HandleIO(c)) /\ Receive(c, {"PLAYER_TURN"}) /\ UNCHANGED <<c2r, me, room, notice>>
      /\ \/ ShowPage(c, "turn") /\ Received(c)
         \/ Die(c) /\ UNCHANGED io
  BY DEF ClientStep, HandleIO, HandlePlayerTurn, ReceivedQuietly
<1>2. CASE Die(c) /\ UNCHANGED io
  <2>1. PICK k \in {0, 1} : Left(c, k)
    BY <1>1, <1>2, QuietLeft
  <2> QED BY <1>1, <1>2, <2>1, QuietKeeps, LocalFacts
<1>3. CASE ShowPage(c, "turn") /\ Received(c)
  <2>1. {"PLAYER_TURN"} \subseteq GameReplies /\ {"PLAYER_TURN"} \subseteq Tokens
    BY DEF GameReplies, Tokens, TurnTypes
  <2>2. ClientTypeOK /\ Head(r2c[c]).type = "PLAYER_TURN" /\ Holds(c, Head(r2c[c]))
    BY <1>1, <1>3, <2>1, GameReceived
  <2>3. io'[c] = "turn" /\ HasTurn(c)
    BY <1>3, <2>2 DEF ShowPage, ClientTypeOK, Holds, TurnTypes
  <2> QED BY <1>1, <1>3, <2>1, <2>3, PageKeeps
<1> QED BY <1>1, <1>2, <1>3

LEMMA TableKeeps ==
  ASSUME DInv, DInv', RoomsInv, NEW c \in Conns, ClientStep(HandlePlayGame(c)) \/ ClientStep(HandleDealCards(c))
  PROVE  RoomsInv'
<1>1. /\ ClientStep(HandleIO(c)) /\ LocalStep(c) /\ ClientTypeOK /\ r2c[c] \in Seq(PacketToClient)
      /\ UNCHANGED <<io, room, notice, c2r>> /\ r2c[c] # <<>> /\ (Received(c) \/ Die(c))
  BY LocalFacts DEF ClientStep, HandleIO, HandlePlayGame, HandleDealCards, ReceivedQuietly, Receive
<1>2. PICK k \in {0, 1} : Left(c, k)
  BY <1>1, QuietLeft
<1>3. me[c] # Nobody => me'[c] # Nobody
  <2>1. CASE UNCHANGED me
    BY <2>1
  <2>2. CASE /\ Head(r2c[c]).type = "DEAL_CARDS" /\ me[c] # Nobody
             /\ me' = [me EXCEPT ![c] = [me[c] EXCEPT !.hand = Head(r2c[c]).cards]]
    <3>1. me[c] \in Me /\ Head(r2c[c]).cards \in Bag
      BY <1>1, <2>2, QueueTypes, PacketToClientKinds DEF ClientTypeOK
    <3>2. [me[c] EXCEPT !.hand = Head(r2c[c]).cards] \in Me
      BY <3>1 DEF Me
    <3> QED BY <1>1, <2>2, <3>2, ClientAssumption DEF ClientTypeOK
  <2> QED BY <2>1, <2>2 DEF ClientStep, HandlePlayGame, HandleDealCards, Receive
<1> QED BY <1>1, <1>2, <1>3, QuietKeeps

(***************************************************************************)
(* The game server.                                                        *)
(***************************************************************************)

\* A packet p for the player at client c that a step of the server sends, at place i.
Sent(c, i, p) == i \in DOMAIN g2r' /\ Len(g2r) < i /\ p = g2r'[i] /\ p.to = cid[c]

\* What a step of the server leaves of a player.
KeepsPlace(c) ==
  /\ Seated(cid[c])' => Seated(cid[c])
  /\ SitsIn(c) => SitsIn(c)' /\ rooms'[room[c]].host = rooms[room[c]].host
  /\ Plays(c) => Plays(c)'
  /\ HasTurn(c) => HasTurn(c)'

LEMMA PlaceHolds ==
  ASSUME NEW c \in Conns, UNCHANGED <<cid, room, io, notice>>, KeepsPlace(c)
  PROVE  /\ \A p : Holds(c, p) => Holds(c, p)'
         /\ ToldOK(c) => ToldOK(c)'
<1>1. \A p : Holds(c, p) => Holds(c, p)'
  <2> SUFFICES ASSUME NEW p, Holds(c, p) PROVE Holds(c, p)'
    OBVIOUS
  <2>1. p.type = "ALLOW_HOST_ROOM" => p.type \in Admissions
    BY DEF Admissions
  <2> QED BY <2>1 DEF Holds, KeepsPlace
<1>2. ToldOK(c) => ToldOK(c)'
  BY DEF ToldOK, KeepsPlace
<1> QED BY <1>1, <1>2

\* The request the server takes, its player, and the place of all other packets.
LEMMA GameFacts ==
  ASSUME DInv, RoomsInv, GameStep(HandleGamePacket),
         \A j \in DOMAIN g2r' : (j \in DOMAIN g2r /\ g2r'[j] = g2r[j]) \/ Len(g2r) < j
  PROVE  /\ UNCHANGED <<cid, me, io, room, notice>>
         /\ Head(gameQ).id \in Users /\ Head(gameQ).type \in GameRequests
         /\ \E c \in Conns : cid[c] = Head(gameQ).id /\ At(c, "gameQ", 1, Head(gameQ))
         /\ \A c \in Conns : \A at, i, p : At(c, at, i, p)' =>
              \/ At(c, at, IF at = "gameQ" THEN i + 1 ELSE i, p) /\ (at = "g2r" => i <= Len(g2r))
              \/ at = "g2r" /\ Sent(c, i, p)
<1>1. UNCHANGED <<cid, me, io, room, notice, c2r, r2c, relayQ>>
  BY GameParts DEF clientVars, relayVars
<1>2. IsAccount(Head(gameQ).id) /\ Head(gameQ) \in GameRequest
  BY GameParts, QueueTypes DEF DInv, RequestsSigned
<1>3. Head(gameQ).type \in GameRequests
  BY <1>2 DEF GameRequest, GameRequests
<1>4. \E c \in Conns : cid[c] = Head(gameQ).id /\ At(c, "gameQ", 1, Head(gameQ))
  BY <1>2, GameParts DEF IsAccount, At
<1>5. \A j \in DOMAIN g2r : j <= Len(g2r)
  BY RelayTypes, QueueEnd
<1>6. ASSUME NEW c \in Conns, NEW at, NEW i, NEW p, At(c, at, i, p)'
      PROVE  \/ At(c, at, IF at = "gameQ" THEN i + 1 ELSE i, p) /\ (at = "g2r" => i <= Len(g2r))
             \/ at = "g2r" /\ Sent(c, i, p)
  <2>1. CASE at = "gameQ"
    BY <1>1, <1>6, <2>1, GameParts DEF At
  <2>2. CASE at = "g2r"
    BY <1>1, <1>5, <1>6, <2>2 DEF At, Sent
  <2>3. CASE at \notin {"gameQ", "g2r"}
    BY <1>1, <1>6, <2>3 DEF At
  <2> QED BY <2>1, <2>2, <2>3
<1> QED BY <1>1, <1>2, <1>3, <1>4, <1>6 DEF IsAccount

\* A player is sent a token when the one it had has just been taken, or it had
\* none; and at a table of two or more nothing is sent while a token is under way.
Answered(c) ==
  /\ \A i, p, i2, p2 : Sent(c, i, p) /\ Sent(c, i2, p2) /\ p.type \in Tokens /\ (p2.type \in Tokens \/ MaxPlayers > 1)
       => i2 <= i
  /\ \A i, p : Sent(c, i, p) /\ (p.type \in Tokens \/ MaxPlayers > 1) =>
       /\ io[c] \notin {"lobby", "turn"}
       /\ \A at, k, q : At(c, at, k, q) /\ q.type \in Tokens => at = "gameQ" /\ k = 1

LEMMA AnswerKeeps ==
  ASSUME DInv, DInv', RoomsInv, GameStep(HandleGamePacket), NEW c \in Conns,
         \A j \in DOMAIN g2r' : (j \in DOMAIN g2r /\ g2r'[j] = g2r[j]) \/ Len(g2r) < j,
         \A i, p : Sent(c, i, p) => me[c] # Nobody /\ Holds(c, p)',
         \A at, i, p : At(c, at, i, p) /\ ~(at = "gameQ" /\ i = 1) => Holds(c, p)',
         ToldOK(c)', Answered(c)
  PROVE  Course(c)'
<1>1. /\ UNCHANGED <<me, io>>
      /\ \A at, i, p : At(c, at, i, p)' =>
           \/ At(c, at, IF at = "gameQ" THEN i + 1 ELSE i, p) /\ (at = "g2r" => i <= Len(g2r))
           \/ at = "g2r" /\ Sent(c, i, p)
  BY GameFacts
<1>2. Course(c)
  BY DEF RoomsInv
<1>3. ASSUME NEW at, NEW i, NEW p, At(c, at, i, p)' PROVE i \in Int /\ 1 <= i
  BY <1>3, AtNext
<1>4. PacketsOK(c)'
  BY <1>1, <1>2, <1>3 DEF Course, PacketsOK
<1>5. PageAlone(c)'
  BY <1>1, <1>2 DEF Course, PageAlone, Answered
<1>6. Len(g2r) \in Nat
  BY RelayTypes, QueuePositions
<1>7. OneToken(c)'
  <2> SUFFICES ASSUME NEW at, NEW i, NEW p, NEW at2, NEW i2, NEW p2,
                      At(c, at, i, p)', At(c, at2, i2, p2)', p.type \in Tokens, p2.type \in Tokens
               PROVE  at = at2 /\ i = i2
    BY DEF OneToken, OneOf
  <2>1. i \in Int /\ 1 <= i /\ i2 \in Int /\ 1 <= i2
    BY <1>3
  <2>2. CASE Sent(c, i, p) /\ at = "g2r" /\ Sent(c, i2, p2) /\ at2 = "g2r"
    <3>1. i2 <= i /\ i <= i2
      BY <2>2 DEF Answered
    <3> QED BY <2>1, <2>2, <3>1
  <2>3. CASE Sent(c, i, p) /\ at = "g2r" /\ At(c, at2, IF at2 = "gameQ" THEN i2 + 1 ELSE i2, p2)
    BY <2>1, <2>3 DEF Answered
  <2>4. CASE At(c, at, IF at = "gameQ" THEN i + 1 ELSE i, p) /\ Sent(c, i2, p2) /\ at2 = "g2r"
    BY <2>1, <2>4 DEF Answered
  <2>5. CASE At(c, at, IF at = "gameQ" THEN i + 1 ELSE i, p) /\ At(c, at2, IF at2 = "gameQ" THEN i2 + 1 ELSE i2, p2)
    <3>1. at = at2 /\ (IF at = "gameQ" THEN i + 1 ELSE i) = (IF at2 = "gameQ" THEN i2 + 1 ELSE i2)
      BY <1>2, <2>5 DEF Course, OneToken, OneOf
    <3> QED BY <2>1, <3>1
  <2> QED BY <1>1, <2>2, <2>3, <2>4, <2>5
<1>8. ASSUME MaxPlayers > 1 PROVE LastWord(c)'
  <2>1. io'[c] \in {"lobby", "turn"} => \A at, i, p : ~At(c, at, i, p)'
    BY <1>1, <1>2, <1>8 DEF Course, LastWord, Answered
  <2>2. ASSUME NEW at, NEW i, NEW p, NEW at2, NEW i2, NEW p2,
               At(c, at, i, p)', At(c, at2, i2, p2)', p.type \in Tokens
        PROVE  (at = at2 /\ i = i2) \/ Before(at2, i2, at, i)
    <3>1. i \in Int /\ 1 <= i /\ i2 \in Int /\ 1 <= i2
      BY <1>3, <2>2
    <3>2. CASE Sent(c, i, p) /\ at = "g2r" /\ Sent(c, i2, p2) /\ at2 = "g2r"
      <4>1. i2 <= i
        BY <1>8, <2>2, <3>2 DEF Answered
      <4> QED BY <3>1, <3>2, <4>1 DEF Before
    <3>3. CASE /\ Sent(c, i, p) /\ at = "g2r"
               /\ At(c, at2, IF at2 = "gameQ" THEN i2 + 1 ELSE i2, p2) /\ (at2 = "g2r" => i2 <= Len(g2r))
      <4>1. at2 \in Stages
        BY <3>3, AtFacts
      <4>2. CASE at2 \in {"c2r", "over", "gameQ"}
        <5>1. p2.type \in Tokens
          BY <3>3, <4>2, AtFacts DEF GameRequests, Tokens, TurnTypes
        <5> QED BY <2>2, <3>1, <3>3, <5>1 DEF Answered
      <4>3. CASE at2 = "g2r"
        BY <1>6, <3>1, <3>3, <4>3 DEF Before, Sent
      <4>4. CASE at2 \in {"back", "r2c"}
        BY <3>3, <4>4 DEF Before
      <4> QED BY <4>1, <4>2, <4>3, <4>4 DEF Stages
    <3>4. CASE At(c, at, IF at = "gameQ" THEN i + 1 ELSE i, p) /\ Sent(c, i2, p2) /\ at2 = "g2r"
      BY <1>8, <2>2, <3>1, <3>4 DEF Answered
    <3>5. CASE At(c, at, IF at = "gameQ" THEN i + 1 ELSE i, p) /\ At(c, at2, IF at2 = "gameQ" THEN i2 + 1 ELSE i2, p2)
      <4>1. \/ at = at2 /\ (IF at = "gameQ" THEN i + 1 ELSE i) = (IF at2 = "gameQ" THEN i2 + 1 ELSE i2)
            \/ Before(at2, IF at2 = "gameQ" THEN i2 + 1 ELSE i2, at, IF at = "gameQ" THEN i + 1 ELSE i)
        BY <1>2, <1>8, <2>2, <3>5 DEF Course, LastWord
      <4> QED BY <3>1, <4>1 DEF Before
    <3> QED BY <1>1, <2>2, <3>2, <3>3, <3>4, <3>5
  <2> QED BY <2>1, <2>2 DEF LastWord
<1>9. LastWord(c)' \/ MaxPlayers > 1
  BY DEF LastWord
<1> QED BY <1>4, <1>5, <1>7, <1>8, <1>9 DEF Course

\* What the server takes belongs to one player, who has no other token.
LEMMA Requested ==
  ASSUME DInv, RoomsInv, ~SharedAccount, NEW c \in Conns, NEW m, At(c, "gameQ", 1, m)
  PROVE  /\ cid[c] = m.id /\ cid[c] \in Users /\ me[c] # Nobody /\ Holds(c, m)
         /\ m.type \in GameRequests /\ m.room = room[c]
         /\ \A d \in Conns : cid[d] = m.id => d = c
         /\ io[c] \notin {"lobby", "turn"}
         /\ \A at, i, p : At(c, at, i, p) /\ p.type \in Tokens => at = "gameQ" /\ i = 1
<1>1. cid[c] = m.id /\ cid[c] \in Users /\ m.type \in GameRequests
  BY AtFacts
<1>2. me[c] # Nobody /\ Holds(c, m)
  BY DEF RoomsInv, Course, PacketsOK
<1>3. m.type \in Tokens
  BY <1>1 DEF GameRequests, Tokens, TurnTypes
<1>4. io[c] \notin {"lobby", "turn"}
  BY <1>3 DEF RoomsInv, Course, PageAlone
<1>5. \A at, i, p : At(c, at, i, p) /\ p.type \in Tokens => at = "gameQ" /\ i = 1
  BY <1>3 DEF RoomsInv, Course, OneToken, OneOf
<1> QED BY <1>1, <1>2, <1>4, <1>5, OwnerIsOne DEF Holds

LEMMA RefusedKeeps ==
  ASSUME DInv, DInv', RoomsInv, ~SharedAccount, GameStep(HandleGamePacket),
         Head(gameQ).type \in RoomRequests, RoomRefused(Head(gameQ))
  PROVE  RoomsInv'
<1>1. PICK p \in GamePacket : p.type \in Rejections /\ p.to = Head(gameQ).id /\ g2r' = Append(g2r, p)
  BY DEF RoomRefused, Rejections
<1>2. g2r \in Seq(GamePacket) /\ Len(g2r) \in Nat
  BY RelayTypes, QueuePositions
<1>3. \A j \in DOMAIN g2r' : (j \in DOMAIN g2r /\ g2r'[j] = g2r[j]) \/ (Len(g2r) < j /\ j = Len(g2r) + 1 /\ g2r'[j] = p)
  BY <1>1, <1>2, QueuePositions
<1>4. UNCHANGED <<rooms, gameUp, cid, me, io, room, notice>>
  BY <1>3, GameFacts DEF RoomRefused
<1>5. PICK c0 \in Conns : At(c0, "gameQ", 1, Head(gameQ))
  BY <1>3, GameFacts
<1>6. /\ cid[c0] = Head(gameQ).id /\ me[c0] # Nobody /\ Holds(c0, Head(gameQ))
      /\ \A d \in Conns : cid[d] = Head(gameQ).id => d = c0
      /\ io[c0] \notin {"lobby", "turn"}
      /\ \A at, i, q : At(c0, at, i, q) /\ q.type \in Tokens => at = "gameQ" /\ i = 1
  BY <1>5, Requested
<1>7. SeatsOK'
  BY <1>4 DEF RoomsInv, SeatsOK, Seats, IsFull
<1>8. ASSUME NEW c \in Conns PROVE Course(c)'
  <2>1. KeepsPlace(c)
    BY <1>4 DEF KeepsPlace, Seated, SitsIn, Plays, HasTurn, Seats, HolderOfTurn, IsFull
  <2>2. (\A q : Holds(c, q) => Holds(c, q)') /\ (ToldOK(c) => ToldOK(c)')
    BY <1>4, <2>1, PlaceHolds
  <2>3. \A j \in DOMAIN g2r : j <= Len(g2r) /\ j \in Int
    BY <1>2, QueueEnd, QueuePositions
  <2>4. \A i, q : Sent(c, i, q) => c = c0 /\ i = Len(g2r) + 1 /\ q = p
    BY <1>1, <1>2, <1>3, <1>6, <2>3 DEF Sent
  <2>5. Holds(c0, p)'
    <3>1. ~Seated(cid[c0])'
      BY <1>4, <1>6 DEF Holds, Seated, Seats
    <3> QED BY <1>1, <3>1, TypesDiffer DEF Holds, Rejections, Admissions, GameRequests, RoomRequests, TurnTypes
  <2>6. \A i, q : Sent(c, i, q) => me[c] # Nobody /\ Holds(c, q)'
    BY <1>6, <2>4, <2>5
  <2>7. Answered(c)
    BY <1>2, <1>6, <2>4 DEF Answered
  <2>8. Course(c)
    BY DEF RoomsInv
  <2> QED BY <1>3, <2>2, <2>6, <2>7, <2>8, AnswerKeeps DEF Course, PacketsOK
<1> QED BY <1>4, <1>7, <1>8 DEF RoomsInv

LEMMA TurnIsPossible ==
  ASSUME DInv, RoomsInv, ~SharedAccount, GameStep(HandleGamePacket), Head(gameQ).type = "PlAYER_TURN_OVER"
  PROVE  ~TurnFatal(Head(gameQ))
<1> SUFFICES ASSUME TurnFatal(Head(gameQ)) PROVE FALSE
  OBVIOUS
<1>1. UNCHANGED g2r /\ ~CanChangeTurn(Head(gameQ).room)
  BY DEF TurnFatal
<1>2. PICK c0 \in Conns : At(c0, "gameQ", 1, Head(gameQ))
  BY <1>1, GameFacts
<1>3. PICK r : r = room[c0]
  OBVIOUS
<1>4. r = Head(gameQ).room /\ r \in RoomNames /\ cid[c0] \in Seats(r) /\ IsFull(rooms[r])
  BY <1>2, <1>3, Requested DEF Holds, HasTurn, Plays, SitsIn, TurnTypes
<1>5. rooms[r] \in Room /\ r # Nobody
  BY <1>4, GameParts, NetworkAssumption DEF GameTypeOK
<1>6. rooms[r].players # <<>>
  BY <1>4 DEF Seats
<1>7. Len(rooms[r].players) = MaxPlayers /\ rooms[r].turn \in 0 .. MaxPlayers - 1 /\ MaxPlayers \in Nat \ {0}
  BY <1>4, <1>5, GameAssumption DEF IsFull, Room
<1>8. NextTurn(rooms[r]) \in 0 .. MaxPlayers - 1
  BY <1>7 DEF NextTurn
<1> QED BY <1>1, <1>4, <1>5, <1>6, <1>7, <1>8 DEF CanChangeTurn, Exists

LEMMA PassedKeeps ==
  ASSUME DInv, DInv', RoomsInv, ~SharedAccount, GameStep(HandleGamePacket),
         Head(gameQ).type = "PlAYER_TURN_OVER", TurnPassed(Head(gameQ))
  PROVE  RoomsInv'
<1>1. PICK r, new : r = Head(gameQ).room /\ new = ChangeTurn(rooms[r])
  OBVIOUS
<1>2. PICK p \in GamePacket : g2r' = Append(g2r, p) /\ p.type = "PLAYER_TURN" /\ p.to = new.players[new.turn + 1].id
  BY <1>1 DEF TurnPassed
<1>3. CanChangeTurn(r) /\ r \in RoomNames /\ rooms' = [rooms EXCEPT ![r] = new] /\ UNCHANGED gameUp
      /\ rooms \in [RoomNames -> Room]
  BY <1>1, GameParts DEF TurnPassed, GameTypeOK
<1>4. /\ new.host = rooms[r].host /\ new.turn + 1 \in DOMAIN new.players
      /\ DOMAIN new.players = DOMAIN rooms[r].players /\ Len(new.players) = Len(rooms[r].players)
      /\ \A k \in DOMAIN new.players : new.players[k].id = rooms[r].players[k].id
  BY <1>1, <1>3, PassedSeats
<1>5. g2r \in Seq(GamePacket) /\ Len(g2r) \in Nat
  BY RelayTypes, QueuePositions
<1>6. \A j \in DOMAIN g2r' : (j \in DOMAIN g2r /\ g2r'[j] = g2r[j]) \/ (Len(g2r) < j /\ j = Len(g2r) + 1 /\ g2r'[j] = p)
  BY <1>2, <1>5, QueuePositions
<1>7. UNCHANGED <<cid, me, io, room, notice>>
  BY <1>6, GameFacts
<1>8. PICK c0 \in Conns : At(c0, "gameQ", 1, Head(gameQ))
  BY <1>6, GameFacts
<1>9. /\ cid[c0] = Head(gameQ).id /\ cid[c0] \in Users /\ Holds(c0, Head(gameQ)) /\ room[c0] = r
      /\ \A d \in Conns : cid[d] = Head(gameQ).id => d = c0
      /\ io[c0] \notin {"lobby", "turn"}
      /\ \A at, i, q : At(c0, at, i, q) /\ q.type \in Tokens => at = "gameQ" /\ i = 1
  BY <1>1, <1>8, Requested
<1>10. HasTurn(c0) /\ cid[c0] = HolderOfTurn(r) /\ IsFull(rooms[r])
  BY <1>9 DEF Holds, TurnTypes, HasTurn, Plays
<1>11. /\ rooms'[r] = new /\ IsFull(new) /\ \A s \in RoomNames \ {r} : rooms'[s] = rooms[s]
       /\ \A s \in RoomNames : Seats(s)' = Seats(s) /\ (IsFull(rooms[s])' <=> IsFull(rooms[s]))
                               /\ rooms'[s].host = rooms[s].host
       /\ \A s \in RoomNames \ {r} : HolderOfTurn(s)' = HolderOfTurn(s)
       /\ HolderOfTurn(r)' = new.players[new.turn + 1].id
  BY <1>3, <1>4, <1>10 DEF Seats, IsFull, HolderOfTurn
<1>12. \A c \in Conns : /\ Seated(cid[c])' <=> Seated(cid[c])
                        /\ SitsIn(c)' <=> SitsIn(c)
                        /\ Plays(c)' <=> Plays(c)
  BY <1>7, <1>11 DEF Seated, SitsIn, Plays
<1>13. SeatsOK'
  <2>1. \A s \in RoomNames : /\ DOMAIN rooms'[s].players = DOMAIN rooms[s].players
                             /\ Len(rooms'[s].players) = Len(rooms[s].players)
                             /\ \A k \in DOMAIN rooms[s].players : rooms'[s].players[k].id = rooms[s].players[k].id
    BY <1>3, <1>4
  <2>2. rooms[r].players # <<>>
    BY <1>3 DEF CanChangeTurn, Exists
  <2>3. \A s \in RoomNames :
          /\ rooms'[s].players # <<>> => rooms'[s].host = rooms'[s].players[1].id
          /\ Len(rooms'[s].players) <= MaxPlayers
          /\ ~IsFull(rooms[s])' => rooms'[s].turn = 0
    <3> SUFFICES ASSUME NEW s \in RoomNames
                 PROVE  /\ rooms'[s].players # <<>> => rooms'[s].host = rooms'[s].players[1].id
                        /\ Len(rooms'[s].players) <= MaxPlayers
                        /\ ~IsFull(rooms[s])' => rooms'[s].turn = 0
      OBVIOUS
    <3>1. CASE s # r
      BY <1>11, <3>1 DEF RoomsInv, SeatsOK
    <3>2. CASE s = r
      <4>1. 1 \in DOMAIN rooms[r].players
        BY <1>3, <2>2, QueuePositions DEF Room
      <4>2. rooms'[s].host = rooms'[s].players[1].id /\ Len(rooms'[s].players) <= MaxPlayers
        BY <1>11, <2>1, <2>2, <3>2, <4>1 DEF RoomsInv, SeatsOK
      <4> QED BY <1>10, <1>11, <3>2, <4>2
    <3> QED BY <3>1, <3>2
  <2> QED BY <1>7, <1>11, <2>1, <2>3 DEF RoomsInv, SeatsOK
<1>14. ASSUME NEW c \in Conns PROVE Course(c)'
  <2>1. HasTurn(c) /\ c # c0 => HasTurn(c)'
    <3> SUFFICES ASSUME HasTurn(c), c # c0 PROVE HasTurn(c)'
      OBVIOUS
    <3>1. room[c] # r
      BY <1>9, <1>10 DEF HasTurn
    <3> QED BY <1>7, <1>11, <1>12, <3>1 DEF HasTurn, Plays, SitsIn
  <2>2. \A j \in DOMAIN g2r : j <= Len(g2r) /\ j \in Int
    BY <1>5, QueueEnd, QueuePositions
  <2>3. \A i, q : Sent(c, i, q) => i = Len(g2r) + 1 /\ q = p /\ cid[c] = HolderOfTurn(r)'
    BY <1>2, <1>5, <1>6, <1>11, <2>2 DEF Sent
  <2>4. Course(c)
    BY DEF RoomsInv
  <2>5. ToldOK(c)' /\ \A at, i, q : At(c, at, i, q) /\ ~(at = "gameQ" /\ i = 1) => Holds(c, q)'
    <3>1. CASE c # c0
      <4>1. KeepsPlace(c)
        BY <1>11, <1>12, <2>1, <3>1 DEF KeepsPlace, SitsIn
      <4> QED BY <1>7, <2>4, <4>1, PlaceHolds DEF Course, PacketsOK
    <3>2. CASE c = c0
      <4>1. ToldOK(c)'
        BY <1>7, <1>9, <1>11, <1>12, <2>4, <3>2 DEF Course, ToldOK, SitsIn
      <4>2. ASSUME NEW at, NEW i, NEW q, At(c, at, i, q), ~(at = "gameQ" /\ i = 1) PROVE Holds(c, q)'
        <5>1. Holds(c, q) /\ q.type \notin TurnTypes
          BY <1>9, <2>4, <3>2, <4>2 DEF Course, PacketsOK, Tokens
        <5>2. q.type = "ALLOW_HOST_ROOM" => SitsIn(c)
          BY <5>1 DEF Holds, Admissions
        <5> QED BY <1>7, <1>11, <1>12, <5>1, <5>2 DEF Holds, SitsIn
      <4> QED BY <4>1, <4>2
    <3> QED BY <3>1, <3>2
  <2>6. ASSUME NEW i, NEW q, Sent(c, i, q)
        PROVE  me[c] # Nobody /\ Plays(c) /\ room[c] = r /\ Holds(c, q)'
    <3>1. cid[c] \in Seats(r)'
      BY <1>4, <1>11, <2>3, <2>6 DEF Seats
    <3>2. room[c] = r /\ me[c] # Nobody /\ Plays(c)
      BY <1>3, <1>10, <1>11, <3>1 DEF RoomsInv, SeatsOK, Plays, SitsIn
    <3>3. HasTurn(c)'
      BY <1>7, <1>12, <2>3, <2>6, <3>2 DEF HasTurn
    <3> QED BY <1>2, <2>3, <2>6, <3>2, <3>3, TypesDiffer
            DEF Holds, Rejections, Admissions, GameRequests, RoomRequests, TurnTypes
  <2>7. ASSUME NEW i, NEW q, Sent(c, i, q), c # c0
        PROVE  /\ io[c] \notin {"lobby", "turn"}
               /\ \A at, k, q2 : At(c, at, k, q2) => q2.type \notin Tokens
    <3>1. Seated(cid[c]) /\ ~HasTurn(c)
      BY <1>3, <1>9, <1>10, <2>6, <2>7 DEF Seated, Plays, SitsIn, HasTurn
    <3> QED BY <2>4, <3>1 DEF Course, ToldOK, PacketsOK, Holds, Tokens
  <2>8. Answered(c)
    BY <1>5, <1>9, <2>3, <2>7 DEF Answered
  <2> QED BY <1>6, <2>5, <2>6, <2>8, AnswerKeeps
<1> QED BY <1>3, <1>13, <1>14 DEF RoomsInv

\* A room with one more player.
LEMMA EnteredRoom ==
  ASSUME RoomsInv, GameTypeOK, NEW m, NEW rm, NEW new, NEW p, m.room \in RoomNames, RoomEntered(m, rm, new, p)
  PROVE  LET r == m.room
             n == Len(rooms[r].players) IN
         /\ rooms'[r] = new /\ (\A s \in RoomNames \ {r} : rooms'[s] = rooms[s]) /\ ~IsFull(rooms[r])
         /\ n \in Nat /\ DOMAIN rooms[r].players = 1 .. n /\ DOMAIN new.players = 1 .. n + 1
         /\ \A k \in 1 .. n : new.players[k].id = rooms[r].players[k].id
         /\ new.players[n + 1].id = m.id
         /\ Len(new.players) = n + 1 /\ Len(new.players) <= MaxPlayers
         /\ new.host = new.players[1].id /\ new.turn = 0
         /\ IF n = 0 THEN new.host = m.id /\ rooms[r].players = <<>> ELSE new.host = rooms[r].host
         /\ p.type \in Admissions /\ (p.type = "ALLOW_HOST_ROOM" => new.host = m.id)
<1> DEFINE r == m.room
           n == Len(rooms[r].players)
<1>1. rooms \in [RoomNames -> Room] /\ rooms[r] \in Room
  BY DEF GameTypeOK
<1>2. rooms'[r] = new /\ (\A s \in RoomNames \ {r} : rooms'[s] = rooms[s])
  BY <1>1 DEF RoomEntered
<1>3. /\ rm.players = rooms[r].players /\ ~IsFull(rooms[r])
      /\ p.type \in Admissions
      /\ rm.players = <<>> => rm.host = m.id
      /\ p.type = "ALLOW_HOST_ROOM" => rm.players = <<>>
      /\ rm.players # <<>> => rm = rooms[r]
  BY DEF RoomEntered, IsFull, Admissions
<1>4. /\ new.host = rm.host /\ new.turn = rm.turn
      /\ n \in Nat /\ DOMAIN rooms[r].players = 1 .. n /\ DOMAIN new.players = 1 .. n + 1
      /\ \A k \in 1 .. n : new.players[k].id = rooms[r].players[k].id
      /\ new.players[n + 1].id = m.id /\ Len(new.players) = n + 1
  BY <1>3 DEF RoomEntered, NextSeat
<1>5. n <= MaxPlayers /\ n # MaxPlayers /\ MaxPlayers \in Nat
  BY <1>3, GameAssumption DEF RoomsInv, SeatsOK, IsFull
<1>6. rm.turn = 0
  BY <1>3 DEF RoomEntered, RoomsInv, SeatsOK
<1>7. n = 0 <=> rooms[r].players = <<>>
  BY <1>1, EmptySeq DEF Room
<1>8. n # 0 => rooms[r].host = rooms[r].players[1].id /\ 1 \in 1 .. n
  BY <1>4, <1>7 DEF RoomsInv, SeatsOK
<1>9. new.host = new.players[1].id
  <2>1. CASE n = 0
    <3>1. new.host = m.id /\ n + 1 = 1
      BY <1>3, <1>4, <1>7, <2>1
    <3> QED BY <1>4, <3>1
  <2>2. CASE n # 0
    BY <1>3, <1>4, <1>7, <1>8, <2>2
  <2> QED BY <2>1, <2>2
<1>10. IF n = 0 THEN new.host = m.id /\ rooms[r].players = <<>> ELSE new.host = rooms[r].host
  BY <1>3, <1>4, <1>7
<1>11. p.type \in Admissions /\ (p.type = "ALLOW_HOST_ROOM" => new.host = m.id)
  BY <1>3, <1>4
<1>12. n + 1 <= MaxPlayers
  BY <1>4, <1>5
<1> HIDE DEF n, r
<1> QED BY <1>2, <1>3, <1>4, <1>6, <1>9, <1>10, <1>11, <1>12 DEF n, r

\* What goes out then: news of the game, at place n the turn, the reply last.
GoesOut(m, new, p, n) ==
  \A c \in Conns : \A i, q : Sent(c, i, q) =>
    \/ /\ i \in Int /\ i < n /\ q.type \in {"ALLOW_PLAY_GAME", "DEAL_CARDS"} /\ IsFull(new)
       /\ \E k \in DOMAIN new.players : cid[c] = new.players[k].id
    \/ i = n /\ q.type = "PLAYER_TURN" /\ IsFull(new) /\ cid[c] = new.host
    \/ i = n + 1 /\ q = p /\ cid[c] = m.id

LEMMA EnteredPackets ==
  ASSUME g2r \in Seq(GamePacket), g2r' \in Seq(GamePacket), NEW m, NEW rm, NEW new, NEW p, RoomEntered(m, rm, new, p)
  PROVE  /\ \A j \in DOMAIN g2r' : (j \in DOMAIN g2r /\ g2r'[j] = g2r[j]) \/ Len(g2r) < j
         /\ \E n \in Int : GoesOut(m, new, p, n)
<1>1. Len(g2r) \in Nat /\ (\A j \in DOMAIN g2r : j \in Int /\ j <= Len(g2r)) /\ p \in GamePacket /\ p.to = m.id
  BY QueuePositions, QueueEnd DEF RoomEntered
<1>2. \A j \in DOMAIN g2r : ~(Len(g2r) < j)
  BY <1>1
<1>3. CASE g2r' = Append(g2r, p)
  <2>1. \A j \in DOMAIN g2r' : (j \in DOMAIN g2r /\ g2r'[j] = g2r[j]) \/ (j = Len(g2r) + 1 /\ g2r'[j] = p)
    BY <1>1, <1>3, QueuePositions
  <2>2. \A c \in Conns : \A i, q : Sent(c, i, q) => i = Len(g2r) + 1 /\ q = p /\ cid[c] = m.id
    BY <1>1, <1>2, <2>1 DEF Sent
  <2>3. Len(g2r) \in Int
    BY <1>1
  <2>4. GoesOut(m, new, p, Len(g2r))
    BY <2>2 DEF GoesOut
  <2> QED BY <1>1, <2>1, <2>3, <2>4
<1>4. ASSUME IsFull(new), NEW n \in Int, GameStarts(g2r, g2r', new, n, p)
      PROVE  /\ \A j \in DOMAIN g2r' : (j \in DOMAIN g2r /\ g2r'[j] = g2r[j]) \/ Len(g2r) < j
             /\ GoesOut(m, new, p, n)
  <2>1. Len(g2r) < n
    BY <1>4 DEF GameStarts
  <2>2. Len(g2r) < n + 1
    BY <1>1, <2>1
  <2>3. \A j \in DOMAIN g2r' : j \in Int
    BY QueuePositions
  <2> QED BY <1>1, <1>2, <1>4, <2>1, <2>2, <2>3 DEF GameStarts, Sent, GoesOut
<1>5. CASE IsFull(new) /\ \E n \in Int : GameStarts(g2r, g2r', new, n, p)
  BY <1>4, <1>5
<1> QED BY <1>3, <1>5 DEF RoomEntered

\* the step that appends the client of c0 to the n players of room r
SeatAdded(r, new, c0, n) ==
  /\ UNCHANGED <<room, cid, me>> /\ room[c0] = r /\ me[c0] # Nobody /\ ~Seated(cid[c0])
  /\ \A d \in Conns : cid[d] = cid[c0] => d = c0
  /\ rooms'[r] = new /\ \A s \in RoomNames \ {r} : rooms'[s] = rooms[s]
  /\ DOMAIN rooms[r].players = 1 .. n /\ DOMAIN new.players = 1 .. n + 1
  /\ \A k \in 1 .. n : new.players[k].id = rooms[r].players[k].id
  /\ new.players[n + 1].id = cid[c0]
  /\ Len(new.players) <= MaxPlayers /\ new.host = new.players[1].id /\ new.turn = 0

LEMMA EnteredSeats ==
  ASSUME SeatsOK, NEW r \in RoomNames, NEW new, NEW c0 \in Conns, NEW n \in Nat,
         SeatAdded(r, new, c0, n)
  PROVE  /\ Seats(r)' = Seats(r) \cup {cid[c0]}
         /\ \A s \in RoomNames \ {r} : Seats(s)' = Seats(s)
         /\ SeatsOK'
<1> USE DEF SeatAdded
<1>1. \A k \in 1 .. n + 1 : k \in 1 .. n \/ k = n + 1
  OBVIOUS
<1>2. 1 .. n \subseteq 1 .. n + 1 /\ n + 1 \in 1 .. n + 1
  OBVIOUS
<1>3. Seats(r)' = Seats(r) \cup {cid[c0]}
  BY <1>1, <1>2 DEF Seats
<1>4. \A s \in RoomNames \ {r} : Seats(s)' = Seats(s)
  BY DEF Seats
<1>5. \A s \in RoomNames :
        /\ rooms'[s].players # <<>> => rooms'[s].host = rooms'[s].players[1].id
        /\ Len(rooms'[s].players) <= MaxPlayers
        /\ ~IsFull(rooms[s])' => rooms'[s].turn = 0
  BY DEF SeatsOK, IsFull
<1>6. ASSUME NEW s \in RoomNames, NEW t \in RoomNames,
             NEW i \in DOMAIN rooms'[s].players, NEW j \in DOMAIN rooms'[t].players,
             rooms'[s].players[i].id = rooms'[t].players[j].id
      PROVE  s = t /\ i = j
  <2>1. \A x \in RoomNames : \A k \in DOMAIN rooms'[x].players :
          \/ k \in DOMAIN rooms[x].players /\ rooms'[x].players[k].id = rooms[x].players[k].id
          \/ x = r /\ k = n + 1 /\ rooms'[x].players[k].id = cid[c0]
    BY <1>1
  <2>2. \A x \in RoomNames : \A k \in DOMAIN rooms[x].players : rooms[x].players[k].id # cid[c0]
    BY DEF Seated, Seats
  <2> QED BY <1>6, <2>1, <2>2 DEF SeatsOK
<1>7. \A c \in Conns, s \in RoomNames : cid'[c] \in Seats(s)' => room'[c] = s /\ me'[c] # Nobody
  BY <1>3, <1>4 DEF SeatsOK
<1> QED BY <1>3, <1>4, <1>5, <1>6, <1>7 DEF SeatsOK

LEMMA EnteredKeeps ==
  ASSUME DInv, DInv', RoomsInv, ~SharedAccount, GameStep(HandleGamePacket),
         Head(gameQ).type \in RoomRequests, Head(gameQ).room \in RoomNames,
         NEW rm, NEW new, NEW p, RoomEntered(Head(gameQ), rm, new, p)
  PROVE  RoomsInv'
<1>1. PICK r, k : r = Head(gameQ).room /\ k = Len(rooms[r].players)
  OBVIOUS
<1>2. GameTypeOK /\ g2r \in Seq(GamePacket) /\ g2r' \in Seq(GamePacket)
  BY GameParts DEF IInv, TypeOK, LinksTypeOK
<1>3. /\ rooms'[r] = new /\ (\A s \in RoomNames \ {r} : rooms'[s] = rooms[s]) /\ ~IsFull(rooms[r])
      /\ k \in Nat /\ DOMAIN rooms[r].players = 1 .. k /\ DOMAIN new.players = 1 .. k + 1
      /\ \A j \in 1 .. k : new.players[j].id = rooms[r].players[j].id
      /\ new.players[k + 1].id = Head(gameQ).id
      /\ Len(new.players) = k + 1 /\ Len(new.players) <= MaxPlayers
      /\ new.host = new.players[1].id /\ new.turn = 0
      /\ IF k = 0 THEN new.host = Head(gameQ).id /\ rooms[r].players = <<>> ELSE new.host = rooms[r].host
      /\ p.type \in Admissions /\ (p.type = "ALLOW_HOST_ROOM" => new.host = Head(gameQ).id)
  BY <1>1, <1>2, EnteredRoom
<1>4. \A j \in DOMAIN g2r' : (j \in DOMAIN g2r /\ g2r'[j] = g2r[j]) \/ Len(g2r) < j
  BY <1>2, EnteredPackets
<1>5. PICK n \in Int : GoesOut(Head(gameQ), new, p, n)
  BY <1>2, EnteredPackets
<1>6. UNCHANGED <<cid, me, io, room, notice>>
  BY <1>4, GameFacts
<1>7. PICK c0 \in Conns : At(c0, "gameQ", 1, Head(gameQ))
  BY <1>4, GameFacts
<1>8. /\ cid[c0] = Head(gameQ).id /\ me[c0] # Nobody /\ Holds(c0, Head(gameQ)) /\ room[c0] = r
      /\ \A d \in Conns : cid[d] = cid[c0] => d = c0
      /\ io[c0] \notin {"lobby", "turn"}
      /\ \A at, i, q : At(c0, at, i, q) /\ q.type \in Tokens => at = "gameQ" /\ i = 1
  BY <1>1, <1>7, Requested
<1>9. ~Seated(cid[c0])
  BY <1>8 DEF Holds
<1>10. /\ Seats(r)' = Seats(r) \cup {cid[c0]} /\ r \in RoomNames
       /\ \A s \in RoomNames \ {r} : Seats(s)' = Seats(s)
       /\ SeatsOK'
  <2>1. SeatsOK /\ r \in RoomNames
    BY <1>1 DEF RoomsInv
  <2>2. room' = room /\ cid' = cid /\ me' = me
    BY <1>6
  <2>3. new.players[k + 1].id = cid[c0]
    BY <1>3, <1>8
  <2>4. /\ rooms'[r] = new /\ (\A s \in RoomNames \ {r} : rooms'[s] = rooms[s])
        /\ k \in Nat /\ DOMAIN rooms[r].players = 1 .. k /\ DOMAIN new.players = 1 .. k + 1
        /\ \A j \in 1 .. k : new.players[j].id = rooms[r].players[j].id
        /\ Len(new.players) <= MaxPlayers /\ new.host = new.players[1].id /\ new.turn = 0
    BY <1>3
  <2>5. room[c0] = r /\ me[c0] # Nobody /\ \A d \in Conns : cid[d] = cid[c0] => d = c0
    BY <1>8
  <2>6. SeatAdded(r, new, c0, k)
    BY <1>9, <2>2, <2>3, <2>4, <2>5 DEF SeatAdded
  <2>7. k \in Nat
    BY <1>3
  <2> QED BY <2>1, <2>6, <2>7, EnteredSeats
<1>11. ASSUME NEW c \in Conns PROVE Course(c)'
  <2>1. Course(c)
    BY DEF RoomsInv
  <2>2. c # c0 => KeepsPlace(c)
    <3> SUFFICES ASSUME c # c0 PROVE KeepsPlace(c)
      OBVIOUS
    <3>1. cid[c] # cid[c0]
      BY <1>8
    <3>2. Seated(cid[c])' => Seated(cid[c])
      BY <1>6, <1>10, <3>1 DEF Seated
    <3>3. SitsIn(c) => SitsIn(c)' /\ rooms'[room[c]].host = rooms[room[c]].host
      <4>1. r \in RoomNames /\ cid[c] \in Seats(r) => k # 0
        BY <1>3 DEF Seats
      <4> QED BY <1>3, <1>6, <1>10, <4>1 DEF SitsIn
    <3>4. (Plays(c) => Plays(c)') /\ (HasTurn(c) => HasTurn(c)')
      <4>1. Plays(c) => room[c] # r
        BY <1>3 DEF Plays
      <4>2. Plays(c) => rooms'[room[c]] = rooms[room[c]]
        BY <1>3, <4>1 DEF Plays, SitsIn
      <4> QED BY <1>6, <3>3, <4>2 DEF Plays, HasTurn, SitsIn, HolderOfTurn, IsFull
    <3> QED BY <3>2, <3>3, <3>4 DEF KeepsPlace
  <2>3. ToldOK(c)' /\ \A at, i, q : At(c, at, i, q) /\ ~(at = "gameQ" /\ i = 1) => Holds(c, q)'
    <3>1. CASE c # c0
      BY <1>6, <2>1, <2>2, <3>1, PlaceHolds DEF Course, PacketsOK
    <3>2. CASE c = c0
      <4>1. ~SitsIn(c)
        BY <1>9, <3>2 DEF SitsIn, Seated
      <4>2. ToldOK(c)'
        BY <1>6, <1>8, <2>1, <3>2, <4>1 DEF Course, ToldOK
      <4>3. ASSUME NEW at, NEW i, NEW q, At(c, at, i, q), ~(at = "gameQ" /\ i = 1) PROVE Holds(c, q)'
        <5>1. Holds(c, q) /\ q.type \notin Tokens
          BY <1>8, <2>1, <3>2, <4>3 DEF Course, PacketsOK
        <5>2. q.type \notin Admissions /\ q.type \notin {"ALLOW_PLAY_GAME", "DEAL_CARDS"}
          BY <4>1, <5>1 DEF Holds, Plays
        <5>3. q.type # "ALLOW_HOST_ROOM" /\ q.type \notin GameRequests
          BY <5>1, <5>2 DEF Admissions, GameRequests, Tokens, TurnTypes
        <5> QED BY <5>1, <5>2, <5>3 DEF Holds, Tokens
      <4> QED BY <4>2, <4>3
    <3> QED BY <3>1, <3>2
  <2>4. ASSUME NEW i, NEW q, Sent(c, i, q)
        PROVE  /\ me[c] # Nobody /\ room[c] = r /\ SitsIn(c)' /\ Holds(c, q)'
               /\ c # c0 => IsFull(new) /\ SitsIn(c)
    <3>1. cid[c] \in Seats(r)' /\ (c # c0 => IsFull(new))
      <4>1. CASE IsFull(new) /\ \E j \in DOMAIN new.players : cid[c] = new.players[j].id
        <5>1. rooms'[r] = new
          BY <1>3
        <5> QED BY <4>1, <5>1 DEF Seats
      <4>2. CASE i = n /\ q.type = "PLAYER_TURN" /\ IsFull(new) /\ cid[c] = new.host
        <5>1. 1 \in DOMAIN new.players
          BY <1>3
        <5> QED BY <1>3, <4>2, <5>1 DEF Seats
      <4>3. CASE cid[c] = Head(gameQ).id
        BY <1>8, <1>10, <4>3
      <4> QED BY <1>5, <2>4, <4>1, <4>2, <4>3 DEF GoesOut
    <3>2. room[c] = r /\ me[c] # Nobody
      BY <1>6, <1>10, <3>1 DEF SeatsOK
    <3>3. SitsIn(c)' /\ (IsFull(new) => Plays(c)')
      BY <1>3, <1>6, <1>10, <3>1, <3>2 DEF SitsIn, Plays, IsFull
    <3>4. c # c0 => SitsIn(c)
      BY <1>8, <1>10, <3>1, <3>2 DEF SitsIn
    <3>5. Holds(c, q)'
      <4>1. CASE q.type \in {"ALLOW_PLAY_GAME", "DEAL_CARDS"} /\ IsFull(new)
        BY <3>3, <4>1 DEF Holds, GameRequests, RoomRequests, Rejections, Admissions, TurnTypes
      <4>2. CASE q.type = "PLAYER_TURN" /\ IsFull(new) /\ cid[c] = new.host
        <5>1. HolderOfTurn(r)' = new.host
          BY <1>3 DEF HolderOfTurn
        <5>2. HasTurn(c)'
          BY <1>6, <3>2, <3>3, <4>2, <5>1 DEF HasTurn
        <5> QED BY <4>2, <5>2 DEF Holds, GameRequests, RoomRequests, Rejections, Admissions
      <4>3. CASE q = p /\ cid[c] = Head(gameQ).id
        <5>1. q.type = "ALLOW_HOST_ROOM" => rooms'[room'[c]].host = cid'[c]
          BY <1>3, <1>6, <3>2, <4>3
        <5>2. q.type \in Admissions
          BY <1>3, <4>3
        <5> QED BY <3>3, <5>1, <5>2 DEF Holds, GameRequests, RoomRequests, Rejections, Admissions, TurnTypes
      <4> QED BY <1>5, <2>4, <4>1, <4>2, <4>3 DEF GoesOut
    <3> QED BY <3>1, <3>2, <3>3, <3>4, <3>5
  <2>5. ASSUME NEW i, NEW q, Sent(c, i, q), c # c0
        PROVE  /\ io[c] \notin {"lobby", "turn"}
               /\ \A at, j, q2 : At(c, at, j, q2) => q2.type \notin Tokens
    <3>1. SitsIn(c) /\ Seated(cid[c]) /\ ~HasTurn(c)
      BY <1>3, <2>4, <2>5 DEF Seated, SitsIn, HasTurn, Plays
    <3> QED BY <2>1, <3>1 DEF Course, ToldOK, PacketsOK, Holds, Tokens
  <2>6. Answered(c)
    <3>1. ASSUME NEW i, NEW q, NEW i2, NEW q2, Sent(c, i, q), Sent(c, i2, q2),
                 q.type \in Tokens, q2.type \in Tokens \/ MaxPlayers > 1
          PROVE  i2 <= i
      <4>1. p.type \notin Tokens
        BY <1>3 DEF Admissions, Tokens, RoomRequests, Rejections, TurnTypes
      <4>2. i = n /\ IsFull(new) /\ cid[c] = new.host
        BY <1>5, <3>1, <4>1 DEF GoesOut, Tokens, RoomRequests, Rejections, TurnTypes
      <4>3. ~(i2 = n + 1 /\ q2 = p /\ cid[c] = Head(gameQ).id)
        <5> SUFFICES ASSUME q2 = p, cid[c] = Head(gameQ).id PROVE FALSE
          OBVIOUS
        <5>1. MaxPlayers > 1 /\ c = c0
          BY <1>8, <3>1, <4>1
        <5>2. k + 1 = MaxPlayers /\ MaxPlayers \in Nat
          BY <1>3, <4>2, GameAssumption DEF IsFull
        <5>3. k # 0 /\ 1 \in 1 .. k
          BY <1>3, <5>1, <5>2
        <5>4. new.host \in Seats(r)
          BY <1>3, <5>3 DEF Seats
        <5> QED BY <1>9, <1>10, <4>2, <5>1, <5>4 DEF Seated
      <4>4. (i2 \in Int /\ i2 < n) \/ i2 = n
        BY <1>5, <3>1, <4>3 DEF GoesOut
      <4> QED BY <4>2, <4>4
    <3>2. ASSUME NEW i, NEW q, Sent(c, i, q), q.type \in Tokens \/ MaxPlayers > 1
          PROVE  /\ io[c] \notin {"lobby", "turn"}
                 /\ \A at, j, q2 : At(c, at, j, q2) /\ q2.type \in Tokens => at = "gameQ" /\ j = 1
      <4>1. CASE c = c0
        BY <1>8, <4>1
      <4>2. CASE c # c0
        BY <2>5, <3>2, <4>2
      <4> QED BY <4>1, <4>2
    <3> QED BY <3>1, <3>2 DEF Answered
  <2>7. \A j \in DOMAIN g2r' : (j \in DOMAIN g2r /\ g2r'[j] = g2r[j]) \/ Len(g2r) < j
    BY <1>4
  <2>8. \A i, q : Sent(c, i, q) => me[c] # Nobody /\ Holds(c, q)'
    BY <2>4
  <2> QED BY <2>3, <2>6, <2>7, <2>8, AnswerKeeps
<1>12. gameUp'
  BY DEF RoomEntered, RoomsInv
<1> QED BY <1>10, <1>11, <1>12 DEF RoomsInv

\* A step of the game server, whatever it takes.
LEMMA GameServerKeeps ==
  ASSUME DInv, DInv', RoomsInv, ~SharedAccount, GameStep(HandleGamePacket)
  PROVE  RoomsInv'
<1>1. CASE Head(gameQ).type \in RoomRequests /\ Head(gameQ).room \in RoomNames /\ RoomRefused(Head(gameQ))
  BY <1>1, RefusedKeeps
<1>2. CASE /\ Head(gameQ).type \in RoomRequests /\ Head(gameQ).room \in RoomNames
           /\ \E rm, new, p : RoomEntered(Head(gameQ), rm, new, p)
  BY <1>2, EnteredKeeps
<1>3. CASE Head(gameQ).type = "PlAYER_TURN_OVER" /\ TurnPassed(Head(gameQ))
  BY <1>3, PassedKeeps
<1>4. CASE Head(gameQ).type = "PlAYER_TURN_OVER" /\ TurnFatal(Head(gameQ))
  BY <1>4, TurnIsPossible
<1> QED BY <1>1, <1>2, <1>3, <1>4, GameEffects

(***************************************************************************)
(* All steps.                                                              *)
(***************************************************************************)
LEMMA ClientKeeps ==
  ASSUME DInv, DInv', RoomsInv, NEW c \in Conns, ClientStep(UserStep(c)) \/ ClientStep(HandleIO(c))
  PROVE  RoomsInv'
<1>1. CASE ClientStep(UserStep(c))
  <2>1. CASE \/ ClientStep(Connect(c)) \/ ClientStep(LogInOrRegister(c))
             \/ ClientStep(WrongInput(c)) \/ ClientStep(Quit(c))
    BY <2>1, QuietUserKeeps
  <2>2. CASE ClientStep(HostOrJoin(c))
    BY <2>2, HostOrJoinKeeps
  <2>3. CASE ClientStep(FinishTurn(c))
    BY <2>3, FinishTurnKeeps
  <2> QED BY <1>1, <2>1, <2>2, <2>3 DEF ClientStep, UserStep
<1>2. CASE ClientStep(HandleIO(c))
  <2>1. CASE \/ ClientStep(HandleAcceptLogIn(c)) \/ ClientStep(HandleAcceptRegister(c))
             \/ ClientStep(HandleRejectLogin(c))
    BY <2>1, LoginAnswerKeeps
  <2>2. CASE ClientStep(HandleAllowRoom(c))
    BY <2>2, HandleAllowRoomKeeps
  <2>3. CASE ClientStep(HandleRejectRoom(c))
    BY <2>3, HandleRejectRoomKeeps
  <2>4. CASE ClientStep(HandlePlayGame(c)) \/ ClientStep(HandleDealCards(c))
    BY <2>4, TableKeeps
  <2>5. CASE ClientStep(HandlePlayerTurn(c))
    BY <2>5, HandlePlayerTurnKeeps
  <2> QED BY <1>2, <2>1, <2>2, <2>3, <2>4, <2>5 DEF ClientStep, HandleIO
<1> QED BY <1>1, <1>2

LEMMA RelayKeeps ==
  ASSUME DInv, DInv', RoomsInv, ~SharedAccount, ~SharedAccount',
         \/ RelayStep(HandleRelayPacket) \/ RelayStep(ReceiveFromLogin) \/ RelayStep(ReceiveFromGame)
         \/ \E c \in Conns : RelayStep(Accept(c)) \/ RelayStep(RelayWorker(c))
  PROVE  RoomsInv'
<1>1. CASE RelayStep(HandleRelayPacket)
  <2>1. CASE RelayStep(ForwardToLogin)
    <3>1. UNCHANGED <<clientVars, gameVars, cid>>
      BY <2>1 DEF RelayStep, ForwardToLogin
    <3> QED BY <2>1, <3>1, ForwardToLoginMoves, RelayMovesKeep
  <2>2. CASE RelayStep(ForwardToGame)
    <3>1. UNCHANGED <<clientVars, gameVars, cid>>
      BY <2>2 DEF RelayStep, ForwardToGame
    <3> QED BY <2>2, <3>1, ForwardToGameMoves, RelayMovesKeep
  <2>3. CASE RelayStep(ForwardToClient)
    <3>1. UNCHANGED <<clientVars, gameVars, cid>>
      BY <2>3 DEF RelayStep, ForwardToClient
    <3> QED BY <2>3, <3>1, ForwardToClientMoves, RelayMovesKeep
  <2>4. CASE RelayStep(BeginRekey)
    BY <2>4, BeginRekeyKeepsRooms
  <2>5. CASE RelayStep(FinishRekey)
    <3>1. UNCHANGED <<clientVars, gameVars, cid>>
      BY <2>5 DEF RelayStep, FinishRekey
    <3> QED BY <2>5, <3>1, FinishRekeyMoves, RelayMovesKeep
  <2> QED BY <1>1, <2>1, <2>2, <2>3, <2>4, <2>5 DEF RelayStep, HandleRelayPacket
<1>2. CASE RelayStep(ReceiveFromLogin)
  <2>1. UNCHANGED <<clientVars, gameVars, cid>>
    BY <1>2 DEF RelayStep, ReceiveFromLogin
  <2> QED BY <1>2, <2>1, ReceiveFromLoginMoves, RelayMovesKeep
<1>3. CASE RelayStep(ReceiveFromGame)
  <2>1. UNCHANGED <<clientVars, gameVars, cid>>
    BY <1>3 DEF RelayStep, ReceiveFromGame
  <2> QED BY <1>3, <2>1, ReceiveFromGameMoves, RelayMovesKeep
<1>4. ASSUME NEW c \in Conns, RelayStep(Accept(c)) PROVE RoomsInv'
  BY <1>4, AcceptKeepsRooms
<1>5. ASSUME NEW c \in Conns, RelayStep(RelayWorker(c)) PROVE RoomsInv'
  <2>1. UNCHANGED <<clientVars, gameVars, cid>>
    BY <1>5 DEF RelayStep, RelayWorker, ReceiveFromClient, NoticeReset, NoticeEof, NoticeFailedWrite
  <2>2. CASE RelayStep(ReceiveFromClient(c))
    BY <2>1, <2>2, ReceiveFromClientMoves, RelayMovesKeep
  <2>3. CASE RelayStep(NoticeReset(c)) \/ RelayStep(NoticeEof(c)) \/ RelayStep(NoticeFailedWrite(c))
    BY <2>1, <2>3, WorkerMoves, RelayMovesKeep
  <2> QED BY <1>5, <2>2, <2>3 DEF RelayStep, RelayWorker
<1> QED BY <1>1, <1>2, <1>3, <1>4, <1>5

LEMMA StillKeeps ==
  ASSUME DInv, DInv', RoomsInv, UNCHANGED <<clientVars, gameVars, cid, c2r, r2c, relayQ, gameQ, g2r>>
  PROVE  RoomsInv'
<1>1. ASSUME NEW c \in Conns PROVE Moves(c)
  <2>1. \A at, i, p : At(c, at, i, p)' => At(c, at, i, p)
    BY DEF At
  <2> QED BY <2>1, NothingMoved
<1> QED BY <1>1, RelayMovesKeep

\* Who has the account of another keeps it.
LEMMA NextShared ==
  ASSUME DInv, [Next]_vars, SharedAccount
  PROVE  SharedAccount'
<1>1. CASE UNCHANGED cid
  BY <1>1, SharedStays
<1>2. ASSUME NEW d \in Conns, RelayStep(Accept(d)) PROVE SharedAccount'
  <2>1. conn[d] = "pending" /\ \E t : cid' = [cid EXCEPT ![d] = t]
    BY <1>2 DEF RelayStep, Accept
  <2>2. cid[d] \notin Users /\ \A c \in Conns \ {d} : cid'[c] = cid[c]
    BY <2>1, ConnFacts, RelayTypes, IdKinds
  <2> QED BY <2>2, SharedStays
<1>3. CASE RelayStep(BeginRekey)
  <2>1. PICK p : p = Head(relayQ).pb
    OBVIOUS
  <2>2. /\ PopRelay({"ACCEPT_LOG_IN"})
        /\ \/ clients[p.to] # Nobody /\ cid' = [cid EXCEPT ![clients[p.to]] = p.id]
           \/ UNCHANGED cid
    BY <1>3, <2>1 DEF RelayStep, BeginRekey
  <2>3. 1 \in DOMAIN relayQ /\ p = relayQ[1].pb /\ p.type = "ACCEPT_LOG_IN"
    BY <2>1, <2>2, RelayPopped
  <2>4. p.to \in Keys /\ p.to \in Ids
    <3>1. p.type \in LoginReplies
      BY <2>3 DEF LoginReplies
    <3> QED BY <2>3, <3>1, ReplyFacts
  <2>5. CASE clients[p.to] # Nobody /\ cid' = [cid EXCEPT ![clients[p.to]] = p.id]
    <3>1. PICK d \in Conns : d = clients[p.to] /\ cid[d] = p.to
      BY <2>4, <2>5, MapFacts
    <3>2. cid[d] \notin Users /\ \A c \in Conns \ {d} : cid'[c] = cid[c]
      BY <2>4, <2>5, <3>1, RelayTypes, IdKinds
    <3> QED BY <3>2, SharedStays
  <2> QED BY <1>1, <2>2, <2>5
<1>4. \/ UNCHANGED cid \/ RelayStep(BeginRekey)
      \/ \E d \in Conns : RelayStep(Accept(d))
  <2>1. CASE UNCHANGED vars
    BY <2>1 DEF vars, relayVars
  <2>2. CASE \/ \E c \in Conns : ClientStep(UserStep(c)) \/ ClientStep(HandleIO(c))
             \/ LoginStep(HandleLoginPacket) \/ GameStep(HandleGamePacket)
    BY <2>2 DEF ClientStep, LoginStep, GameStep, relayVars
  <2>3. CASE RelayStep(HandleRelayPacket)
    BY <2>3 DEF RelayStep, HandleRelayPacket, ForwardToLogin, ForwardToGame, ForwardToClient, FinishRekey
  <2>4. CASE \/ RelayStep(ReceiveFromLogin) \/ RelayStep(ReceiveFromGame) \/ RelayStep(NoticeGameServerEnd)
             \/ \E c \in Conns : RelayStep(RelayWorker(c))
    BY <2>4 DEF RelayStep, ReceiveFromLogin, ReceiveFromGame, NoticeGameServerEnd,
                RelayWorker, ReceiveFromClient, NoticeReset, NoticeEof, NoticeFailedWrite
  <2> QED BY <2>1, <2>2, <2>3, <2>4 DEF Next
<1> QED BY <1>1, <1>2, <1>3, <1>4

LEMMA InitRooms == Init => RoomsInv
<1> SUFFICES ASSUME Init PROVE RoomsInv
  OBVIOUS
<1> USE DEF Init, LinksInit, ClientInit, LoginInit, RelayInit, GameInit
<1>1. \A c \in Conns : cid[c] = Nobody /\ me[c] = Nobody /\ notice[c] = "none" /\ io[c] = "idle"
  OBVIOUS
<1>2. \A r \in RoomNames : rooms[r].players = <<>> /\ rooms[r].turn = 0 /\ Seats(r) = {}
  BY EmptySeq DEF NewRoom, Seats
<1>3. SeatsOK
  BY <1>2, EmptySeq, GameAssumption DEF SeatsOK
<1>4. \A c \in Conns : \A at, i, p : ~At(c, at, i, p)
  BY EmptySeq DEF At
<1>5. \A c \in Conns : Course(c)
  BY <1>1, <1>4 DEF Course, ToldOK, PacketsOK, OneToken, OneOf, PageAlone, LastWord
<1> QED BY <1>3, <1>5 DEF RoomsInv

\* The relay has no end of the game server to notice.
LEMMA ServerStands ==
  ASSUME RoomsInv
  PROVE  ~RelayStep(NoticeGameServerEnd)
BY DEF RoomsInv, RelayStep, NoticeGameServerEnd

LEMMA NextRooms ==
  ASSUME OwnMillis, DInv, SharedAccount \/ RoomsInv, [Next]_vars
  PROVE  SharedAccount' \/ RoomsInv'
<1>1. DInv'
  BY NextDInv
<1>2. CASE SharedAccount
  BY <1>2, NextShared
<1>3. CASE SharedAccount'
  BY <1>3
<1>4. CASE RoomsInv /\ ~SharedAccount /\ ~SharedAccount'
  <2>1. CASE \E c \in Conns : ClientStep(UserStep(c)) \/ ClientStep(HandleIO(c))
    BY <1>1, <1>4, <2>1, ClientKeeps
  <2>2. CASE LoginStep(HandleLoginPacket) \/ UNCHANGED vars
    <3>1. UNCHANGED <<clientVars, gameVars, cid, c2r, r2c, relayQ, gameQ, g2r>>
      BY <2>2 DEF LoginStep, HandleLoginPacket, HandleLogIn, HandleRegister, vars, links, relayVars
    <3> QED BY <1>1, <1>4, <3>1, StillKeeps
  <2>3. CASE GameStep(HandleGamePacket)
    BY <1>1, <1>4, <2>3, GameServerKeeps
  <2>4. CASE \/ RelayStep(HandleRelayPacket) \/ RelayStep(ReceiveFromLogin) \/ RelayStep(ReceiveFromGame)
             \/ \E c \in Conns : RelayStep(Accept(c)) \/ RelayStep(RelayWorker(c))
    BY <1>1, <1>4, <2>4, RelayKeeps
  <2> QED BY <1>4, <2>1, <2>2, <2>3, <2>4, ServerStands DEF Next
<1> QED BY <1>2, <1>3, <1>4

LEMMA RoomsInductive ==
  ASSUME OwnMillis
  PROVE  Spec => [](DInv /\ (SharedAccount \/ RoomsInv))
<1>1. Init => DInv /\ (SharedAccount \/ RoomsInv)
  BY InitDInv, InitRooms
<1>2. DInv /\ (SharedAccount \/ RoomsInv) /\ [Next]_vars => (DInv /\ (SharedAccount \/ RoomsInv))'
  BY NextDInv, NextRooms
<1> QED BY <1>1, <1>2, PTL DEF Spec

(***************************************************************************)
(* The theorems.                                                           *)
(***************************************************************************)

\* The game server ends only where two programs use one account: otherwise no
\* PlAYER_TURN_OVER reaches it before the room it names is there and full.
THEOREM EndsBySharedAccount ==
  ASSUME OwnMillis
  PROVE  Spec => []GameServerNeedsOwnAccounts
<1>1. SharedAccount \/ RoomsInv => GameServerNeedsOwnAccounts
  BY DEF RoomsInv, GameServerNeedsOwnAccounts
<1>2. Spec => [](DInv /\ (SharedAccount \/ RoomsInv))
  BY RoomsInductive
<1> QED BY <1>1, <1>2, PTL

LEMMA OwnAccounts ==
  ASSUME OwnMillis, OwnAccountEach
  PROVE  Spec => [](DInv /\ RoomsInv /\ ~SharedAccount)
<1>1. DInv => ~SharedAccount
  BY DEF DInv, OwnLogins, SharedAccount, OwnAccountEach
<1>2. Spec => [](DInv /\ (SharedAccount \/ RoomsInv))
  BY RoomsInductive
<1> QED BY <1>1, <1>2, PTL

\* Where nobody uses the account of another it never ends.
THEOREM GameServerLives ==
  ASSUME OwnMillis, OwnAccountEach
  PROVE  Spec => []GameServerSurvives
<1>1. RoomsInv => GameServerSurvives
  BY DEF RoomsInv, GameServerSurvives
<1>2. Spec => [](DInv /\ RoomsInv /\ ~SharedAccount)
  BY OwnAccounts
<1> QED BY <1>1, <1>2, PTL

\* The relay then ends only after a client did.
THEOREM RelayOutlivesClients ==
  ASSUME OwnMillis, OwnAccountEach
  PROVE  Spec => [](relayUp \/ \E c \in Conns : Gone(c))
<1>1. RelaySurvives /\ GameServerSurvives => relayUp \/ \E c \in Conns : Gone(c)
  BY DEF RelaySurvives, GameServerSurvives
<1>2. Spec => []RelaySurvives
  BY RelayEndsAfterOthers
<1>3. Spec => []GameServerSurvives
  BY GameServerLives
<1> QED BY <1>1, <1>2, <1>3, PTL

\* A player then has one seat, in the room it was told of and asked for last,
\* and is shown a turn only at the table it sits at.
THEOREM PlayersSeated ==
  ASSUME OwnMillis, OwnAccountEach
  PROVE  Spec => []SeatedAsTold
<1>1. DInv /\ RoomsInv => SeatedAsTold
  <2> SUFFICES ASSUME DInv, RoomsInv PROVE SeatedAsTold
    OBVIOUS
  <2>1. ASSUME NEW c \in Conns
        PROVE  /\ notice[c] = "hosted" => rooms[room[c]].host = me[c].id
               /\ notice[c] # "none" => me[c].id \in Seats(room[c])
               /\ io[c] = "turn" => me[c].id \in Seats(room[c])
    <3>1. ToldOK(c)
      BY DEF RoomsInv, Course
    <3>2. notice[c] # "none" \/ io[c] = "turn" => SitsIn(c)
      BY <3>1 DEF ToldOK, HasTurn, Plays
    <3>3. SitsIn(c) => me[c].id = cid[c] /\ cid[c] \in Seats(room[c])
      BY ConnFacts DEF SitsIn, RoomsInv, SeatsOK
    <3> QED BY <3>1, <3>2, <3>3 DEF ToldOK
  <2> QED BY <2>1 DEF SeatedAsTold, RoomsInv, SeatsOK
<1>2. Spec => [](DInv /\ RoomsInv /\ ~SharedAccount)
  BY OwnAccounts
<1> QED BY <1>1, <1>2, PTL

\* The turn of a room moves on only when the player who has it is done, by one
\* seat, whatever PlAYER_TURN_OVER packets are under way; seats and hands are kept.
LEMMA TurnsStep ==
  ASSUME DInv, RoomsInv, ~SharedAccount, [Next]_vars, NEW r \in RoomNames
  PROVE  /\ Seats(r) \subseteq Seats(r)'
         /\ IsFull(rooms[r]) =>
              \A i \in 1 .. MaxPlayers : rooms'[r].players[i].hand = rooms[r].players[i].hand
         /\ rooms'[r].turn # rooms[r].turn =>
              /\ gameQ # <<>> /\ Head(gameQ).id = HolderOfTurn(r)
              /\ rooms'[r].turn = (rooms[r].turn + 1) % MaxPlayers
<1>1. CASE rooms'[r] = rooms[r]
  BY <1>1 DEF Seats
<1>2. CASE GameStep(HandleGamePacket)
  <2>1. GameTypeOK /\ gameQ # <<>>
    BY <1>2, GameParts
  <2>2. ASSUME Head(gameQ).room \in RoomNames, NEW rm, NEW new, NEW p, RoomEntered(Head(gameQ), rm, new, p),
               rooms'[r] # rooms[r]
        PROVE  Seats(r) \subseteq Seats(r)' /\ ~IsFull(rooms[r]) /\ rooms'[r].turn = rooms[r].turn
    <3>1. PICK k : r = Head(gameQ).room /\ k = Len(rooms[r].players)
      BY <2>1, <2>2, EnteredRoom
    <3>2. /\ rooms'[r] = new /\ ~IsFull(rooms[r]) /\ new.turn = 0 /\ k \in Nat
          /\ DOMAIN rooms[r].players = 1 .. k /\ DOMAIN new.players = 1 .. k + 1
          /\ \A j \in 1 .. k : new.players[j].id = rooms[r].players[j].id
      BY <2>1, <2>2, <3>1, EnteredRoom
    <3>3. \A j \in 1 .. k : j \in 1 .. k + 1
      BY <3>2
    <3>4. Seats(r) \subseteq Seats(r)'
      BY <3>2, <3>3 DEF Seats
    <3> QED BY <3>2, <3>4 DEF RoomsInv, SeatsOK
  <2>3. ASSUME Head(gameQ).type = "PlAYER_TURN_OVER", TurnPassed(Head(gameQ)), rooms'[r] # rooms[r]
        PROVE  /\ Seats(r) \subseteq Seats(r)'
               /\ \A i \in DOMAIN rooms[r].players : rooms'[r].players[i].hand = rooms[r].players[i].hand
               /\ IsFull(rooms[r]) /\ Head(gameQ).id = HolderOfTurn(r)
               /\ rooms'[r].turn = (rooms[r].turn + 1) % MaxPlayers
    <3>1. PICK new : r = Head(gameQ).room /\ new = ChangeTurn(rooms[r])
      BY <2>1, <2>3 DEF TurnPassed, GameTypeOK
    <3>2. CanChangeTurn(r) /\ rooms'[r] = new /\ rooms[r] \in Room
      BY <2>1, <2>3, <3>1 DEF TurnPassed, GameTypeOK
    <3>3. /\ new.turn = (rooms[r].turn + 1) % MaxPlayers
          /\ DOMAIN new.players = DOMAIN rooms[r].players
          /\ \A k \in DOMAIN new.players : /\ new.players[k].id = rooms[r].players[k].id
                                           /\ new.players[k].hand = rooms[r].players[k].hand
      BY <3>1, <3>2, PassedSeats
    <3>4. Seats(r) \subseteq Seats(r)'
      BY <3>2, <3>3 DEF Seats
    <3>5. IsAccount(Head(gameQ).id)
      BY <1>2, GameParts DEF DInv, RequestsSigned
    <3>6. PICK c \in Conns : cid[c] = Head(gameQ).id /\ At(c, "gameQ", 1, Head(gameQ))
      BY <1>2, <3>5, GameParts DEF IsAccount, At
    <3>7. HasTurn(c) /\ room[c] = r
      BY <2>3, <3>1, <3>6, Requested DEF Holds, TurnTypes
    <3> QED BY <3>2, <3>3, <3>4, <3>6, <3>7 DEF HasTurn, Plays
  <2>4. IsFull(rooms[r]) => DOMAIN rooms[r].players = 1 .. MaxPlayers
    <3>1. rooms[r].players \in Seq(Player)
      BY <2>1 DEF GameTypeOK, Room
    <3> QED BY <3>1, LenProperties DEF IsFull
  <2>5. \/ UNCHANGED rooms
        \/ Head(gameQ).room \in RoomNames /\ \E rm, new, p : RoomEntered(Head(gameQ), rm, new, p)
        \/ Head(gameQ).type = "PlAYER_TURN_OVER" /\ TurnPassed(Head(gameQ))
    BY <1>2, GameEffects DEF RoomRefused, TurnFatal
  <2> QED BY <1>1, <2>1, <2>2, <2>3, <2>4, <2>5
<1>3. GameStep(HandleGamePacket) \/ UNCHANGED rooms
  BY DEF Next, ClientStep, LoginStep, RelayStep, gameVars, vars
<1> QED BY <1>1, <1>2, <1>3

THEOREM TurnsPassInOrder ==
  ASSUME OwnMillis, OwnAccountEach
  PROVE  Spec => TurnsInOrder
<1>1. DInv /\ RoomsInv /\ ~SharedAccount /\ [Next]_vars =>
        [\A r \in RoomNames :
           /\ Seats(r) \subseteq Seats(r)'
           /\ IsFull(rooms[r]) =>
                \A i \in 1 .. MaxPlayers : rooms'[r].players[i].hand = rooms[r].players[i].hand
           /\ rooms'[r].turn # rooms[r].turn =>
                /\ gameQ # <<>> /\ Head(gameQ).id = HolderOfTurn(r)
                /\ rooms'[r].turn = (rooms[r].turn + 1) % MaxPlayers]_vars
  BY TurnsStep
<1>2. Spec => [](DInv /\ RoomsInv /\ ~SharedAccount)
  BY OwnAccounts
<1> QED BY <1>1, <1>2, PTL DEF Spec, TurnsInOrder


(***************************************************************************)
(* One request of a client at a time.                                      *)
(***************************************************************************)

\* Who is shown the lobby and has an account has logged in.
LobbyKnown == \A c \in Conns : io[c] = "lobby" /\ cid[c] \in Users => me[c] # Nobody

\* The first packet that a client receives.
LEMMA FirstReceived ==
  ASSUME DInv, NEW c \in Conns, r2c[c] # <<>>
  PROVE  /\ Head(r2c[c]) = r2c[c][1] /\ 1 \in DOMAIN r2c[c] /\ r2c[c][1] \in PacketToClient
         /\ r2c[c][1].to = cid[c]
         /\ r2c[c][1].type \in LoginReplies \ {"ACCEPT_LOG_IN"} => cid[c] \in Keys
<1>1. r2c[c] \in Seq(PacketToClient)
  BY RelayTypes
<1>2. Head(r2c[c]) = r2c[c][1] /\ 1 \in DOMAIN r2c[c] /\ r2c[c][1] \in PacketToClient
  BY <1>1, QueuePositions, QueueTypes
<1> QED BY <1>2 DEF DInv, ReachesOwn

LEMMA ClientLobby ==
  ASSUME DInv, RoomsInv, NEW c \in Conns, ClientStep(UserStep(c)) \/ ClientStep(HandleIO(c)),
         LobbyKnown
  PROVE  LobbyKnown'
<1>1. ClientTypeOK /\ LocalStep(c) /\ cid' = cid
  BY LocalFacts DEF LocalStep, relayVars
<1>2. \A d \in Conns \ {c} : io'[d] = io[d] /\ me'[d] = me[d]
  BY <1>1 DEF LocalStep
<1> SUFFICES ASSUME io'[c] = "lobby", cid[c] \in Users, io[c] # "lobby" \/ me'[c] # me[c] PROVE me'[c] # Nobody
  BY <1>1, <1>2 DEF LobbyKnown
<1>3. CASE ClientStep(UserStep(c))
  <2>1. io'[c] = "lobby" => io[c] = "lobby" /\ me'[c] = me[c]
    BY <1>1, <1>3 DEF ClientTypeOK, ClientStep, UserStep, Connect, LogInOrRegister, LeaveLoginPage, HostOrJoin,
                      LeaveLobby, WrongInput, FinishTurn, Quit, clientVars
  <2> QED BY <2>1
<1>4. CASE ClientStep(HandleIO(c))
  <2>1. r2c[c] # <<>> /\ io[c] = "idle"
    BY <1>4 DEF ClientStep, HandleIO, HandleAcceptLogIn, HandleAcceptRegister, HandleRejectLogin, HandleAllowRoom,
                HandleRejectRoom, HandlePlayGame, HandleDealCards, HandlePlayerTurn, Receive
  <2>2. /\ Head(r2c[c]) = r2c[c][1] /\ 1 \in DOMAIN r2c[c] /\ r2c[c][1] \in PacketToClient
        /\ r2c[c][1].to = cid[c]
        /\ r2c[c][1].type \in LoginReplies \ {"ACCEPT_LOG_IN"} => cid[c] \in Keys
    BY <2>1, FirstReceived
  <2>3. CASE ClientStep(HandleAcceptLogIn(c))
    <3>1. me'[c] = [id |-> cid[c], hand |-> NoCards, num |-> HandSize]
      BY <1>1, <2>2, <2>3 DEF ClientStep, HandleAcceptLogIn, ClientTypeOK
    <3>2. me'[c] \in Me
      BY <3>1, NetworkAssumption, ClientAssumption DEF Me, NoCards, Bag
    <3> QED BY <3>2, ClientAssumption
  <2>4. CASE ClientStep(HandleAcceptRegister(c))
    <3>1. r2c[c][1].type = "ACCEPT_REGISTER"
      BY <2>2, <2>4 DEF ClientStep, HandleAcceptRegister, Receive
    <3> QED BY <2>2, <3>1, IdKinds DEF LoginReplies
  <2>5. CASE ClientStep(HandleRejectRoom(c))
    <3>1. r2c[c][1].type \in GameReplies /\ UNCHANGED me
      BY <2>2, <2>5 DEF ClientStep, HandleRejectRoom, Receive, GameReplies, RoomReplies
    <3>2. At(c, "r2c", 1, r2c[c][1])
      BY <2>2, <3>1 DEF At
    <3> QED BY <3>1, <3>2 DEF RoomsInv, Course, PacketsOK
  <2>6. CASE \/ ClientStep(HandleRejectLogin(c)) \/ ClientStep(HandleAllowRoom(c)) \/ ClientStep(HandlePlayGame(c))
             \/ ClientStep(HandleDealCards(c)) \/ ClientStep(HandlePlayerTurn(c))
    <3>1. io'[c] # "lobby"
      BY <1>1, <2>1, <2>6 DEF ClientStep, HandleRejectLogin, HandleAllowRoom, HandlePlayGame, HandleDealCards,
                              HandlePlayerTurn, ShowPage, ClientTypeOK
    <3> QED BY <3>1
  <2> QED BY <1>4, <2>3, <2>4, <2>5, <2>6 DEF ClientStep, HandleIO
<1> QED BY <1>3, <1>4

LEMMA NextLobby ==
  ASSUME DInv, RoomsInv, [Next]_vars, LobbyKnown
  PROVE  LobbyKnown'
<1>1. CASE \E c \in Conns : ClientStep(UserStep(c)) \/ ClientStep(HandleIO(c))
  BY <1>1, ClientLobby
<1>2. CASE UNCHANGED <<io, me, cid>>
  BY <1>2 DEF LobbyKnown
<1>3. ASSUME NEW d \in Conns, RelayStep(Accept(d)) PROVE LobbyKnown'
  <2>1. conn[d] = "pending" /\ UNCHANGED <<io, me>> /\ \E t : cid' = [cid EXCEPT ![d] = t]
    BY <1>3 DEF RelayStep, Accept, clientVars
  <2>2. io[d] = "idle" /\ \A c \in Conns \ {d} : cid'[c] = cid[c]
    BY <2>1, ConnFacts, RelayTypes
  <2> QED BY <2>1, <2>2 DEF LobbyKnown
<1>4. CASE RelayStep(BeginRekey)
  <2>1. PICK p : p = Head(relayQ).pb
    OBVIOUS
  <2>2. /\ PopRelay({"ACCEPT_LOG_IN"}) /\ UNCHANGED <<io, me>>
        /\ \/ clients[p.to] # Nobody /\ cid' = [cid EXCEPT ![clients[p.to]] = p.id]
           \/ UNCHANGED cid
    BY <1>4, <2>1 DEF RelayStep, BeginRekey, clientVars
  <2>3. 1 \in DOMAIN relayQ /\ p = relayQ[1].pb /\ p.type \in LoginReplies
    BY <2>1, <2>2, RelayPopped DEF LoginReplies
  <2>4. p.to \in Keys /\ p.to \in Ids
    BY <2>3, ReplyFacts
  <2>5. CASE clients[p.to] # Nobody /\ cid' = [cid EXCEPT ![clients[p.to]] = p.id]
    <3>1. PICK d \in Conns : d = clients[p.to] /\ cid[d] = p.to
      BY <2>4, <2>5, MapFacts
    <3>2. cid[d] \notin Users /\ \A c \in Conns \ {d} : cid'[c] = cid[c]
      BY <2>4, <2>5, <3>1, RelayTypes, IdKinds
    <3>3. io[d] # "lobby"
      BY <2>3, <3>1, <3>2 DEF DInv, OneLoginEach, LoginAt
    <3> QED BY <2>2, <3>2, <3>3 DEF LobbyKnown
  <2> QED BY <1>2, <2>2, <2>5
<1>5. \/ UNCHANGED <<io, me, cid>> \/ RelayStep(BeginRekey)
      \/ \E c \in Conns : ClientStep(UserStep(c)) \/ ClientStep(HandleIO(c))
      \/ \E d \in Conns : RelayStep(Accept(d))
  <2>1. CASE UNCHANGED vars
    BY <2>1 DEF vars, relayVars, clientVars
  <2>2. CASE LoginStep(HandleLoginPacket) \/ GameStep(HandleGamePacket)
    BY <2>2 DEF LoginStep, GameStep, relayVars, clientVars
  <2>3. CASE RelayStep(HandleRelayPacket)
    BY <2>3 DEF RelayStep, HandleRelayPacket, ForwardToLogin, ForwardToGame, ForwardToClient, FinishRekey, clientVars
  <2>4. CASE \/ RelayStep(ReceiveFromLogin) \/ RelayStep(ReceiveFromGame) \/ RelayStep(NoticeGameServerEnd)
             \/ \E c \in Conns : RelayStep(RelayWorker(c))
    BY <2>4 DEF RelayStep, ReceiveFromLogin, ReceiveFromGame, NoticeGameServerEnd, clientVars,
                RelayWorker, ReceiveFromClient, NoticeReset, NoticeEof, NoticeFailedWrite
  <2> QED BY <2>1, <2>2, <2>3, <2>4 DEF Next
<1> QED BY <1>1, <1>2, <1>3, <1>4, <1>5

\* A login that is nowhere on its way, and no packet of the game, is nothing.
LEMMA NothingLeft ==
  ASSUME DInv, NEW c \in Conns, NEW at \in {"none", "main", "page"}, NEW i, LoginAt(c, at, i),
         \A at2, j, p : ~At(c, at2, j, p)
  PROVE  NothingUnderWay(c)
<1>1. /\ c2r[c] \in Seq(ClientPacket) /\ r2c[c] \in Seq(PacketToClient) /\ g2r \in Seq(GamePacket)
      /\ gameQ \in Seq(GameRequest) /\ l2r \in Seq(LoginReply)
  BY RelayTypes
<1>2. c2r[c] = <<>>
  <2> SUFFICES ASSUME c2r[c] # <<>> PROVE FALSE
    OBVIOUS
  <2>1. 1 \in DOMAIN c2r[c] /\ c2r[c][1] \in ClientPacket
    BY <1>1, QueuePositions, QueueTypes
  <2>2. c2r[c][1].type \notin LoginRequests
    BY <2>1 DEF LoginAt
  <2>3. At(c, "c2r", 1, c2r[c][1])
    BY <2>1, <2>2, ClientPacketKinds DEF At
  <2> QED BY <2>3
<1>3. ASSUME NEW j \in DOMAIN relayQ
      PROVE  relayQ[j].from # c /\ (relayQ[j].from = Nobody => ~FromOrTo(relayQ[j].pb, c))
  <2>1. /\ relayQ[j] \in RelayPacket
        /\ relayQ[j].pb.type \in LoginRequests \cup GameRequests => relayQ[j].from \in Conns
        /\ relayQ[j].pb.type \in LoginReplies \cup GameReplies => relayQ[j].pb \in ServerPacket
    BY QueuedFacts
  <2>2. relayQ[j].from # c
    <3> SUFFICES ASSUME relayQ[j].from = c PROVE FALSE
      OBVIOUS
    <3>1. relayQ[j].pb \in ClientPacket
      BY <2>1, IdKinds DEF RelayPacket
    <3>2. relayQ[j].pb.type \notin LoginRequests
      BY DEF LoginAt
    <3>3. At(c, "over", j, relayQ[j].pb)
      BY <3>1, <3>2, ClientPacketKinds DEF At
    <3> QED BY <3>3
  <2>3. relayQ[j].from = Nobody => ~FromOrTo(relayQ[j].pb, c)
    <3> SUFFICES ASSUME relayQ[j].from = Nobody, FromOrTo(relayQ[j].pb, c) PROVE FALSE
      OBVIOUS
    <3>1. relayQ[j].pb \in ServerPacket /\ relayQ[j].pb.type \notin LoginRequests \cup GameRequests
      BY <2>1, IdKinds DEF RelayPacket
    <3>2. relayQ[j].pb.to = cid[c]
      BY <3>1 DEF FromOrTo
    <3>3. relayQ[j].pb.type \notin LoginReplies
      BY <3>2 DEF LoginAt
    <3>4. At(c, "back", j, relayQ[j].pb)
      BY <3>1, <3>2, <3>3, ServerPacketKinds DEF At
    <3> QED BY <3>4
  <2> QED BY <2>2, <2>3
<1>4. /\ \A j \in DOMAIN loginQ : loginQ[j].key # cid[c]
      /\ \A j \in DOMAIN l2r : ~FromOrTo(l2r[j], c)
      /\ rekey # Nobody => rekey.c # c
  <2>1. \A j \in DOMAIN l2r : l2r[j].type \in LoginReplies
    <3>1. \A j \in DOMAIN l2r : l2r[j] \in LoginReply
      BY <1>1, QueueTypes
    <3> QED BY <3>1 DEF LoginReply
  <2> QED BY <2>1, TypesDiffer DEF LoginAt, FromOrTo
<1>5. \A j \in DOMAIN gameQ : ~FromOrTo(gameQ[j], c)
  <2>1. \A j \in DOMAIN gameQ : gameQ[j].type \in GameRequests
    BY <1>1, QueueTypes DEF GameRequest, GameRequests
  <2> QED BY <2>1, TypesDiffer DEF FromOrTo, At
<1>6. \A j \in DOMAIN g2r : ~FromOrTo(g2r[j], c)
  <2>1. \A j \in DOMAIN g2r : g2r[j].type \in GameReplies
    BY <1>1, QueueTypes DEF GamePacket, GameReplies
  <2> QED BY <2>1, TypesDiffer DEF FromOrTo, At
<1>7. \A j \in DOMAIN r2c[c] : ~FromOrTo(r2c[c][j], c)
  <2> SUFFICES ASSUME NEW j \in DOMAIN r2c[c] PROVE FALSE
    OBVIOUS
  <2>1. r2c[c][j] \in PacketToClient
    BY <1>1, QueueTypes
  <2>2. r2c[c][j].type \notin LoginReplies
    BY DEF LoginAt
  <2>3. r2c[c][j].type \in GameReplies
    BY <2>1, <2>2 DEF PacketToClient, LoginReplies, GamePacket, GameReplies
  <2> QED BY <2>3 DEF At
<1> QED BY <1>2, <1>3, <1>4, <1>5, <1>6, <1>7 DEF NothingUnderWay, ToSet

\* A person who may type has no request under way, and no answer or notice on
\* its way, where nobody plays alone.
THEOREM RequestsAreSingle ==
  ASSUME OwnMillis, OwnAccountEach, MaxPlayers > 1
  PROVE  Spec => []OneRequestEach
<1>1. DInv /\ RoomsInv /\ LobbyKnown => OneRequestEach
  <2> SUFFICES ASSUME DInv, RoomsInv, LobbyKnown, NEW c \in Conns,
                      Alive(c), main[c] = "login" \/ io[c] \in {"login", "lobby", "turn"}
               PROVE  NothingUnderWay(c)
    BY DEF OneRequestEach
  <2>1. PICK at \in LoginStages, i \in Int : LoginAt(c, at, i)
    BY DEF DInv, OneLoginEach
  <2>2. CASE io[c] = "turn" \/ (io[c] = "lobby" /\ cid[c] \in Users)
    <3>1. me[c] # Nobody
      BY <2>2, ClientAssumption DEF LobbyKnown, DInv, IInv, PagesInv, TurnsLoggedIn
    <3>2. at = "none"
      BY <2>1, <3>1 DEF LoginAt
    <3>3. \A at2, j, p : ~At(c, at2, j, p)
      BY <2>2 DEF RoomsInv, Course, LastWord
    <3> QED BY <2>1, <3>2, <3>3, NothingLeft
  <2>3. CASE (main[c] = "login" \/ io[c] \in {"login", "lobby"}) /\ ~(io[c] = "lobby" /\ cid[c] \in Users)
    <3>1. at \in {"none", "main", "page"} /\ cid[c] \notin Users
      BY <2>1, <2>3 DEF LoginAt
    <3>2. \A at2, j, p : ~At(c, at2, j, p)
      BY <3>1, AtFacts
    <3> QED BY <2>1, <3>1, <3>2, NothingLeft
  <2> QED BY <2>2, <2>3
<1>2. Init => LobbyKnown
  BY DEF Init, ClientInit, LobbyKnown
<1>3. DInv /\ RoomsInv /\ LobbyKnown /\ [Next]_vars => LobbyKnown'
  BY NextLobby
<1>4. Spec => [](DInv /\ RoomsInv /\ ~SharedAccount)
  BY OwnAccounts
<1> QED BY <1>1, <1>2, <1>3, <1>4, PTL DEF Spec
=============================================================================
