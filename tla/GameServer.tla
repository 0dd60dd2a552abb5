----------------------------- MODULE GameServer -----------------------------
(***************************************************************************)
(* The game server: RoomManager, Room, Dealer and Player behind            *)
(* PacketManager::handlePacket.  One thread pops gameQ and runs each       *)
(* handler to its end, so a handler is one action; everything it sends is  *)
(* appended to g2r in the order of the calls to sendMessage.               *)
(*                                                                         *)
(* RoomManager::leaveRoom and deleteRoom have no caller: rooms are only    *)
(* created and filled.                                                     *)
(*                                                                         *)
(* A definition X_y before X is X with a plausible fault, as elsewhere.    *)
(***************************************************************************)
EXTENDS Network, SequencesExt

CONSTANTS
  MaxPlayers,  \* MAX_PLAYERS_IN_ROOM
  Deck         \* the cards initDeck puts in the deck, as a sequence of types

ASSUME GameAssumption ==
  /\ MaxPlayers \in Nat \ {0}
  /\ Deck \in Seq(CardTypes)
  /\ MaxPlayers * HandSize <= Len(Deck)

VARIABLES
  rooms,   \* RoomManager::rooms by name; a room nobody hosts has no players
  gameUp   \* the server process is running

gameVars == <<rooms, gameUp>>

NewPlayer(u) == [id |-> u, hand |-> NoCards, isPlayerTurn |-> FALSE]
NewRoom(u) == [host |-> u, players |-> <<>>, turn |-> 0]

\* findRoomByName: host and first player come together, and players never leave.
Exists_NotFound(r) == FALSE
Exists(r) == r # Nobody /\ rooms[r].players # <<>>
IsFull(room) == Len(room.players) = MaxPlayers

\* random_shuffle: position j of the shuffled deck holds card p[j] of the old.
Shuffles == {p \in [DOMAIN Deck -> DOMAIN Deck] : \A j, k \in DOMAIN Deck : p[j] = p[k] => j = k}

\* The i-th player gets the i-th group of HandSize cards.
Slice_Overlap(i) == ((i - 1) * (HandSize - 1) + 1) .. ((i - 1) * (HandSize - 1) + HandSize)
Slice(i) == ((i - 1) * HandSize + 1) .. (i * HandSize)
HandOf(p, i) == [t \in CardTypes |-> Cardinality({j \in Slice(i) : Deck[p[j]] = t})]
DealCards(room, p) ==
  [room EXCEPT !.players = [i \in DOMAIN @ |-> [@[i] EXCEPT !.hand = HandOf(p, i)]]]

OtherIds_First(players, i) == [j \in 1 .. Len(players) - 1 |-> RemoveAt(players, 1)[j].id]
OtherIds(players, i) == [j \in 1 .. Len(players) - 1 |-> RemoveAt(players, i)[j].id]

\* Room::playGame, for a room whose cards are dealt.
Others(room) ==
  [i \in DOMAIN room.players |->
     [type |-> "ALLOW_PLAY_GAME", to |-> room.players[i].id, others |-> OtherIds(room.players, i)]]
Hands(room) ==
  [i \in DOMAIN room.players |->
     [type |-> "DEAL_CARDS", to |-> room.players[i].id, cards |-> room.players[i].hand]]
FirstTurn(u) == <<[type |-> "PLAYER_TURN", to |-> u, previous |-> Nobody, discarded |-> 0]>>
PlayGame_TurnFirst(room) == Others(room) \o FirstTurn(room.host) \o Hands(room)
PlayGame_AllStart(room) ==
  Others(room) \o Hands(room) \o [i \in DOMAIN room.players |-> FirstTurn(room.players[i].id)[1]]
PlayGame(room) == Others(room) \o Hands(room) \o FirstTurn(room.host)

\* Room::enterRoom of a room with a free seat; the reply goes out after the
\* packets of playGame.
EnterRoom(r, room, u, reply) ==
  LET seated == [room EXCEPT !.players = Append(@, NewPlayer(u))] IN
  \/ /\ ~IsFull(seated)
     /\ rooms' = [rooms EXCEPT ![r] = seated]
     /\ g2r' = Append(g2r, reply)
  \/ /\ IsFull(seated)
     /\ \E p \in Shuffles :
          /\ rooms' = [rooms EXCEPT ![r] = DealCards(seated, p)]
          /\ g2r' = g2r \o PlayGame(DealCards(seated, p)) \o <<reply>>

\* The packet handlePacketThread pops.
PopGame(type) ==
  /\ gameUp
  /\ gameQ # <<>>
  /\ Head(gameQ).type = type
  /\ gameQ' = Tail(gameQ)

Reply(type, u) == [type |-> type, to |-> u]

\* REQ_HOST_ROOM and RoomManager::hostRoom.
HandleHostRoom ==
  /\ PopGame("REQ_HOST_ROOM")
  /\ LET r == Head(gameQ).room
         u == Head(gameQ).id
     IN \/ /\ ~Exists(r)
           /\ EnterRoom(r, NewRoom(u), u, Reply("ALLOW_HOST_ROOM", u))
        \/ /\ Exists(r)
           /\ g2r' = Append(g2r, Reply("REJECT_HOST_ROOM", u))
           /\ UNCHANGED rooms
  /\ UNCHANGED <<gameUp, conn, c2r, r2c, loginQ, l2r>>

\* REQ_ENTER_ROOM and RoomManager::enterRoom.
HandleEnterRoom ==
  /\ PopGame("REQ_ENTER_ROOM")
  /\ LET r == Head(gameQ).room
         u == Head(gameQ).id
     IN \/ /\ Exists(r) /\ ~IsFull(rooms[r])
           /\ EnterRoom(r, rooms[r], u, Reply("ALLOW_ENTER_ROOM", u))
        \/ /\ ~Exists(r) \/ IsFull(rooms[r])
           /\ g2r' = Append(g2r, Reply("REJECT_ENTER_ROOM", u))
           /\ UNCHANGED rooms
  /\ UNCHANGED <<gameUp, conn, c2r, r2c, loginQ, l2r>>

\* Room::changeTurn.  Players count from 0 in the code, from 1 here.
NextTurn_NoWrap(room) == room.turn + 1
NextTurn_Skip(room) == (room.turn + 2) % MaxPlayers
NextTurn(room) == (room.turn + 1) % MaxPlayers
ChangeTurn(room) ==
  LET next == NextTurn(room)
      IsPlaying(i) == i = next + 1 \/ (i # room.turn + 1 /\ room.players[i].isPlayerTurn)
  IN [room EXCEPT !.turn = next,
                  !.players = [i \in DOMAIN @ |-> [@[i] EXCEPT !.isPlayerTurn = IsPlaying(i)]]]

\* PlAYER_TURN_OVER.  The handler checks neither that the room exists, nor
\* that it is full, nor whose turn it is: the first two end the process, by a
\* null dereference and by an index past the end of playersInRoom.
CanChangeTurn(r) ==
  /\ Exists(r)
  /\ {rooms[r].turn, NextTurn(rooms[r])} \subseteq 0 .. Len(rooms[r].players) - 1

HandleTurnOver ==
  /\ PopGame("PlAYER_TURN_OVER")
  /\ LET m == Head(gameQ)
         room == ChangeTurn(rooms[m.room])
     IN \/ /\ CanChangeTurn(m.room)
           /\ rooms' = [rooms EXCEPT ![m.room] = room]
           /\ g2r' = Append(g2r, [type |-> "PLAYER_TURN", to |-> room.players[room.turn + 1].id,
                                  previous |-> m.id, discarded |-> m.discarded])
           /\ UNCHANGED gameUp
        \/ /\ ~CanChangeTurn(m.room)
           /\ gameUp' = FALSE
           /\ UNCHANGED <<rooms, g2r>>
  /\ UNCHANGED <<conn, c2r, r2c, loginQ, l2r>>

HandleGamePacket == HandleHostRoom \/ HandleEnterRoom \/ HandleTurnOver

GameInit ==
  /\ rooms = [r \in RoomNames |-> NewRoom(Nobody)]
  /\ gameUp = TRUE

Player == [id : Users, hand : Bag, isPlayerTurn : BOOLEAN]
Room == [host : Users \cup {Nobody}, players : Seq(Player), turn : 0 .. MaxPlayers - 1]

GameTypeOK ==
  /\ rooms \in [RoomNames -> Room]
  /\ gameUp \in BOOLEAN
=============================================================================
