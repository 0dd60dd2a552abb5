------------------------------- MODULE Client -------------------------------
(***************************************************************************)
(* The player's program.  Its main thread connects, shows the login page   *)
(* once and then spins.  Its IO thread receives one packet at a time and   *)
(* runs PacketManager::handlePacket, which shows every later page and the  *)
(* turn itself: while a page waits for input no packet is received.        *)
(*                                                                         *)
(* What the player types is free.  A hand is a bag: the order of the cards *)
(* decides only which one cardsOnHand[0] is, here any card of the hand.    *)
(* A null dereference ends the process.  Reading a vector past its end     *)
(* ends it or goes unnoticed.                                              *)
(*                                                                         *)
(* A definition X_y before X is X with a plausible fault, as elsewhere.    *)
(***************************************************************************)
EXTENDS Network

CONSTANTS
  Owns,        \* Owns[c]: the accounts the person at client c types
  Quitters,    \* clients whose window may be closed at any time
  MaxDiscard,  \* MAX_LIMIT_DISCARD_CARDS
  Floor        \* bound: card counters stop falling here

\* GameManager::me, and what is known of another player.
Me == [id : Users, hand : Bag, num : Floor .. HandSize]
OtherPlayer == [id : Users, num : Floor .. HandSize]

ASSUME ClientAssumption ==
  /\ Owns \in [Conns -> SUBSET Users]
  /\ Quitters \subseteq Conns
  /\ MaxDiscard \in Nat \ {0} /\ MaxDiscard < HandSize
  /\ Floor \in Int /\ Floor < 0
  /\ Nobody \notin Me

VARIABLES
  main,    \* main thread: not started, at the login page, or spinning
  io,      \* IO thread: receiving, or at a page that waits for input
  me,      \* GameManager::me, or Nobody for the null pointer
  room,    \* LobbyManager::nameOfRoom
  others,  \* GameManager::otherPlayers
  notice   \* which of "host completed" and "enter completed" was shown last

clientVars == <<main, io, me, room, others, notice>>

Floored(n) == IF n < Floor THEN Floor ELSE n

Send(c, p) == c2r' = [c2r EXCEPT ![c] = Append(@, p)]

\* The process ends; nobody will read what was on its way to it.
Die(c) ==
  /\ \E how \in {"reset", "eof"} : conn' = [conn EXCEPT ![c] = how]
  /\ r2c' = [r2c EXCEPT ![c] = <<>>]

\* main: connect, showIntro, showLoginPage.
Connect(c) ==
  /\ conn[c] = "none"
  /\ conn' = [conn EXCEPT ![c] = "pending"]
  /\ main' = [main EXCEPT ![c] = "login"]
  /\ UNCHANGED <<io, me, room, others, notice, c2r, r2c, loginQ, l2r, gameQ, g2r>>

\* showLoginPage runs on the main thread first, on the IO thread after a reject.
LeaveLoginPage(c) ==
  \/ main[c] = "login" /\ main' = [main EXCEPT ![c] = "done"] /\ UNCHANGED io
  \/ io[c] = "login" /\ io' = [io EXCEPT ![c] = "idle"] /\ UNCHANGED main

\* login and registerUser.
LogInOrRegister(c) ==
  /\ Alive(c)
  /\ LeaveLoginPage(c)
  /\ \E type \in LoginRequests, u \in Owns[c], p \in Passwords :
       Send(c, [type |-> type, id |-> u, password |-> p])
  /\ UNCHANGED <<me, room, others, notice, conn, r2c, loginQ, l2r, gameQ, g2r>>

LeaveLobby_Stay(c) == io[c] = "lobby" /\ UNCHANGED <<io, main>>
LeaveLobby(c) ==
  /\ io[c] = "lobby"
  /\ io' = [io EXCEPT ![c] = "idle"]
  /\ UNCHANGED main

\* host and join.  getMe() is null after a registration: the process ends at
\* getMe()->getId(), which host calls before and join after it sets nameOfRoom.
HostOrJoin(c) ==
  /\ Alive(c)
  /\ io[c] = "lobby"
  /\ \E type \in RoomRequests, r \in RoomNames :
       \/ /\ me[c] # Nobody
          /\ LeaveLobby(c)
          /\ room' = [room EXCEPT ![c] = r]
          /\ Send(c, [type |-> type, id |-> me[c].id, room |-> r])
          /\ UNCHANGED <<conn, r2c>>
       \/ /\ me[c] = Nobody
          /\ Die(c)
          /\ room' = IF type = "REQ_ENTER_ROOM" THEN [room EXCEPT ![c] = r] ELSE room
          /\ UNCHANGED <<main, io, c2r>>
  /\ UNCHANGED <<me, others, notice, loginQ, l2r, gameQ, g2r>>

\* "Wrong input": the page returns and nothing is sent.
WrongInput(c) ==
  /\ Alive(c)
  /\ LeaveLoginPage(c) \/ LeaveLobby(c)
  /\ UNCHANGED <<me, room, others, notice, links>>

\* chooseCardsToDiscard: the loop goes on while size() <= MAX_LIMIT_DISCARD_CARDS.
DiscardChoices == {chosen \in Bag : Size(chosen) <= MaxDiscard + 1}

\* Player::discardCards: the players the call may leave behind.  An empty
\* choice discards one card of the hand and counts it twice; its first read is
\* past the end when the hand is empty.
Discard_NoFind(p, chosen) == {[p EXCEPT !.hand = [t \in CardTypes |-> @[t] - chosen[t]]]}
Discard(p, chosen) ==
  IF Size(chosen) = 0 THEN
    {[p EXCEPT !.hand[t] = @ - 1, !.num = Floored(@ - 2)] : t \in {t \in CardTypes : p.hand[t] > 0}}
      \cup (IF p.hand = NoCards THEN {[p EXCEPT !.num = Floored(@ - 1)]} ELSE {})
  ELSE IF Size(chosen) > MaxDiscard THEN {p}
  ELSE LET left == [t \in CardTypes |-> IF chosen[t] < p.hand[t] THEN p.hand[t] - chosen[t] ELSE 0]
       IN {[p EXCEPT !.hand = left, !.num = Floored(@ - (Size(p.hand) - Size(left)))]}

\* showUI reads the first numOfCardsOnHand cards of the hand.
ShowUI(c, p) ==
  \/ UNCHANGED <<conn, r2c>>
  \/ p.num > Size(p.hand) /\ Die(c)

\* The rest of myTurn, once the player has chosen.  The choice, not what was
\* discarded, is what the other players are told of.
FinishTurn(c) ==
  /\ Alive(c)
  /\ io[c] = "turn"
  /\ \E chosen \in DiscardChoices :
       \/ \E p \in Discard(me[c], chosen) :
            /\ me' = [me EXCEPT ![c] = p]
            /\ io' = [io EXCEPT ![c] = "idle"]
            /\ Send(c, [type |-> "PlAYER_TURN_OVER", id |-> me[c].id, room |-> room[c],
                        discarded |-> Size(chosen)])
            /\ ShowUI(c, p)
       \/ /\ Size(chosen) = 0 /\ me[c].hand = NoCards
          /\ Die(c)
          /\ UNCHANGED <<me, io, c2r>>
  /\ UNCHANGED <<main, room, others, notice, loginQ, l2r, gameQ, g2r>>

\* handleIO: the packet the IO thread receives.
Receive(c, types) ==
  /\ Alive(c)
  /\ io[c] = "idle"
  /\ r2c[c] # <<>>
  /\ Head(r2c[c]).type \in types
Received(c) == r2c' = [r2c EXCEPT ![c] = Tail(@)]
ReceivedQuietly(c) == Received(c) /\ UNCHANGED <<conn, c2r, loginQ, l2r, gameQ, g2r>>
ShowPage(c, page) == io' = [io EXCEPT ![c] = page]

HandleAcceptLogIn(c) ==
  /\ Receive(c, {"ACCEPT_LOG_IN"})
  /\ me' = [me EXCEPT ![c] = [id |-> Head(r2c[c]).to, hand |-> NoCards, num |-> HandSize]]
  /\ ShowPage(c, "lobby")
  /\ ReceivedQuietly(c)
  /\ UNCHANGED <<main, room, others, notice>>

HandleAcceptRegister(c) ==
  /\ Receive(c, {"ACCEPT_REGISTER"})
  /\ ShowPage(c, "lobby")
  /\ ReceivedQuietly(c)
  /\ UNCHANGED <<main, me, room, others, notice>>

HandleRejectLogin_NoPage(c) ==
  /\ Receive(c, {"REJECT_LOG_IN", "REJECT_REGISTER"})
  /\ ReceivedQuietly(c)
  /\ UNCHANGED clientVars
HandleRejectLogin(c) ==
  /\ Receive(c, {"REJECT_LOG_IN", "REJECT_REGISTER"})
  /\ ShowPage(c, "login")
  /\ ReceivedQuietly(c)
  /\ UNCHANGED <<main, me, room, others, notice>>

HandleAllowRoom(c) ==
  /\ Receive(c, {"ALLOW_HOST_ROOM", "ALLOW_ENTER_ROOM"})
  /\ notice' = [notice EXCEPT ![c] =
                  IF Head(r2c[c]).type = "ALLOW_HOST_ROOM" THEN "hosted" ELSE "entered"]
  /\ ReceivedQuietly(c)
  /\ UNCHANGED <<main, io, me, room, others>>

HandleRejectRoom_NoLobby(c) ==
  /\ Receive(c, {"REJECT_HOST_ROOM", "REJECT_ENTER_ROOM"})
  /\ ReceivedQuietly(c)
  /\ UNCHANGED clientVars
HandleRejectRoom(c) ==
  /\ Receive(c, {"REJECT_HOST_ROOM", "REJECT_ENTER_ROOM"})
  /\ ShowPage(c, "lobby")
  /\ ReceivedQuietly(c)
  /\ UNCHANGED <<main, me, room, others, notice>>

HandlePlayGame(c) ==
  /\ Receive(c, {"ALLOW_PLAY_GAME"})
  /\ LET ids == Head(r2c[c]).others IN
     others' = [others EXCEPT ![c] = @ \o [i \in DOMAIN ids |-> [id |-> ids[i], num |-> HandSize]]]
  /\ ReceivedQuietly(c)
  /\ UNCHANGED <<main, io, me, room, notice>>

HandleDealCards(c) ==
  /\ Receive(c, {"DEAL_CARDS"})
  /\ \/ /\ me[c] # Nobody
        /\ me' = [me EXCEPT ![c].hand = Head(r2c[c]).cards]
        /\ \/ ReceivedQuietly(c)
           \/ /\ me[c].num > Size(Head(r2c[c]).cards)
              /\ Die(c) /\ UNCHANGED <<c2r, loginQ, l2r, gameQ, g2r>>
     \/ /\ me[c] = Nobody
        /\ Die(c)
        /\ UNCHANGED <<me, c2r, loginQ, l2r, gameQ, g2r>>
  /\ UNCHANGED <<main, io, room, others, notice>>

\* getOtherPlayerStatus finds the first player of that id; setOtherPlayerStatus
\* lowers the count of every one.
Known(c, u) == {i \in DOMAIN others[c] : others[c][i].id = u}
Lowered(c, u, num) ==
  [i \in DOMAIN others[c] |->
     IF i \in Known(c, u) /\ others[c][i].num > num THEN [id |-> u, num |-> num] ELSE others[c][i]]
SeesDiscard(c, u, discarded) ==
  \E i \in Known(c, u) :
    /\ \A j \in Known(c, u) : i <= j
    /\ others' = [others EXCEPT ![c] = Lowered(c, u, Floored(others[c][i].num - discarded))]

\* PLAYER_TURN up to the first input of myTurn.  It ends the process when the
\* previous player is not among otherPlayers, or nobody is logged in.
HandlePlayerTurn(c) ==
  /\ Receive(c, {"PLAYER_TURN"})
  /\ LET m == Head(r2c[c])
         unknown == m.previous # Nobody /\ Known(c, m.previous) = {}
     IN \/ /\ ~unknown
           /\ IF m.previous = Nobody THEN UNCHANGED others
              ELSE SeesDiscard(c, m.previous, m.discarded)
           /\ \/ /\ me[c] # Nobody
                 /\ ShowPage(c, "turn")
                 /\ ReceivedQuietly(c)
              \/ /\ me[c] = Nobody \/ me[c].num > Size(me[c].hand)
                 /\ Die(c)
                 /\ UNCHANGED <<io, c2r, loginQ, l2r, gameQ, g2r>>
        \/ /\ unknown
           /\ Die(c)
           /\ UNCHANGED <<io, others, c2r, loginQ, l2r, gameQ, g2r>>
  /\ UNCHANGED <<main, me, room, notice>>

HandleIO(c) ==
  \/ HandleAcceptLogIn(c) \/ HandleAcceptRegister(c) \/ HandleRejectLogin(c)
  \/ HandleAllowRoom(c) \/ HandleRejectRoom(c)
  \/ HandlePlayGame(c) \/ HandleDealCards(c) \/ HandlePlayerTurn(c)

\* The window is closed.  Bound: not before the relay has accepted.
Quit(c) ==
  /\ c \in Quitters
  /\ conn[c] = "up"
  /\ Die(c)
  /\ UNCHANGED <<clientVars, c2r, loginQ, l2r, gameQ, g2r>>

UserStep(c) ==
  \/ Connect(c) \/ LogInOrRegister(c) \/ HostOrJoin(c) \/ WrongInput(c)
  \/ FinishTurn(c) \/ Quit(c)

ClientInit ==
  /\ main = [c \in Conns |-> "off"]
  /\ io = [c \in Conns |-> "idle"]
  /\ me = [c \in Conns |-> Nobody]
  /\ room = [c \in Conns |-> Nobody]
  /\ others = [c \in Conns |-> <<>>]
  /\ notice = [c \in Conns |-> "none"]

ClientTypeOK ==
  /\ main \in [Conns -> {"off", "login", "done"}]
  /\ io \in [Conns -> {"idle", "login", "lobby", "turn"}]
  /\ me \in [Conns -> Me \cup {Nobody}]
  /\ room \in [Conns -> RoomNames \cup {Nobody}]
  /\ others \in [Conns -> Seq(OtherPlayer)]
  /\ notice \in [Conns -> {"none", "hosted", "entered"}]
=============================================================================
