------------------------------ MODULE LiarsBar ------------------------------
(***************************************************************************)
(* The four programs together: any number of clients, one relay, one login *)
(* server, one game server.  Each step is a step of one thread of one      *)
(* program; it changes the variables of that program and the links.        *)
(***************************************************************************)
EXTENDS Client, LoginServer, RelayServer, GameServer, FiniteSetsExt

vars == <<links, clientVars, db, relayVars, gameVars>>

Init == LinksInit /\ ClientInit /\ LoginInit /\ RelayInit /\ GameInit

ClientStep(A) == A /\ UNCHANGED <<db, relayVars, gameVars>>
LoginStep(A) == A /\ UNCHANGED <<clientVars, relayVars, gameVars>>
RelayStep(A) == A /\ UNCHANGED <<clientVars, db, gameVars>>
GameStep(A) == A /\ UNCHANGED <<clientVars, db, relayVars>>

\* ServerConnector::handleIO, when the game server has ended: both branches
\* dereference the completion key, which is the socket, and the relay ends too.
NoticeGameServerEnd ==
  /\ relayUp /\ ~gameUp
  /\ relayUp' = FALSE
  /\ UNCHANGED <<clients, cid, now, relayQ, rekey, failing, lastError, links>>

Next ==
  \/ \E c \in Conns : ClientStep(UserStep(c)) \/ ClientStep(HandleIO(c))
  \/ LoginStep(HandleLoginPacket)
  \/ GameStep(HandleGamePacket)
  \/ RelayStep(HandleRelayPacket)
  \/ RelayStep(ReceiveFromLogin) \/ RelayStep(ReceiveFromGame) \/ RelayStep(NoticeGameServerEnd)
  \/ \E c \in Conns : RelayStep(Accept(c)) \/ RelayStep(RelayWorker(c))

\* Every thread of the programs goes on while it can.  The people do not have
\* to: they owe nobody a login, a room or a turn.  (A client whose first receive
\* failed, NetworkManager.cpp, takes no HandleIO step: Spec allows that, and
\* FairSpec speaks of the clients that hear.)
Fairness ==
  /\ \A c \in Conns : WF_vars(ClientStep(HandleIO(c)))
  /\ WF_vars(LoginStep(HandleLoginPacket))
  /\ WF_vars(GameStep(HandleGamePacket))
  /\ WF_vars(RelayStep(HandleRelayPacket))
  /\ WF_vars(RelayStep(ReceiveFromLogin)) /\ WF_vars(RelayStep(ReceiveFromGame))
  /\ WF_vars(RelayStep(NoticeGameServerEnd))
  /\ \A c \in Conns : WF_vars(RelayStep(Accept(c))) /\ WF_vars(RelayStep(RelayWorker(c)))

Spec == Init /\ [][Next]_vars
FairSpec == Spec /\ Fairness

\* Every variable of every program has its type.
TypeOK ==
  LinksTypeOK /\ ClientTypeOK /\ LoginTypeOK /\ RelayTypeOK /\ GameTypeOK

(***************************************************************************)
(* Who is where.                                                           *)
(***************************************************************************)
Gone(c) == conn[c] \in {"reset", "eof", "stale", "closed"}
LoggedIn(c) == me[c] # Nobody
Seats(r) == {rooms[r].players[i].id : i \in DOMAIN rooms[r].players}
HolderOfTurn(r) == rooms[r].players[rooms[r].turn + 1].id

\* The packets of the relay's queue.
RelayPackets == [i \in DOMAIN relayQ |-> relayQ[i].pb]

\* The turn of room r travels as a PLAYER_TURN, is played by the client it
\* reaches, and travels on as a PlAYER_TURN_OVER.
Carries(p, r) ==
  \/ p.type = "PLAYER_TURN" /\ p.to \in Seats(r)
  \/ p.type = "PlAYER_TURN_OVER" /\ p.room = r
Carrier(p) == IF p.type = "PLAYER_TURN" THEN p.to ELSE p.id

\* The packets under way, each with its place: the queue, the client whose
\* link that is, and the number there.
Places(name, c, q) == {[at |-> name, of |-> c, no |-> i, packet |-> q[i]] : i \in DOMAIN q}
UnderWay ==
  Places("gameQ", Nobody, gameQ) \cup Places("g2r", Nobody, g2r) \cup Places("relayQ", Nobody, RelayPackets)
    \cup UNION {Places("c2r", c, c2r[c]) \cup Places("r2c", c, r2c[c]) : c \in Conns}
Turns(r) == {x \in UnderWay : Carries(x.packet, r)}
Acting(r) == {c \in Conns : Alive(c) /\ io[c] = "turn" /\ room[c] = r}

(***************************************************************************)
(* Routing and logins.                                                     *)
(***************************************************************************)

\* A connection the relay finds under an id calls itself by that id, so that a
\* reply never goes to the connection of another (IOCPServer::clients against
\* ClientInfo::id, which the worker and the handler change one at a time).
MapConsistent == \A i \in Ids : clients[i] # Nobody => cid[clients[i]] = i

\* What waits to be received by a client is addressed to the id its connection
\* has: nobody is shown another player's cards, turn or login result.
Addressed == \A c \in Conns : \A p \in ToSet(r2c[c]) : p.to = cid[c]

\* The relay can reach every player who is logged in, under the very account
\* the player's program believes in; while the handler of ACCEPT_LOG_IN works,
\* the program does not know yet.
PlayersFindable ==
  \A c \in Conns : conn[c] = "up" /\ LoggedIn(c) => clients[me[c].id] = c

\* A connection with an account has an entry under it, though perhaps that of
\* another window of the account, unless the handler is just changing its id, or
\* another connection with this account is gone: the worker then erases the
\* account, and may do so again after it was logged in to once more.
LostOnlyWithItsAccount ==
  \A c \in Conns : conn[c] = "up" /\ cid[c] \in Users =>
    \/ clients[cid[c]] # Nobody
    \/ rekey # Nobody /\ rekey.c = c
    \/ \E d \in Conns \ {c} : Gone(d) /\ cid[d] = cid[c]

\* A person whose program shows a page has no request under way and no answer:
\* two requests of one client never race through the servers.
FromOrTo(p, c) ==
  IF p.type \in LoginRequests THEN FALSE
  ELSE IF p.type \in GameRequests THEN p.id = cid[c] ELSE p.to = cid[c]
NothingUnderWay(c) ==
  /\ c2r[c] = <<>>
  /\ \A e \in ToSet(relayQ) : e.from # c /\ (e.from = Nobody => ~FromOrTo(e.pb, c))
  /\ \A p \in ToSet(loginQ) : p.key # cid[c]
  /\ \A p \in ToSet(l2r) \cup ToSet(gameQ) \cup ToSet(g2r) \cup ToSet(r2c[c]) : ~FromOrTo(p, c)
  /\ rekey # Nobody => rekey.c # c
OneRequestEach ==
  \A c \in Conns :
    Alive(c) /\ (main[c] = "login" \/ io[c] \in {"login", "lobby", "turn"}) => NothingUnderWay(c)

\* Nobody is logged in to an account that has no row, and a row never changes:
\* a second registration of an account does not take it over.
LoginsHaveRows == \A c \in Conns : cid[c] \in Users => db[cid[c]] # Nobody
RowsAreKept == [][\A u \in Users : db[u] # Nobody => db'[u] = db[u]]_vars

(***************************************************************************)
(* Rooms, turns and cards.                                                 *)
(***************************************************************************)

\* The turn of a room is in one place at a time, and that place belongs to the
\* player whose seat Room::turn is.  It is nowhere before the room is full, and
\* it is not lost while every program runs.
TurnToken ==
  \A r \in RoomNames :
    /\ \A x, y \in Turns(r) : x = y
    /\ \A c, d \in Acting(r) : c = d
    /\ Turns(r) = {} \/ Acting(r) = {}
    /\ Turns(r) # {} \/ Acting(r) # {} => IsFull(rooms[r])
    /\ \A x \in Turns(r) : Carrier(x.packet) = HolderOfTurn(r)
    /\ \A c \in Acting(r) : me[c].id = HolderOfTurn(r)
    /\ IsFull(rooms[r]) /\ relayUp /\ gameUp /\ (\A c \in Conns : ~Gone(c)) =>
         Turns(r) # {} \/ Acting(r) # {}

\* Room::turn moves on only when the player who has it is done, by one seat;
\* changeTurn itself asks neither.  Players keep their seats and dealt cards.
TurnsInOrder ==
  [][\A r \in RoomNames :
       /\ Seats(r) \subseteq Seats(r)'
       /\ IsFull(rooms[r]) =>
            \A i \in 1 .. MaxPlayers : rooms'[r].players[i].hand = rooms[r].players[i].hand
       /\ rooms'[r].turn # rooms[r].turn =>
            /\ gameQ # <<>> /\ Head(gameQ).id = HolderOfTurn(r)
            /\ rooms'[r].turn = (rooms[r].turn + 1) % MaxPlayers]_vars

\* A player sits at most once, in one room; who was told "host completed" or
\* "enter completed" sits in the room that was asked for; and who is shown a
\* turn plays in that room.
SeatedAsTold ==
  /\ \A r, s \in RoomNames : \A i \in DOMAIN rooms[r].players, j \in DOMAIN rooms[s].players :
       rooms[r].players[i].id = rooms[s].players[j].id => r = s /\ i = j
  /\ \A c \in Conns :
       /\ notice[c] = "hosted" => rooms[room[c]].host = me[c].id
       /\ notice[c] # "none" => me[c].id \in Seats(room[c])
       /\ io[c] = "turn" => me[c].id \in Seats(room[c])

\* Whoever is about to see the table knows who is there and holds cards for
\* all that drawMyCard draws, so it never reads past the end of the hand.
DrawInBounds ==
  \A c \in Conns :
    io[c] = "turn" \/ (Alive(c) /\ r2c[c] # <<>> /\ Head(r2c[c]).type = "PLAYER_TURN") =>
      /\ LoggedIn(c) /\ me[c].num <= Size(me[c].hand)
      /\ Len(others[c]) = MaxPlayers - 1

\* The hands of a table come from one deck: for no type of card do the players
\* together hold more than the deck has.
HeldBy(u, t) == LET cs == {c \in Conns : LoggedIn(c) /\ me[c].id = u}
                IN MapThenSumSet(LAMBDA c : me[c].hand[t], cs)
OneDeck ==
  \A r \in RoomNames, t \in CardTypes :
    MapThenSumSet(LAMBDA u : HeldBy(u, t), Seats(r))
      <= Cardinality({i \in DOMAIN Deck : Deck[i] = t})

(***************************************************************************)
(* Programs that end.                                                      *)
(***************************************************************************)

\* A PlAYER_TURN_OVER never reaches the game server before the room it names
\* is there and full, which is all that keeps changeTurn inside its vector.
GameServerSurvives == gameUp

\* It ends only where two programs used one account: then a turn may go to the
\* one that never asked for a room, and comes back without a room name.
SharedAccount == \E c, d \in Conns : c # d /\ cid[c] \in Users /\ cid[c] = cid[d]
GameServerNeedsOwnAccounts == gameUp \/ SharedAccount

\* The relay ends only after some client or the game server did.
RelaySurvives == relayUp \/ ~gameUp \/ \E c \in Conns : Gone(c)

\* Unless its window is closed a client ends in two ways only: by the lobby it
\* is shown without having logged in, or by an empty choice from an empty hand.
KnownCrashes ==
  \A c \in Conns \ Quitters : Gone(c) =>
    \/ ~LoggedIn(c) /\ io[c] = "lobby"
    \/ LoggedIn(c) /\ io[c] = "turn" /\ me[c].hand = NoCards

(***************************************************************************)
(* Progress, while the relay and the client live.                          *)
(***************************************************************************)
Abandoned(c) == Gone(c) \/ ~relayUp

\* Who asked to log in or to register is shown the next page.
LoginAnswered ==
  \A c \in Conns :
    (\E p \in ToSet(c2r[c]) : p.type \in LoginRequests)
      ~> (io[c] \in {"login", "lobby"} \/ Abandoned(c))

\* Who asked for a room is told of a seat or shown the lobby again.
RoomAnswered ==
  \A c \in Conns :
    (\E p \in ToSet(c2r[c]) : p.type \in RoomRequests)
      ~> (notice[c] # "none" \/ io[c] = "lobby" \/ Abandoned(c))

(***************************************************************************)
(* What the code says of itself, and does not do.                          *)
(***************************************************************************)

\* "[id] has N cards on hand" (GameManager.cpp, drawOtherPlayersStatus): the
\* player whose turn begins is shown how many cards the others hold, once they
\* have their cards.
DealsTo(d) == {x \in UnderWay : x.packet.type = "DEAL_CARDS" /\ x.packet.to = me[d].id}
CountsShown ==
  \A c, d \in Conns : io[c] = "turn" /\ LoggedIn(d) /\ DealsTo(d) = {} =>
    \A other \in ToSet(others[c]) : other.id = me[d].id => other.num = Size(me[d].hand)

(***************************************************************************)
(* The game as TurnGame has it.                                            *)
(***************************************************************************)
PhaseOf(r) ==
  IF ~IsFull(rooms[r]) THEN "filling"
  ELSE IF gameUp /\ \E x \in Turns(r) : x.at = "gameQ" THEN "played"
  ELSE IF ~relayUp THEN "lost"
  ELSE IF \E x \in Turns(r) : x.packet.type = "PLAYER_TURN" THEN "offered"
  ELSE IF Acting(r) # {} THEN "playing"
  ELSE IF Turns(r) # {} THEN "played"
  ELSE "lost"

Game == INSTANCE TurnGame WITH
  seats <- [r \in RoomNames |-> [i \in DOMAIN rooms[r].players |-> rooms[r].players[i].id]],
  turn <- [r \in RoomNames |-> rooms[r].turn],
  phase <- [r \in RoomNames |-> PhaseOf(r)]

\* The four programs implement the game: every step of theirs is a step of
\* TurnGame or none, and a turn under way arrives or is lost.
ImplementsTurnGame == Game!Spec
=============================================================================
