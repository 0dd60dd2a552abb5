# A TLA+ model of Liar's Bar

Liar's Bar is a card game for Windows consoles: one client program per player,
and three servers. This directory models the four programs, model-checks them
on small instances with TLC, and proves some of the results for instances of
any size with TLAPS.

## 1. The system

```
 client c  --c2r[c]-->           --loginQ-->  login server -- users table
   ...                   relay   <--l2r-----
 client c' <--r2c[c']--          --gameQ--->  game server  -- rooms
                                 <--g2r-----
```

All programs speak in frames of 4096 bytes (`PacketBuffer`): a size, a packet
type (`PacketType.h`), and fields. A client knows only the relay. The relay
forwards a request to one of the servers by its type, and a server's packet to
the client named by the packet's first string.

| Part | State | Operations |
|---|---|---|
| Client (`Liar's Bar/`) | `GameManager::me`, `otherPlayers`, `LobbyManager::nameOfRoom`, the page shown | login, register, host, join, one turn; one handler per packet |
| Relay (`RelayServer/`) | `IOCPServer::clients` (id to `ClientInfo`), `ClientInfo::id`, the `PacketQueue` | accept, receive, drop a client, forward, re-key a connection on `ACCEPT_LOG_IN` |
| Login server (`LoginServer/`) | the `users` table of MySQL | `logIn`, `registerUser` |
| Game server (`GameServer/`) | `RoomManager::rooms`: host, players with their cards, turn | `hostRoom`, `enterRoom` with `playGame`, `changeTurn` |
| `PacketQueue` (three copies) | a `std::queue` and a mutex | `push`, `pop`, and `isEmpty`, which does not lock |
| `IOCPServer` of the login and game servers (one code), `ServerConnector` of the relay | `relayServSock`, the receives posted, `sendBuffer` | accept, receive, send, close on an error |
| `PacketBuffer` (four copies) | 4096 bytes, a read and a write offset | `writeX`, `readX`, `writeBuffer`, `setWriteOffset`; `out_of_range` when it does not fit |
| Turn timer (`GameManager::countTime`) | `threadData` on the stack of `myTurn`, `uiMutex` | count down, print |

Threads:

* **client**: a main thread (login page, then an endless loop) and one IO thread,
  which receives one packet at a time and *runs the pages and the turns itself*;
  during a turn also a detached timer thread.
* **relay**: the accepting main thread, one IOCP worker for all clients, one IO
  thread per server connector, one handler thread.
* **login server, game server**: the accepting main thread, one IOCP worker, one
  handler thread.

### What is hard here

* The relay's map is locked in `addClientInfo` and `removeClientInfo` but not in
  `getClientInfo` and not where the worker erases; the handler's re-keying is
  several map operations; replies come back for clients that are gone.
* The worker decides what a finished operation means by `WSAGetLastError()`,
  which a read of no bytes does not set.
* The game server checks neither sender nor room of a `PlAYER_TURN_OVER`. What
  keeps `changeTurn` inside its vector is the order of packets through three
  programs and five queues.
* `enterRoom` starts the game, with all its packets, before its own reply is sent.
* `relayServSock` is shared by three threads of a server without a lock, and an
  error of one connection closes whichever connection it names by then.
* `sendMessage` returns before the operation is done, and the next one uses the
  same buffer; a receive is taken for a frame whatever it returned.
* The timer of a turn is detached and writes to the stack of a function that may
  have returned.
* The client's counters and vectors (`numOfCardsOnHand`, `cardsOnHand`) are
  changed separately and read together.

`PROJECT.json` lists these hazards at their lines, with the properties that look
at each.

## 2. The modules

| Module | Models |
|---|---|
| `Network` | packets and their fields, links and server queues, the state of each TCP connection |
| `Client` | a client: pages, packet handlers, the turn, the hand and its counters, crashes |
| `RelayServer` | the relay: accepting, receiving, dropping, keys, the map, routing, re-keying |
| `LoginServer` | the login server and its table |
| `GameServer` | rooms, players, dealer, turn |
| `LiarsBar` | the four together, fairness, all properties of the system |
| `TurnGame` | the abstract specification: what the system promises of a game |
| `MCLiarsBar` | the small instances for TLC |
| `ServerLink` | the connection between relay and server through the end of one relay and the start of the next |
| `SharedSend` | one direction of a connection: `sendBuffer`, pending sends, short receives |
| `PacketCodec` | the bytes of every packet through client, relay, server and back |
| `TurnTimer` | `myTurn` and the timer threads of its turns |
| `PacketQueue` | one `PacketQueue` with its threads, step by step |
| `PacketQueueProofs` | theorems about `PacketQueue` |
| `LiarsBarProofs` | lemmas about queues, packets, hands and seats, and theorems about `LiarsBar`: whatever its users do, and, in its second part, where no two clients are accepted in one millisecond |
| `GameProofs` | theorems about its rooms and turns, where besides nobody uses the account of another |
| `TurnProofs` | where the turn is, that `LiarsBar` refines `TurnGame`, what a player knows at its turn, and whose cards it holds, under the same conditions |
| `SharedSendProofs` | theorems about `SharedSend` |
| `ServerLinkProofs` | theorems about `ServerLink` |
| `PacketCodecProofs` | what a buffer holds after any writes, what a reader finds in it, and theorems about `PacketCodec` |
| `TurnTimerProofs` | theorems about `TurnTimer` |

`LiarsBar` EXTENDS the four component modules; a component's action changes its
own variables and the links, and `LiarsBar` leaves the rest unchanged. Each step
of `Next` is a step of one thread. `LiarsBar` takes three things for granted, and
a module of its own opens each: that queues are FIFOs (`PacketQueue`), that links
are FIFOs of whole packets (`SharedSend`), and that a packet is a record
(`PacketCodec`). `ServerLink` adds what `LiarsBar` leaves out of a relay's life:
that it ends and another is started. `TurnTimer` opens the one step
`FinishTurn`.

### How the model stands to the code

* **Frames.** A link carries whole packets in order. `loginQ` and `gameQ` are the
  link from the relay *followed by* the server's `PacketQueue`: one thread moves
  packets from one to the other, so the two are one FIFO. The relay's own queue,
  `relayQ`, has three producers and is a variable of its own. That a
  `PacketQueue` is a FIFO whose `pop` never fails, in spite of the unlocked
  `isEmpty`, is checked in `PacketQueue` and proved in `PacketQueueProofs`.
* **Ids.** The string under which the relay knows a connection is a key
  `UID-<milliseconds>` (here a number) until a login, an account name after it.
  `MinGap = 1` says that no two clients are accepted in one millisecond,
  `MinGap = 0` that they may be.
* **Handlers** of the login and the game server are one action each: one thread
  runs them, and nobody else has their state. The relay's `ACCEPT_LOG_IN` is two
  (`BeginRekey`, `FinishRekey`): the IOCP worker may run between them.
* **Disconnection.** A client's end is an RST or a FIN. The relay's worker sees a
  failed read (`NoticeReset`), a read of no bytes (`NoticeEof`, where `lastError`
  chooses the branch as `WSAGetLastError()` does) or, later, a failed write
  (`NoticeFailedWrite`). A read that is aborted because the worker closes the socket
  may complete with another error, which ends the relay.
* **The end of the game server** ends the relay (`NoticeGameServerEnd`): the completion
  key of `ServerConnector` is the socket, and a failed operation dereferences it.
  In `LiarsBar` the game server ends by a `PlAYER_TURN_OVER` it cannot handle; the login
  server does not end there.
* **Hands** are bags (how many of each type): handlers look for cards by type
  only, and `cardsOnHand[0]` is any card of the hand.
* **A server and its relays** (`ServerLink`). The main thread, the worker and the
  handler of the server are actions of their own, down to the gap between storing
  `relayServSock` and posting its receive. For a request the handler sends one packet or
  several (`Handle`, `SendMessage`), which may be pending when `sendMessage` returns
  and succeed or fail later; or it ends the process (`HandlerEnds`: a null room, a buffer
  that throws). The main thread ends it when `accept` meets a connection reset in the backlog
  (`AcceptFails`). `lastError` is the worker's: a call that fails leaves its error
  behind, one that succeeds anything. `overlapped` remembers which
  connections were accepted while an operation on an older one was still to be
  dequeued, `inherited` those accepted then or while an older request was not yet
  answered. A relay that ended for a reason of its own is "gone" like one that was closed by
  its user. Frames carry the relay that asked, and whether they are the last of an answer. The
  login server and the game server have the same code, and one model.
* **Sends** (`SharedSend`). A frame is two halves, which is how coarsely `memcpy`,
  `memset`, the kernel and a short receive can cut it and still show that they do.
  The kernel takes a copy at once while `SO_SNDBUF` has room, and reads the
  buffer itself later otherwise. `clears` chooses between `ClientInfo`, which
  zeroes its buffer first, and the other senders.
* **Bytes** (`PacketCodec`). A buffer is the set of cells written to it, each with
  its offset, size and value; a read finds a cell, zeros, or garbage. Strings are
  lengths, so two strings of one length differ only by their field.
* **Turns in time** (`TurnTimer`). Time is in half seconds, so that the cast to
  `int` cuts something off. `Reuse` lets the IO thread overwrite the stack place
  of `threadData` between turns; the next `myTurn` gets the same place.
* **Crashes.** A null dereference ends the program. Reading a vector past its end
  ends it or goes unnoticed, and both are tried. `relayUp` and `gameUp` say
  whether the servers run.
* **Faulty variants.** A definition named `X_y`, just before `X`, is `X` with a
  plausible fault. Nothing uses it; put in the place of `X`, it makes a property
  fail, which shows that the property looks at that code.

### Bounds

`MaxMillis` bounds the clients accepted, `Floor` stops counters that only matter
when compared with something greater, `MaxPushes` bounds the packets in
`PacketQueue`; windows are closed only after the relay accepted (`Quit`). The
hand has 2 cards (5 in the code) and the discard limit is 1 (3 in the code),
which keeps limit + 1 <= hand, and so all cases of `discardCards`. Hands shrink to
empty and counters below zero. `Conns` of 2 fill a room of
`MAX_PLAYERS_IN_ROOM` = 2; run `Three` plays at a table of 3, where the next seat
differs from the previous one. No run uses symmetry.

`ServerLink` has two relays, one after the other (the server cannot tell a third from the
second), which send two requests in all, so that one of each, or two of one, are
under way; up to two packets for a request (up to six in the code, two of which show what
lies between them), and one pending send on a connection. `SharedSend` sends five packets, as `playGame`
does to a table of two, through a kernel that takes two, so that sends complete
at once, wait, and wait behind one another. `PacketCodec` has the sizes of the
code, and string lengths on both sides of the limits, 1342 and 1343 among them.
`TurnTimer` has two turns of one second (60 in the code): a timer that outlives
its turn meets the next one, and what happens between two turns happens between
any two. It has both counts `remainingTime` can show, 1 and 0.

### Fairness

Every thread keeps running while it can (`WF`): the pollers and IO threads never
wait for one another. People are not fair: nobody has to log in, host, choose, or
stay. In `PacketQueue` producers are fair once inside `push`, and bounded,
because nothing makes the mutex fair. In `ServerLink` the threads of the server
and of the relay are fair, and nobody has to start, use or end a relay. In
`SharedSend` the handler finishes a send it began, the kernel transmits and the
worker receives. In `TurnTimer` both threads and the clock go on; the player
need not choose. `uiMutex` needs no strong fairness: a timer prints once a second
at most, and few times before its limit.

## 3. The runs

| Run | Instance | Question |
|---|---|---|
| `Game` | 2 clients, 3 accounts (one without a row), 2 colours, fair threads | do client, relay and game server agree during a whole game; which crashes are there; is every request answered; do the programs implement `TurnGame` |
| `Three` | 3 clients at a table of 3 | where is the turn, and does it go round |
| `Quit` | as `Game`, one colour, windows close at any time | does the relay keep finding those who stay |
| `Accounts` | 2 clients, shared accounts, 2 passwords, SQL failures, closing windows, equal keys | accounts, ids, the map, and whose entry is erased, and erased again |
| `SecondWindow` | 3 clients, two of them one person's | what one account in two windows can break |
| `PacketQueue` | 3 producers, 1 handler | the queue and its unlocked `isEmpty` |
| `ServerLink` | 2 relays, one after the other, 2 requests, up to 2 packets for each | who is heard, closed, answered, and ended by what, when a relay is started again |
| `SharedSend` | 5 packets, a kernel of 2 frames | what overlapped sends and short receives make of a burst |
| `PacketCodec` | the sizes of the code, 17 lengths | do fields survive their way, and which packets end a program |
| `TurnTimer` | 2 turns of a second | what timers do to turns, their own and the next |
| `CountsShown`, `TimeLimit` | as `Game`, as `TurnTimer` | each refutes something the program shows or defines |

Deadlock is not checked: players may stop playing, and a program that ended
takes no step.

### What they show

* With one account per person, and no two clients accepted in one millisecond,
  the order of packets carries the game: the turn is in one place (`TurnToken`),
  goes round in order (`TurnsInOrder`), and the game server never meets a
  `PlAYER_TURN_OVER` it cannot handle (`GameServerSurvives`), though it checks
  nothing. The four programs implement `TurnGame`.
* With **one account in two windows** this fails: the turn may reach the window
  that never asked for a room, whose answer names the empty room, and the game
  server dereferences null. `GameServerNeedsOwnAccounts` shows that it ends in no
  other way. The relay then ends too.
* When **clients close**, the relay still finds everybody else
  (`PlayersFindable`), but may end itself: by a reply to a client it has dropped,
  or by a FIN while the last error of its worker is an unrelated one.
  `RelaySurvives` shows that it ends only after some client or the game server did.
* A **failed write that comes late** erases the account of the client that was dropped once
  more, and with it the entry of a window that has logged in to that account since: its
  player is then unknown to the relay though connected. `LostOnlyWithItsAccount` shows that
  no other player's entry is lost, in the run also with equal keys.
* `MapConsistent` holds with shared accounts, closing windows and equal keys: an
  entry of the map always calls itself by its key. With equal keys the other
  routing properties fail, since the second client replaces the first.
* Whatever its users do, a client ends by itself in two ways only
  (`KnownCrashes`): in the lobby it is shown after registering, where nobody is
  logged in, or by an empty choice from an empty hand.
* **When the relay is started again** it is heard (`RelayHeard`), although the
  worker posts receives on whatever `relayServSock` is, unless the server closed its
  socket by mistake. That takes an operation of the old connection that was
  still to be dequeued when the new one was accepted (`ClosedOnlyIfOverlapped`).
  `EndsHaveACause` says by what the programs end: until the first relay is ended, by its user or
  for a reason of its own, nothing but the handler of its requests ends the server; and as long as the
  server lives, a relay is ended by it only if the server accepted it with operations or
  requests of an older one left, whose packets name clients that it does not know. A relay whose
  first receive was posted before its connection was there is deaf for good, and
  is left out of `RequestAnswered`.
* **Overlapped sends** lose packets only to later ones (`NeverOlder`), never the last
  (`LastGoesOut`), and everything handed over is replaced rather than missing
  (`EverythingArrives`); with nothing pending and no receive short the link is a FIFO
  of whole packets (`PacketsArriveWhole`). After one short receive nothing is a
  packet any more, until a second one is short (`SpoiltAfterShort`).
* **In bytes**, every reader finds the fields that were written (`FieldsSurvive`),
  though the relay appends an id, counts one of its sizes without the header, and
  the first `PLAYER_TURN` of a game ends before two of the fields that are read. With 4096
  bytes and a hand of 5, strings of up to 1342 bytes end no program
  (`ShortStringsAreSafe`); longer ones end the client, or the relay if they only
  fitted without the id, or the game server, whose `readCards` counts the cards twice.
* **A timer that outlives its turn** writes once at most into what is there now,
  unless its `turnOver` was overwritten (`OneStrayWrite`), and may then take away
  the next turn's choice (`SkippedOnlyByTimers` says that nothing else does). It
  ends at its limit whatever it reads (`TimersEnd`) and never blocks the turn
  (`TurnGoesOn`).

### Findings

1. `GameManager.cpp:66` announces what was chosen, not what was discarded, so the
   counts shown drift from the hands (`CountsShown`, which asks only when the hand
   has been dealt). In the run's behaviour a player of two cards chooses nothing: one card is
   discarded by default and none announced, and the next player is shown two. The other slip that
   feeds it is `Player.cpp:52`, which collects one card more than the limit, whereupon
   `discardCards` discards none of them.
2. `GameManager.cpp:56` passes `remainingTime` by value, so a turn does not end at
   `TIME_LIMIT_PER_TURN` (`TimeLimit`).

Also met while modelling, and part of the modules: `Player.cpp:112` and `:128`
count the default discard twice; `IOCPServer.cpp:188` (relay) gives clients of one
millisecond one id; `PacketManager.cpp:53` (client) shows the lobby without
`setMe`.

## 4. The theorems

| Theorem | Says of every instance |
|---|---|
| `PacketQueueProofs!PopNeverFails` | `PopFindsPacket`: the handler's `pop` never meets an empty queue |
| `PacketQueueProofs!QueueIsFifo` | `HandledInOrder`: packets are handled once, in the order of the pushes |
| `PacketQueueProofs!QueueTyped` | `TypeOK` of the queue |
| `LiarsBarProofs!Typed` | `TypeOK` of the four programs |
| `LiarsBarProofs!MapAgrees` | `MapConsistent`: the relay's map never has a connection under another's id |
| `LiarsBarProofs!LoginsNeedRows` | `LoginsHaveRows`: nobody is logged in to an account without a row |
| `LiarsBarProofs!RowsStay` | `RowsAreKept`: no step changes the password of an account (no run checks it) |
| `LiarsBarProofs!DeliveredToAddressee` | `Addressed`: what reaches a client is addressed to it |
| `LiarsBarProofs!RelayEndsAfterOthers` | `RelaySurvives`: the relay ends only after some client or the game server did |
| `LiarsBarProofs!EntriesLostTogether` | `LostOnlyWithItsAccount`: the entry of an account is lost only when another window of the account is gone |
| `LiarsBarProofs!PlayersFound` | `PlayersFindable`: with own accounts the relay finds every player who is logged in |
| `GameProofs!EndsBySharedAccount` | `GameServerNeedsOwnAccounts`: the game server ends only where two programs use one account |
| `GameProofs!GameServerLives` | `GameServerSurvives`: with own accounts it never ends |
| `GameProofs!RelayOutlivesClients` | with own accounts the relay ends only after some client did |
| `GameProofs!PlayersSeated` | `SeatedAsTold`: one seat each, in the room asked for and told of |
| `GameProofs!TurnsPassInOrder` | `TurnsInOrder`: the turn moves on by one seat, from the player who has it |
| `GameProofs!RequestsAreSingle` | `OneRequestEach`: a client whose page is shown has no request and no answer under way |
| `TurnProofs!TurnIsInOnePlace` | `TurnToken`: the turn of a full table is in one place, of the player whose turn it is, and no step loses it while every program runs |
| `TurnProofs!PlaysTurnGame` | `Game!SafeSpec`, the safety part of `ImplementsTurnGame`: every step is one of `TurnGame`, or none |
| `TurnProofs!CardsInBounds` | `DrawInBounds`: who is about to see the table holds the cards that are drawn and knows all the others |
| `TurnProofs!CrashesAreKnown` | `KnownCrashes`: a client that is not closed ends in two ways only |
| `TurnProofs!HandsOfOneDeck` | `OneDeck`: the players of a table never hold more cards of a type than the deck has |
| `SharedSendProofs!LinksAreFifo` | `PacketsArriveWhole`: with nothing pending and no short receive, a FIFO of whole packets |
| `SharedSendProofs!LaterBytesOnly` | `NeverOlder`: a reused buffer puts out later packets, never earlier ones |
| `SharedSendProofs!LastPacketGoesOut` | `LastGoesOut`: a packet none followed goes out unharmed |
| `SharedSendProofs!ShortSpoils` | `SpoiltAfterShort`: after one short receive frames begin in the midst of packets |
| `SharedSendProofs!Typed` | `TypeOK` of the two ends and the kernel |
| `ServerLinkProofs!CurrentRelayHeard` | `RelayHeard`: the relay that runs is listened to while its socket is open |
| `ServerLinkProofs!ClosedByOldOperations` | `ClosedOnlyIfOverlapped`: a running relay is closed only by an operation on an older connection |
| `ServerLinkProofs!EndsAreCaused` | `EndsHaveACause`: what ends a server or a relay, for any number of relays, requests and packets |
| `PacketCodecProofs!FieldsAlwaysSurvive` | `FieldsSurvive`: a reader finds the fields that were written, strings of any length |
| `PacketCodecProofs!ShortStringsAreAlwaysSafe` | `ShortStringsAreSafe`: strings of at most `SafeLength` bytes end no program, for any size of buffer and hand |
| `TurnTimerProofs!StrayWriteOnce` | `OneStrayWrite`: after its turn a timer writes once at most, unless what it reads was overwritten |
| `TurnTimerProofs!ChoiceIsTaken` | `SkippedOnlyByTimers`: only a timer takes the choice from the player |
| `TurnTimerProofs!Typed` | `TypeOK` of the turns, their timers and the clock |

They are safety theorems of `Spec`, and need no fairness.

**Assumptions.** Each module names those on its constants, and TLC evaluates
them in every run. `PacketQueue` assumes one handler thread (`OneHandler`), which
the relay and both servers start; any number of producers may push.
`LiarsBar` assumes that the deck has enough cards for a full table
(`GameAssumption`), that `UID-` keys are no account names (`NetworkAssumption`)
and that a discard leaves a card of a full hand (`ClientAssumption`). `Nobody`
stands for no connection, no name and no record: the names of accounts and rooms
are read with `cin >>`, which reads no empty word (`LobbyManager.cpp:71` and
`:105`). `PacketCodec` assumes that the sizes are numbers and a key is not empty.
The theorems of the first part of `LiarsBarProofs` assume nothing of the accounts people use,
of who closes a window, of queries that fail or of the gap between two clients:
they hold with shared accounts and with equal keys, where other properties of the
runs do not. Those of its second part, of `GameProofs` and of `TurnProofs` name what they need:

* `OwnMillis`: no two clients are accepted in one millisecond. Without it those
  about logins fail, as the hazards in `PROJECT.json` say; nothing in the code
  enforces it, it is only likely.
* `OwnAccountEach`: two people have no account in common. Of those about logins only
  `PlayersFound` needs it: the second of two windows takes the entry of the first.
  In `GameProofs` all but `EndsBySharedAccount` do (the relay of `RelayOutlivesClients` ends
  with a game server that ended by a shared account), and so do those of `TurnProofs`: a turn
  meant for one window is shown in the other.
* `MaxPlayers > 1` (2 in the code, `MAX_PLAYERS_IN_ROOM`), for `RequestsAreSingle`, `CardsInBounds` and
  `CrashesAreKnown`: a player alone at a table would be shown its turn before its notices,
  and would be its own previous player.

**The queue.** What makes the unlocked `isEmpty` harmless is
`SeenPacketStays`: between the look and the `pop` only the one handler can take
a packet away. The invariant adds to it mutual exclusion and that a producer
inside `push` knows the true end of the queue (`EndIsStill`).

**The four programs.** `TypeOK` and `MapConsistent` are not inductive. `IInv`
adds what the code never checks and relies on:

* `ConnectionsOK`: a connection has an id exactly from `acceptConnection` on, and
  until then its client has no page but the first and has received nothing.
  Without it a new key could be given to a connection that the map has already.
* `SendersKnown`: whatever the handler or the worker will still ask for its id
  has one: the senders in the relay's queue, and the connections whose failed
  write is still to be dequeued.
* `RekeyOK`: between `setId` and `addClientInfo` nobody gives the connection
  another id, so the entry added last agrees with it.
* `TurnsLoggedIn`: a turn is shown only where `getMe()` is a player.
* `HostsKnown`: a room with players has a host, to whom `playGame` gives the turn.
* `AcceptsHaveRows`: an `ACCEPT_LOG_IN` on its way, in the link or in the relay's
  queue, names an account with a row; rows are never removed.

TLC checked `IInv` on instances of `Accounts` and `Quit` before it was proved.
The proof has a lemma for each action, and under it a step for each part of `IInv`
the action can disturb; `Frame` deals with the rest. What is true of the data alone
comes first: how queues keep their elements, that `discardCards` leaves a
hand with its counter in range (`DiscardType`), that what is dealt is a hand
(`HandOfType`).

**One login at a time.** That a reply finds its addressee under the key it was
sent to is nowhere checked. It holds because a client has one login under way and
the relay changes its id only when that login comes back. `DInv` says it for any number
of clients:

* `OneLoginEach`: each client's login is in one of ten places (`LoginAt`): at its
  page, at one position of one of the queues to the login server and back, or in the
  relay's handler between `setId` and `addClientInfo`. Outside them there is neither
  page nor packet, and a connection that has an account has no login left to come.
* `KeysOK` and `AnswersKeyed`: a temporary key belongs to one connection, which still
  has it while a request or an answer bears it.
* `ReachesOwn`: what waits for a client is addressed to it. An answer that leaves
  it without an account still bears a key, so no answer to a login is left when the
  id changes, and no packet of a game before it does.
* `RequestsSigned`, `PlayersKnown`: every id in rooms and game packets is the account of
  a connection, so the game server's packets find an entry too.
* `NoneLost`: as long as no client is gone the map has an entry for every id but the
  one being changed, under whomever; the worker erases nothing, and `operator[]`
  makes no null entry; so the relay runs while the game server does. This needs no own accounts.
* `EntriesKept`, on top of `DInv`, looks at one connection: its entry stays while no other
  connection with its id is gone. What the worker erases is the id of the connection it drops
  (`EntryLeft`), whoever has the entry by then; `FinishRekey` puts back what `BeginRekey`
  took; and who is gone stays gone (`OnceGone`).
* `AccountsFindable` with `OwnLogins`: what one connection alone is logged in to leads
  to that connection.

TLC checked `DInv` on instances of `Game`, `Quit` and `SecondWindow` first. The proof
takes a step of a client apart from the rest (`LocalStep`), states what the game
server's three handlers send and seat (`GameEffects`), and follows the first packet
of each queue to its next place (`RelayPopped`, `RelayPushed`, `AnswerSent`).

**One token each.** The game server's `changeTurn` checks neither that the room is
there nor that it is full nor who asks. It need not, because a player has one thing to
say at a time. `RoomsInv` follows that one thing, the player's token: the right to
ask for a room until one is given, then the turn.

* `At(c, at, i, p)`: packet `p`, from or for the player at client `c`, is number `i` of one
  of six places on the way to the game server or back.
* `OneToken`, `PageAlone`: of a request for a room, its rejection, a `PLAYER_TURN` and a
  `PlAYER_TURN_OVER` a player has one under way at most, and none while the
  lobby or a turn is shown.
* `PacketsOK`: what is under way is true of the player when it arrives as it was when it was sent
  (`Holds`): who asks for a room or is rejected has no seat, who is admitted sits in
  the room asked for, a turn is that of the seat `Room::turn` points to. So a
  `PlAYER_TURN_OVER` finds its room there and full, and comes from the player whose
  turn it is.
* `LastWord`: at a table of two or more nothing for a player is behind its token. Without
  it the lobby could be shown before an admission arrived.
* `ToldOK` says the same of what the client was told, and `SeatsOK` that an account has
  one seat and the host the first one.

`OneRequestEach` follows with two more: who is shown the lobby and has an account has
logged in (`LobbyKnown`), and `MaxPlayers > 1`, as in the code (2): whoever sat alone at a
full table would be shown its turn with the notices of its own room still to come.

`DInv /\ (SharedAccount \/ RoomsInv)` is inductive: two programs with one account stay
two (`NextShared`). A step of the relay moves the first packet of one place to the end
of the next and touches no other (`Moves`), which is all the proof needs to know of it
(`MovesKeep`); a step of a client takes packets and adds one (`LeftKeeps`,
`RequestKeeps`); and the game server answers the one who holds the token, or all when
the table is full (`AnswerKeeps`). TLC checked `RoomsInv` on instances of `Game`, `Quit`,
`SecondWindow` and `Three` first.

**The turn.** `TurnGame` has one variable for where the turn of a room is; the programs
have packets in six kinds of places (`At`), and a page. The refinement mapping reads the phase
off them (`PhaseOf`): of a full table the turn is *offered* while a `PLAYER_TURN` is under
way, *playing* while its page is shown, *played* while a `PlAYER_TURN_OVER` is, and *lost*
otherwise. What has reached `gameQ` no longer needs the relay; anything else is lost
with it. That the packets are never of two kinds or two players is `OneTurn`, from `RoomsInv`.
Then there is one step for each way the phase can change:

* Steps that carry no turn on leave everything that holds one where it was before, or
  take it away (`OnlyLosesTurns`): the phases of any number of rooms may become *lost*,
  which is why `Lose` of `TurnGame` takes a set of rooms.
* A client that is shown its turn or is done with it moves the turn of its own room
  (`TurnOffered`, `TurnPlayed`).
* The game server, when it seats the last player or passes the turn on, appends the one
  `PLAYER_TURN` of that room (`EnteredPhases`, `PassedPhases`); without a relay the turn is
  lost at once.

That no turn is lost while every program runs goes the other way: each packet of a
player whose first place the relay empties is found in the next one (`GoesOn`), since the
map has an entry for its addressee (`NoneLost`) and the connection still has the
account that it is for (`ReachesOwn`); and a client takes no `PLAYER_TURN` without
showing it. `NotLost` is inductive on top of `DInv` and `RoomsInv`, because whoever is gone stays
gone (`GoneStays`).

**The table.** At its turn a client looks up the previous player and draws cards, and checks
neither. `TableInv` says for each client what it may rely on:

* `Promised`: a player of a full table that is still there holds the cards its counter says, or the
  `DEAL_CARDS` is under way; and it knows the others, or the `ALLOW_PLAY_GAME` is. At the
  turn, or with the `PLAYER_TURN` first in its link, nothing else is under way (`LastWord`,
  from `RoomsInv`), so both have been handled (`ServedAtTurn`, `ServedAtOffer`).
* `AllNews`: a `DEAL_CARDS` under way has `HandSize` cards; an `ALLOW_PLAY_GAME` comes once, before any
  other is known, and names everybody else; the `previous` of a `PLAYER_TURN` is somebody
  else at the same table, as the turn moves to another seat when there are two (`TurnMoves`).

The cards of a hand never become fewer than the counter, though an empty choice takes one
card and counts two: that is the direction `drawMyCard` needs (`DiscardLeaves`). `KnownCrashes` then goes
through the places where `Client` has the program end: with `TableInv` the deal, the turn and the
drawing do not, and whoever is gone takes no step (`OwnEnd`).

**The deck.** No program ever sees all the hands of a table: the dealer sends each and
forgets it. `DeckInv` says where the cards are:

* `Dealt`: the hands of a full room are the slices `HandOf(p, k)` of one shuffle `p` of the deck.
* `HandOK`: what a client holds, or what the `DEAL_CARDS` under way to it brings, is `Fair`, no
  more of a type than was dealt to the seat of that player; who has no seat at a full
  table holds nothing (`OutsiderHasNoSeat`).

Slices of different seats do not meet (`SlicesApart`), so the cards of one type held at a table
map one to one to places of the deck that hold that type (`HandsFromDeck`). The sums of
`OneDeck` are folds, which are recursive functions over finite sets. That such a sum counts
the units of its set (`SumIsUnits`) needs no induction over an operator: of the subsets for
which it failed one would be the smallest, and taking an element away leaves a
smaller one.

**The send buffer.** The invariant says what `sendBuffer` holds at each place of
`sendMessage` (`BufferHolds`): the last packet, or while it is written also the
one before it, or zeros. The kernel reads only for operations that were started
(`Bounded`), so what it reads is never older than the operation. `LastIsWhole` and
`AtOnce` follow the packets that no later one can reach. On the receiver's side
`OneShortShifts` says where the next frame begins by the parity of the short
receives so far. `SharedSend` assumes only that `SO_SNDBUF` holds a frame.

**Relays one after the other.** The receives are posted on `relayServSock`, not on
the connection that completed, so the invariant follows that variable. A relay
starts when those before it have ended (`OneAtATime`), its connection is there while
it runs (`TcpOK`), and `relayServSock` is the last connection accepted, with none
before it left to accept (`Accepted`): a relay that runs and is accepted is
therefore the one that receives are posted on. `Operating` says that operations
belong to accepted connections, and `NothingOld` that a relay accepted when nothing older
was to be dequeued has the worker to itself, so that nothing closes its socket. `OwnWork`
says the same of the handler: a relay that inherited no request either is sent only
answers to its own, and so has nothing to crash by while the server lives (`Crashes`). The
first relay inherits nothing (`FirstInherits`), its operations succeed as long as it runs,
and so `MainAndWorker` follows: neither of these threads ends the server before it is over.
Any number of relays, requests, packets and pending sends is covered.

**The timer.** `OneStrayWrite` rests on where `threadData` lies: that of every
earlier turn has been used again when a new turn starts (`EarlierReused`), and
while that of the last turn is still there it says that the turn is over
(`OverSaid`), so that a timer that wrote late does not pass its loop again
(`StrayOnce`). For the choice, a turn that is not `late` has its `threadData` to
itself (`Alone`), its own timer writes zero only in the last second
(`LastSecond`), and nothing else writes what `chooseCardsToDiscard` is called with
(`NoTime`).

**The bytes.** `WriteAll` and `ReadAll` are folds over the fields of a packet. The library's
fold is a recursive function over sets of positions, so the first lemmas make loops of
them: there is a sequence of states, each a `Write` or `Read` after the one before
(`WriteAllSteps`, `ReadAllSteps`). What is true of every state is then shown by the least
number for which it is not (`UpTo`), which needs no induction over an operator.

`Holds(b, fs)` says that buffer `b` holds the fields `fs`: each lies where those before it
end, nothing overlaps, nothing lies behind. It is kept by every way to write:

* a field behind the others (`WriteHolds`), and with it `WriteAll`, which succeeds exactly
  when the sum of the widths fits (`WriteAllTotal`);
* another buffer behind this one (`WriteBufferHolds`), so a header before the fields
  (`HeaderHolds`), with either of the two sizes;
* a new size at the start (`SetWriteOffsetHolds`), which replaces the first field and no
  other, since an int takes four bytes whatever it is. So what the relay's size says matters
  to where it writes next, and never to what is read.

A reader that starts where the writer did and reads as many bytes as were written is at the
start of each field in turn (`ReadsFrame`). An int may be read where cards lie, as the client
does with the discarded ones, but only last; and where nothing was written there are
zeros: no name and no cards. What a reader found before it failed is therefore a beginning of
what it should find (`FindsBeginning`), for strings of any length. It is not the whole where a
read throws, and `ShortStringsAreSafe` says when none does.

`CodecInv` says that whoever has the packet has such a buffer, for each of the five
requests (`RequestIs`) and the shapes of the answers (`AnswerShape`, `ClientReads`), and
`RoomInv` how long it is: `Longest`, and one string more with the appended id. The
tightest place is `readCards` of the game server, at 20 + 3 `SafeLength` + 8 (`Hand` + 1) bytes
(`SafeRoom`). TLC checked `CodecInv` on the instance of run `PacketCodec` first.

**Only model-checked.** Every invariant and every action property of the runs that pass is a
theorem. Out of the prover's reach are the liveness properties (`LoginAnswered`, `RoomAnswered`,
`AllHandled`, `RequestAnswered`, `EverythingArrives`, `TimersEnd`, `TurnGoesOn`, and the fairness
of `TurnGame` in `ImplementsTurnGame`, whose safety part is `PlaysTurnGame`).

## 5. Not modelled

* `RoomManager::leaveRoom`, `deleteRoom` and `Room::leaveRoom`: nothing calls them;
  so too `readChar`, `readFloat` and their writers.
* The client's view of the relay's end: it prints or ends its IO thread, and no
  packet follows.
* That a client may post its first receive before it is connected, and then hears nothing for good.
  `ServerLink` has this for the relay's connectors. In `LiarsBar` it is a client that takes no
  `HandleIO` step: `Spec`, and so every safety property and theorem, allows it; what `FairSpec`
  promises (`LoginAnswered`, `RoomAnswered`, the progress of `TurnGame`) is promised to clients that hear.
* The end of the login server, and a new relay after the end of one, in `LiarsBar`. `ServerLink` has both
  for one server.
* The screen: what two threads print outside `uiMutex` and where, and the cards drawn.
* A torn `unordered_map`: unlocked calls race in `LiarsBar`, each is atomic there.
* Logging and start-up; `logAndExit` is the end of the program where it is called.

## 6. Plan

Done: sections 2 to 4. What is left is listed in section 5 and at the end of section 4.
When the code changes, the first places to look at are the assumptions of section 4:
nothing in the code enforces that accounts are not shared or that no two clients are
accepted in one millisecond, and a packet type with more strings than `PlAYER_TURN_OVER`
makes `SafeLength` smaller.
