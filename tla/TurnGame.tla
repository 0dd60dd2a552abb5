------------------------------ MODULE TurnGame ------------------------------
(***************************************************************************)
(* What the system promises of a game, whatever carries it: players take   *)
(* the seats of a room in the order they come; when the last seat is taken *)
(* the turn is offered to the first; only the player it is offered to      *)
(* plays it; and it goes on to the next seat when it was played, and not   *)
(* before.  A turn is never in two places.  It can be lost, with a program *)
(* that carries it, and then the game is over.                             *)
(***************************************************************************)
EXTENDS Integers, Sequences

CONSTANTS Users, RoomNames, MaxPlayers

VARIABLES
  seats,  \* the players of each room, in the order they came
  turn,   \* the seat, from 0, that has the turn
  phase   \* where its turn is

vars == <<seats, turn, phase>>

Phases == {"filling", "offered", "playing", "played", "lost"}

TypeOK ==
  /\ seats \in [RoomNames -> Seq(Users)]
  /\ turn \in [RoomNames -> 0 .. MaxPlayers - 1]
  /\ phase \in [RoomNames -> Phases]

\* Where the turn should go next, a program may have ended.
Move(r, from, to) == phase[r] = from /\ \E p \in to : phase' = [phase EXCEPT ![r] = p]

Sit(r, u) ==
  /\ Len(seats[r]) < MaxPlayers
  /\ seats' = [seats EXCEPT ![r] = Append(@, u)]
  /\ Move(r, "filling", IF Len(seats'[r]) = MaxPlayers THEN {"offered", "lost"} ELSE {"filling"})
  /\ UNCHANGED turn

Offer(r) == Move(r, "offered", {"playing"}) /\ UNCHANGED <<seats, turn>>
Play(r) == Move(r, "playing", {"played"}) /\ UNCHANGED <<seats, turn>>
PassOn(r) ==
  /\ Move(r, "played", {"offered", "lost"})
  /\ turn' = [turn EXCEPT ![r] = (@ + 1) % MaxPlayers]
  /\ UNCHANGED seats

\* A program that ends may take the turns of several rooms with it.
Lose(lost) ==
  /\ \A r \in lost : phase[r] \in {"offered", "playing", "played"}
  /\ phase' = [r \in RoomNames |-> IF r \in lost THEN "lost" ELSE phase[r]]
  /\ UNCHANGED <<seats, turn>>

Init ==
  /\ seats = [r \in RoomNames |-> <<>>]
  /\ turn = [r \in RoomNames |-> 0]
  /\ phase = [r \in RoomNames |-> "filling"]

Next ==
  \/ \E r \in RoomNames : (\E u \in Users : Sit(r, u)) \/ Offer(r) \/ Play(r) \/ PassOn(r)
  \/ \E lost \in SUBSET RoomNames : Lose(lost)

\* A turn that is on its way arrives or is lost; a player may think for ever.
Carry(r) == phase[r] \in {"offered", "played"} /\ (Offer(r) \/ PassOn(r) \/ Lose({r}))

SafeSpec == Init /\ [][Next]_vars
Spec == SafeSpec /\ \A r \in RoomNames : WF_vars(Carry(r))
=============================================================================
