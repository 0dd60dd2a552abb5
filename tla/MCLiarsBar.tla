----------------------------- MODULE MCLiarsBar -----------------------------
(***************************************************************************)
(* Small instances of LiarsBar: which clients, accounts, rooms and cards   *)
(* there are.  Each .cfg names one instance and what is asked of it.       *)
(***************************************************************************)
EXTENDS LiarsBar

CONSTANTS c1, c2, c3, u1, u2, u3, p1, p2, r1, r2, red, black

\* Card counters stop below any count that is compared with them.
BelowZero == -1

\* Who has which account: each person an own one, or everybody all of them.
OwnAccounts == [c \in Conns |-> IF c = c1 THEN {u1} ELSE IF c = c2 THEN {u2} ELSE {u3}]
SharedAccounts == [c \in Conns |-> Users]
\* c2 has two accounts.
SecondAccount == [c \in Conns |-> IF c = c1 THEN {u1} ELSE {u2, u3}]
\* Two programs of one person.
SecondWindow == [c \in Conns |-> IF c = c2 THEN {u2} ELSE {u1}]

U1U2 == [u \in Users |-> IF u = u3 THEN Nobody ELSE p1]
Everybody == [u \in Users |-> p1]
NoRows == [u \in Users |-> Nobody]

TwoColours == <<red, red, black, black>>
OneColour(n) == [i \in 1 .. n |-> red]
FourRed == OneColour(4)
SixRed == OneColour(6)
=============================================================================
