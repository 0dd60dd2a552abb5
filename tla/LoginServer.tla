---------------------------- MODULE LoginServer ----------------------------
(***************************************************************************)
(* The login server: PacketManager::handlePacket over the users table that *)
(* DatabaseConnector queries.  One thread pops loginQ, and nobody else     *)
(* writes the table, so a handler with its queries is one action.          *)
(***************************************************************************)
EXTENDS Network

CONSTANTS
  StoredUsers,  \* the table when the server starts: a password, or no row
  SqlMayFail    \* whether a query may throw

ASSUME LoginAssumption ==
  /\ StoredUsers \in [Users -> Passwords \cup {Nobody}]
  /\ SqlMayFail \in BOOLEAN

VARIABLE db  \* the users table

Answer(type, m) == l2r' = Append(l2r, [type |-> type, to |-> m.key, id |-> m.id])

PopLogin(type) ==
  /\ loginQ # <<>>
  /\ Head(loginQ).type = type
  /\ loginQ' = Tail(loginQ)

\* The row SELECT finds under an id, if any.
Matches_NoRow(id, password) == db[id] \in {password, Nobody}
Matches(id, password) == db[id] = password
Taken(id) == db[id] # Nobody

\* REQ_LOG_IN and DatabaseConnector::logIn; an exception counts as a mismatch.
HandleLogIn ==
  /\ PopLogin("REQ_LOG_IN")
  /\ LET m == Head(loginQ) IN
       \/ /\ Matches(m.id, m.password)
          /\ Answer("ACCEPT_LOG_IN", m)
       \/ /\ ~Matches(m.id, m.password) \/ SqlMayFail
          /\ Answer("REJECT_LOG_IN", m)
  /\ UNCHANGED <<db, conn, c2r, r2c, gameQ, g2r>>

\* REQ_REGISTER and DatabaseConnector::registerUser.  The exception may come
\* before the INSERT, or from executeUpdate when the row is already there.
HandleRegister ==
  /\ PopLogin("REQ_REGISTER")
  /\ LET m == Head(loginQ)
         inserted == [db EXCEPT ![m.id] = m.password]
     IN \/ /\ ~Taken(m.id)
           /\ db' = inserted
           /\ Answer("ACCEPT_REGISTER", m)
        \/ /\ Taken(m.id) \/ SqlMayFail
           /\ UNCHANGED db
           /\ Answer("REJECT_REGISTER", m)
        \/ /\ ~Taken(m.id) /\ SqlMayFail
           /\ db' = inserted
           /\ Answer("REJECT_REGISTER", m)
  /\ UNCHANGED <<conn, c2r, r2c, gameQ, g2r>>

HandleLoginPacket == HandleLogIn \/ HandleRegister

LoginInit == db = StoredUsers

LoginTypeOK == db \in [Users -> Passwords \cup {Nobody}]
=============================================================================
