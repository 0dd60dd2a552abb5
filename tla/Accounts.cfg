\* Logins and registrations of shared accounts, without rooms, and equal temporary keys.
SPECIFICATION Spec
CONSTANTS
  c1 = c1
  c2 = c2
  c3 = c3
  u1 = u1
  u2 = u2
  u3 = u3
  p1 = p1
  p2 = p2
  r1 = r1
  r2 = r2
  red = red
  black = black
  Nobody = Nobody
  Conns = {c1, c2}
  Users = {u1, u2}
  Passwords = {p1, p2}
  RoomNames = {}
  CardTypes = {red}
  HandSize = 2
  MaxMillis = 2
  MinGap = 0
  MaxPlayers = 2
  Deck <- FourRed
  Owns <- SharedAccounts
  Quitters = {c1, c2}
  MaxDiscard = 1
  Floor <- BelowZero
  StoredUsers <- NoRows
  SqlMayFail = TRUE
INVARIANTS
  MapConsistent
  LoginsHaveRows
  LostOnlyWithItsAccount
\* The players may all stop playing, and a program that ended takes no step.
CHECK_DEADLOCK FALSE
