\* Two windows of one account, and a second player.
SPECIFICATION Spec
CONSTANTS
  c1 = c1
  c2 = c2
  c3 = c3
  u1 = u1
  u2 = u2
  u3 = u3
  p1 = p1
  p2 = p2
  r1 = r1
  r2 = r2
  red = red
  black = black
  Nobody = Nobody
  Conns = {c1, c2, c3}
  Users = {u1, u2}
  Passwords = {p1}
  RoomNames = {r1}
  CardTypes = {red}
  HandSize = 2
  MaxMillis = 3
  MinGap = 1
  MaxPlayers = 2
  Deck <- FourRed
  Owns <- SecondWindow
  Quitters = {}
  MaxDiscard = 1
  Floor <- BelowZero
  StoredUsers <- Everybody
  SqlMayFail = FALSE
INVARIANTS
  GameServerNeedsOwnAccounts
\* The players may all stop playing, and a program that ended takes no step.
CHECK_DEADLOCK FALSE
