\* Two players with their own accounts; refutes the counts GameManager.cpp shows.
SPECIFICATION Spec
CONSTANTS
  c1 = c1
  c2 = c2
  c3 = c3
  u1 = u1
  u2 = u2
  u3 = u3
  p1 = p1
  p2 = p2
  r1 = r1
  r2 = r2
  red = red
  black = black
  Nobody = Nobody
  Conns = {c1, c2}
  Users = {u1, u2}
  Passwords = {p1}
  RoomNames = {r1}
  CardTypes = {red, black}
  HandSize = 2
  MaxMillis = 2
  MinGap = 1
  MaxPlayers = 2
  Deck <- TwoColours
  Owns <- OwnAccounts
  Quitters = {}
  MaxDiscard = 1
  Floor <- BelowZero
  StoredUsers <- Everybody
  SqlMayFail = FALSE
INVARIANTS
  CountsShown
\* The players may all stop playing, and a program that ended takes no step.
CHECK_DEADLOCK FALSE
