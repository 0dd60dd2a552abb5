\* Two clients play; the second has two accounts, one of them not registered.
\* Every thread runs while it can.
SPECIFICATION FairSpec
CONSTANTS
  c1 = c1
  c2 = c2
  c3 = c3
  u1 = u1
  u2 = u2
  u3 = u3
  p1 = p1
  p2 = p2
  r1 = r1
  r2 = r2
  red = red
  black = black
  Nobody = Nobody
  Conns = {c1, c2}
  Users = {u1, u2, u3}
  Passwords = {p1}
  RoomNames = {r1}
  CardTypes = {red, black}
  HandSize = 2
  MaxMillis = 2
  MinGap = 1
  MaxPlayers = 2
  Deck <- TwoColours
  Owns <- SecondAccount
  Quitters = {}
  MaxDiscard = 1
  Floor <- BelowZero
  StoredUsers <- U1U2
  SqlMayFail = FALSE
INVARIANTS
  TypeOK
  SeatedAsTold
  DrawInBounds
  OneDeck
  OneRequestEach
  KnownCrashes
  Addressed
PROPERTIES
  LoginAnswered
  RoomAnswered
  ImplementsTurnGame
\* The players may all stop playing, and a program that ended takes no step.
CHECK_DEADLOCK FALSE
