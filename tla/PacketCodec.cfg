\* The sizes of the code, and strings that fit and that do not: SafeLength is
\* 1342, and 1, 20 and the longest lengths meet at each of the other limits.
SPECIFICATION Spec
CONSTANTS
  BufSize = 4096
  KeyLen = 17
  Hand = 5
  Lengths = {1, 20, 1342, 1343, 1364, 2014, 2015, 2036, 4028, 4038, 4039, 4040, 4058, 4059, 4075, 4079, 4080}
INVARIANTS
  FieldsSurvive
  ShortStringsAreSafe
\* A packet that was handled, or that ended a program, goes nowhere.
CHECK_DEADLOCK FALSE
