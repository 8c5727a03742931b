SPECIFICATION Spec
CONSTANTS
  BasicMax = 1
  ExtMax = 2
  MaxMessage = 3
  KeyLen = 2
  Ext16 = 1
  Ext64 = 2
  SizeSpace = 6
  MaxString = 4
  MaxRead = 3
  Inputs <- MCInputs
CHECK_DEADLOCK FALSE
INVARIANTS TextEndsOnCodePoint
