SPECIFICATION Spec
CONSTANTS
  BUF_SIZE = 2
  Messages <- MCMessages
  ReadLens = {1, 2}
  MaxIn = 3
  MaxOut = 6
INVARIANTS ReadersGetInput LineGetsOutput
PROPERTY OutputDrains
CHECK_DEADLOCK FALSE
