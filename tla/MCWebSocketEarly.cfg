\* The test program, interrupted while it connects: does disconnect() hold?
SPECIFICATION Spec
CONSTANTS
  MaxMessages = 2
  Callers <- TestProgram
PROPERTY StaysDisconnected
CHECK_DEADLOCK FALSE
