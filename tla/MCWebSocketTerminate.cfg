\* The test program with a connection: does it return?
SPECIFICATION Spec
CONSTANTS
  MaxMessages = 2
  Callers <- PatientProgram
INVARIANT NoTerminate
CHECK_DEADLOCK FALSE
