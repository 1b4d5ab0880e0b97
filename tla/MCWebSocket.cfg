\* Every program: the read loop, the shutdown, and what a careful caller gets.
SPECIFICATION Spec
CONSTANTS
  MaxMessages = 2
  Callers <- AllCallers
INVARIANTS
  TypeOK ReadLoopArmed OneReader AtMostOneAfterStop CloseAfterHandshake
  CarefulNeverTerminates
PROPERTIES
  ShutdownCompletes MessagesAreRead DisconnectIsFinal
CHECK_DEADLOCK FALSE
