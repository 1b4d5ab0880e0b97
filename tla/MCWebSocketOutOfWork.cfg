\* A caller that polls is_connected() after disconnect(): does it become false?
SPECIFICATION Spec
CONSTANTS
  MaxMessages = 2
  Callers <- CarefulProgram
PROPERTY DisconnectDisconnects
CHECK_DEADLOCK FALSE
