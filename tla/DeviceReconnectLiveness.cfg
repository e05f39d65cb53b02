CONSTANTS
  InHosts = {in1}
  OutHosts = {}
  MaxConns = 3
  MaxReconnectionAttempts = 2
SPECIFICATION Spec
CHECK_DEADLOCK FALSE
PROPERTIES WaitersAreAnswered
