CONSTANTS
  InHosts = {}
  OutHosts = {out1}
  MaxConns = 1
  MaxReconnectionAttempts = 0
SPECIFICATION Spec
CHECK_DEADLOCK FALSE
PROPERTY DisconnectedNodesThrow
