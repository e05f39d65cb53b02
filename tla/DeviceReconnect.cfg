CONSTANTS
  InHosts = {in1}
  OutHosts = {out1}
  MaxConns = 2
  MaxReconnectionAttempts = 1
SPECIFICATION Spec
CHECK_DEADLOCK FALSE
INVARIANTS OneWatchedLink NoStreamReuse
