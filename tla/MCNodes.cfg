CONSTANTS
  NInputs = 2
  Cap = 2
  Threshold = 2
  SyncAttempts <- Forever
  MaxTs = 5
  Numbers = {0, 2}
  CtrlCap = 1
  MaxMsgs = 4
  MaxCmds = 2
  NOutputs = 2
  OutCap = 1
  MaxGroups = 3
SPECIFICATION NodesSpec
CHECK_DEADLOCK FALSE
INVARIANTS MissesNoMatch WithinAllowance ExactDelivery
PROPERTIES NodesGoOn StopEndsNodes
