SPECIFICATION Spec
CONSTANTS
  Wlans <- TwoWlans
  Configs <- ThreeConfigs
  InitialConfig <- Adapted
  NumHandlers = 1
  MaxRequests = 0
  MaxReceivers = 1
CHECK_DEADLOCK FALSE
PROPERTY StopReturns
