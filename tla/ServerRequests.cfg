SPECIFICATION Spec
CONSTANTS
  Wlans <- TwoWlans
  Configs <- ThreeConfigs
  InitialConfig <- Adapted
  NumHandlers = 2
  MaxRequests = 2
  MaxReceivers = 2
CHECK_DEADLOCK FALSE
INVARIANT ServerInv
INVARIANT NoDeadlockWhileRunning
INVARIANT RoutedToSelected
