SPECIFICATION FairSpec
CONSTANTS
  NbPorts = 3
  NbBanks = 2
  Sizes <- MCSizes
  Base <- MCBase
  Prio <- MCPrio
  Lanes = {1, 2}
  Bytes = {0, 1}
  ZeroByte = 0
  Requests <- MCRequests
INVARIANTS TypeOK NoLostWakeup RequestInOnePlace AddressRestored SameCycleByPriority
PROPERTIES ServedWhenOthersQuiet ImplementsAtomicMemory
CHECK_DEADLOCK FALSE
