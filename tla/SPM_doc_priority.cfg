SPECIFICATION Spec
CONSTANTS
  NbPorts = 3
  NbBanks = 2
  Sizes <- MCSizes
  Base <- MCBase
  Prio <- MCPrio
  Lanes = {1}
  Bytes = {0}
  ZeroByte = 0
  Requests <- MCLiveRequests
PROPERTY FetchFirst
