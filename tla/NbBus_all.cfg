SPECIFICATION FairSpec
CONSTANTS
  Memories = {"reset", "dense"}
  Inputs = {"in_buf"}
  Outputs = {"out_buf"}
  Uarts = {"uart"}
  Helpers = {"helper"}
  Spm = "spm"
  Base <- MCBase
  Size <- MCSize
  Lanes = {1, 2}
  Byte = {0, 1}
  ZeroWord <- MCZero
  File <- MCFile
  EOF <- MCEOF
  MaxIo = 2
  Requests <- MCRequests
INVARIANTS TypeOK ResolutionHistoryFree AddressRestored OnePlace DevicesInOrder
PROPERTIES AnsweredUnlessShared ImplementsAtomicMemory
CHECK_DEADLOCK FALSE
