SPECIFICATION Spec
CONSTANTS
  Footprints <- MCFootprints
  IdealSize = 33554432
INVARIANTS TypeOK ProgramReachesBanks HeapAccessesLogged HeapsFitAllocator OneTargetPerAddress
