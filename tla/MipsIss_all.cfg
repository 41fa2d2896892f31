SPECIFICATION FairSpec
CONSTANTS
  Programs <- MCPrograms
  Modulus = 16
  Handler = 7
  InitGp <- MCInitGp
  InitMem <- MCInitMem
INVARIANT TypeOK
PROPERTIES ImplementsIsa Progress
