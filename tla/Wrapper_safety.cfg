SPECIFICATION FairSpec
CONSTANTS
  CodeAddrs = {"c1", "c2"}
  BootAddrs = {"r1"}
  DataAddrs = {"d1"}
  BusAddrs = {"b1", "b2"}
  Cell <- MCCell
  Values = {0, 1}
  Zero = 0
  Reset = "r1"
  NoAddr = "none"
  Doubles = {"read"}
INVARIANTS TypeOK NoCrash LoadsSeeStores RightInstruction OneTransactionPerPort
PROPERTY RequestsAnswered
