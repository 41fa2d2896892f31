------------------------------ MODULE MCNbBus ------------------------------
(***************************************************************************)
(* An instance of NbBus for TLC: the targets of the platform in the order  *)
(* of its memory map, with intervals of one to three words and gaps of no  *)
(* and of one word between them.                                           *)
(***************************************************************************)
EXTENDS NbBus

Lowest(t) == CASE t = "spm" -> 0 [] t = "uart" -> 2 [] t = "helper" -> 3 [] t = "in_buf" -> 5
               [] t = "out_buf" -> 6 [] t = "reset" -> 8 [] t = "dense" -> 9
MCBase == [t \in Targets |-> Lowest(t)]
MCSize == [t \in Targets |-> IF t = "dense" THEN 2 ELSE 1]

W(x, y)  == [l \in {1, 2} |-> IF l = 1 THEN x ELSE y]
MCZero   == W(0, 0)
MCFile   == <<W(1, 0)>>
MCEOF    == W(1, 1)
RD(a)    == [cmd |-> "READ", addr |-> a, be |-> {1, 2}, data |-> MCZero]
WR(a, be, w) == [cmd |-> "WRITE", addr |-> a, be |-> be, data |-> w]

(* Fetches of reset code, and of a memory that is also accessed as data.   *)
(* Address 4 is in a gap.                                                  *)
MCRequests ==
  [s \in Slots |->
     CASE s = "i"     -> {}
       [] s = "d"     -> {WR(0, {1}, W(1, 1))}
       [] s = "fetch" -> {RD(8), RD(9), RD(4)}
       [] s = "data"  -> {RD(0), WR(9, {2}, W(1, 1))}
       [] s = "io"    -> {WR(2, {1}, W(0, 1)), WR(3, {1}, W(1, 1)), RD(5), WR(6, {1}, W(0, 1)),
                          WR(5, {1}, W(0, 1))}]
=============================================================================
