----------------------------- MODULE MCMipsIss -----------------------------
(***************************************************************************)
(* An instance of MipsIss for TLC: words of 4 bits, four words of data,    *)
(* every program of an instruction of First, two of a set that has one of  *)
(* each class, one that uses their result, then a loop for ever; and       *)
(* handlers that do and do not withdraw the interrupt.                     *)
(***************************************************************************)
EXTENDS MipsIss

I(op, s, t, imm) == [op |-> op, s |-> s, t |-> t, imm |-> imm]

Addi == I("addi", 1, 1, 5)
Lw   == I("lw", 2, 1, 0)
Plain == {Addi, I("addi", 1, 2, -1), Lw, I("sw", 2, 1, 0), I("mul", 1, 1, 0),
          I("mtc0", 0, 0, 1), I("syscall", 0, 0, 0), I("di", 0, 0, 0)}
Jumps == {I("beq", 1, 0, 2), I("beql", 1, 0, 2), I("jal", 0, 0, 4)}
Any   == Plain \cup Jumps
First == Jumps \cup {I("addi", 1, 2, -1), I("mtc0", 0, 0, 1)}

Handlers == {<<I("mtc0", 0, 0, 0), I("eret", 0, 0, 0)>>, <<I("lw", 0, 26, 0), I("eret", 0, 0, 0)>>}

Text(a, b, c, h) ==
  LET text == <<a, b, c, Addi, Nop, I("beq", 0, 0, -2), Nop, h[1], h[2], Nop>>
  IN [x \in 0 .. 9 |-> text[x + 1]]

InSlot(a, b) == a \in Jumps => b \notin Jumps

MCPrograms ==
  {Text(a, b, c, h) :
     <<a, b, c, h>> \in {t \in First \X Any \X Any \X Handlers :
                           InSlot(t[1], t[2]) /\ InSlot(t[2], t[3])}}
MCInitGp  == [x \in {0, 1, 2, 26, 31} |-> IF x = 2 THEN 4 ELSE 0]
MCInitMem == [a \in {0, 4, 8, 12} |-> a + 1]
=============================================================================
