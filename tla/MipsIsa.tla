------------------------------ MODULE MipsIsa ------------------------------
(***************************************************************************)
(* What a MIPS32 processor promises to the program it runs: instructions   *)
(* take effect one at a time and completely, branches are delayed by one   *)
(* instruction, a trapping instruction has no effect but to leave its      *)
(* address, or that of the branch it is in the delay slot of, in EPC.      *)
(* Memory takes no time, and there are no interrupts: a program whose      *)
(* interrupt handler keeps its registers cannot tell that it has been      *)
(* interrupted.                                                            *)
(*                                                                         *)
(* Addresses of instructions are indices of the program.  Words have       *)
(* Modulus values; register 0 and the handler's register 26 are not part   *)
(* of what the program sees.                                               *)
(***************************************************************************)
EXTENDS Integers

CONSTANTS
  Modulus,     (* number of values of a word                             *)
  Handler,     (* the exception vector                                   *)
  InitGp,      (* registers when the program starts                      *)
  InitMem      (* data memory when the program starts                    *)

VARIABLES program, r, pc, npc, mem, exl, epc

vars == <<program, r, pc, npc, mem, exl, epc>>

Seen     == DOMAIN InitGp \ {0, 26}
NoEpc    == -1
Signed(w) == IF 2 * w < Modulus THEN w ELSE w - Modulus
Fits(n)  == -Modulus <= 2 * n /\ 2 * n < Modulus
Reg(x)   == IF x \in Seen THEN r[x] ELSE 0
Ins      == program[pc]
Is(ops)  == Ins.op \in ops

Init ==
  /\ {0, Handler} \subseteq DOMAIN program     (* whatever the program *)
  /\ r = [x \in Seen |-> InitGp[x]]
  /\ pc = 0 /\ npc = 1
  /\ mem = InitMem
  /\ exl = FALSE /\ epc = NoEpc

Write(x, w) == r' = IF x \in Seen THEN [r EXCEPT ![x] = w] ELSE r
Goto(a)     == pc' = npc /\ npc' = a
Advance     == Goto(npc + 1)
NoTrap      == UNCHANGED <<exl, epc>>

Arithmetic ==
  /\ \/ Is({"addi"}) /\ Fits(Signed(Reg(Ins.s)) + Ins.imm)
        /\ Write(Ins.t, (Reg(Ins.s) + Ins.imm) % Modulus)
     \/ Is({"mul"}) /\ Write(Ins.t, (Reg(Ins.s) * Reg(Ins.t)) % Modulus)
  /\ Advance /\ NoTrap /\ UNCHANGED mem

Load ==
  /\ Is({"lw"}) /\ Reg(Ins.s) % 4 = 0
  /\ Write(Ins.t, mem[Reg(Ins.s)])
  /\ Advance /\ NoTrap /\ UNCHANGED mem

Store ==
  /\ Is({"sw"}) /\ Reg(Ins.s) % 4 = 0
  /\ mem' = [mem EXCEPT ![Reg(Ins.s)] = Reg(Ins.t)]
  /\ Advance /\ NoTrap /\ UNCHANGED r

Branch ==
  /\ Is({"beq", "beql"})
  /\ \/ Reg(Ins.s) = Reg(Ins.t) /\ Goto(pc + 1 + Ins.imm)
     \/ Reg(Ins.s) # Reg(Ins.t) /\ Is({"beq"}) /\ Advance
     \/ /\ Reg(Ins.s) # Reg(Ins.t) /\ Is({"beql"})   (* its slot is annulled *)
        /\ pc' = pc + 2 /\ npc' = pc + 3
  /\ NoTrap /\ UNCHANGED <<r, mem>>

Call ==
  /\ Is({"jal"})
  /\ Write(31, pc + 2)
  /\ Goto(Ins.imm)
  /\ NoTrap /\ UNCHANGED mem

(* Enabling, requesting and masking interrupts: invisible.                 *)
InterruptControl ==
  /\ Is({"nop", "mtc0", "di"})
  /\ Advance /\ NoTrap /\ UNCHANGED <<r, mem>>

Return ==
  /\ Is({"eret"}) /\ exl
  /\ pc' = epc /\ npc' = epc + 1
  /\ exl' = FALSE /\ epc' = NoEpc
  /\ UNCHANGED <<r, mem>>

Trap ==
  /\ \/ Is({"syscall"})
     \/ Is({"lw", "sw"}) /\ Reg(Ins.s) % 4 # 0
     \/ Is({"addi"}) /\ ~Fits(Signed(Reg(Ins.s)) + Ins.imm)
  /\ ~exl
  /\ epc' = (IF npc = pc + 1 THEN pc ELSE pc - 1) /\ exl' = TRUE
  /\ pc' = Handler /\ npc' = Handler + 1
  /\ UNCHANGED <<r, mem>>

Next ==
  /\ Arithmetic \/ Load \/ Store \/ Branch \/ Call \/ InterruptControl \/ Return \/ Trap
  /\ UNCHANGED program

Spec == Init /\ [][Next]_vars
=============================================================================
