------------------------------ MODULE MipsIss ------------------------------
(***************************************************************************)
(* The instruction set simulator: iss/mips32*.  The wrapper calls          *)
(* executeNCycles(1, ...) with an instruction response and a data response *)
(* that may or may not be valid.  The ISS keeps one data request posted    *)
(* while it looks at the next instruction, stalls when that instruction    *)
(* needs the loaded register, when a long operation is running or when a   *)
(* response is missing, and takes exceptions and interrupts between        *)
(* instructions, backing out of a request it has just posted.              *)
(*                                                                         *)
(* A subset of the instructions stands for the classes that the control    *)
(* tells apart.  Words have Modulus values; addresses of instructions are  *)
(* indices of the program, 4 bytes apart in the code.                      *)
(***************************************************************************)
EXTENDS Integers

CONSTANTS
  Programs,    (* the programs, as functions from addresses to instructions *)
  Modulus,     (* number of values of a word                             *)
  Handler,     (* exceptBaseAddr() + exceptOffsetAddr()                  *)
  InitGp,      (* registers when the program starts                      *)
  InitMem      (* data memory when the program starts                    *)

Words    == 0 .. Modulus - 1
Branches == {"beq", "beql", "jal", "eret"}
Instructions ==
  [op : Branches \cup {"addi", "lw", "sw", "mul", "syscall", "mtc0", "di", "nop"},
   s : DOMAIN InitGp, t : DOMAIN InitGp, imm : Int]

(* What the architecture leaves UNPREDICTABLE, or what the simulator does  *)
(* not get right (README): a branch in the delay slot of a branch or to    *)
(* its own delay slot, a result written to register 0 by anything but a    *)
(* load, and the handler's register 26 used by the program.                *)
ASSUME IssAssumption ==
  /\ Modulus \in Nat \ {0} /\ Modulus % 2 = 0
  /\ Handler \in Nat /\ Handler < Modulus
  /\ InitGp \in [DOMAIN InitGp -> Words]
  /\ InitGp[0] = 0 /\ {0, 26, 31} \subseteq DOMAIN InitGp
  /\ InitMem \in [{w \in Words : w % 4 = 0} -> Words]
  /\ \A p \in Programs : \A a \in DOMAIN p :
       /\ a \in Nat /\ p[a] \in Instructions
       /\ p[a].op \in Branches /\ a + 1 \in DOMAIN p /\ p[a].op # "eret"
            => p[a + 1].op \notin Branches
       /\ p[a].op \in {"beq", "beql"} => p[a].imm # 0
       /\ p[a].op = "jal" => p[a].imm # a + 1
       /\ p[a].op \in {"addi", "mul"} => p[a].t # 0
       /\ a < Handler => 26 \notin {p[a].s, p[a].t} /\ p[a].op # "eret"

(* Where the branch at a goes.                                             *)
Target(p, a) == IF p[a].op = "jal" THEN p[a].imm ELSE a + 1 + p[a].imm

AlwaysTaken(i) == i.op = "jal" \/ i.s = i.t

(* Started at an address of S, p stays in S, but for delay slots.          *)
Closed(p, S) ==
  \A a \in S :
    /\ a \in DOMAIN p
    /\ p[a].op \notin Branches => a + 1 \in S
    /\ p[a].op \in Branches =>
         /\ a + 1 \in DOMAIN p /\ a + 1 < Handler
         /\ Target(p, a) \in S
         /\ p[a].op = "beql" /\ ~AlwaysTaken(p[a]) => a + 2 \in S
         /\ Target(p, a) = a + 2 \/ (p[a].op = "beq" /\ ~AlwaysTaken(p[a])) => a + 1 \in S

(* Instructions that leave all registers but 26 and the memory alone, and  *)
(* do not trap.                                                            *)
KeepsState(i) ==
  \/ i.op \in {"nop", "mtc0", "di"}
  \/ i.op = "mul" /\ i.t = 26
  \/ i.op = "lw" /\ i.s = 0 /\ i.t = 26
  \/ i.op = "addi" /\ i.s = 0 /\ i.t = 26 /\ -Modulus <= 2 * i.imm /\ 2 * i.imm < Modulus

(* Programs do not run off their text, and the handler returns without a   *)
(* trace: without that no processor could keep what MipsIsa promises.      *)
ASSUME ProgramAssumption ==
  \A p \in Programs :
    /\ \E S \in SUBSET (0 .. Handler - 1) : 0 \in S /\ Closed(p, S)
    /\ \E h \in DOMAIN p :
         /\ Handler <= h /\ p[h].op = "eret"
         /\ \A a \in Handler .. h - 1 : a \in DOMAIN p /\ KeepsState(p[a])

VARIABLES
  program,     (* the text in memory                                     *)
  iss,         (* the registers of Mips32Iss that last from call to call *)
  mem,         (* data memory                                            *)
  due          (* <<pc, npc>> where an interrupted program must go on    *)

vars == <<program, iss, mem, due>>

NoReq  == [valid |-> FALSE, read |-> FALSE, addr |-> 0, wdata |-> 0, dest |-> 0]
NoDue  == <<>>
NoEpc  == -1
Nop    == [op |-> "nop", s |-> 0, t |-> 0, imm |-> 0]
Signed(w) == IF 2 * w < Modulus THEN w ELSE w - Modulus

(* From reset: a boot code has enabled interrupts, one may be pending.     *)
Init ==
  /\ program \in Programs
  /\ iss \in [gp : {InitGp}, pc : {0}, npc : {1}, dreq : {NoReq}, delay : {0}, ins : {Nop},
              exl : {FALSE}, ie : {TRUE}, ip : BOOLEAN, epc : {NoEpc}]
  /\ mem = InitMem
  /\ due = NoDue

check_irq_state(c) == c.ie /\ ~c.exl

-----------------------------------------------------------------------------
(* One instruction.  e holds the registers cpu as the instruction has left *)
(* them so far, m_next_pc, m_jump_pc, m_resume_pc and m_exception.         *)

jump(e, dest, now) ==
  IF now THEN [e EXCEPT !.next = dest, !.jump = dest + 1] ELSE [e EXCEPT !.jump = dest]

jump_imm16(e, taken, likely) ==
  IF taken THEN jump(e, e.cpu.npc + e.cpu.ins.imm, FALSE)
  ELSE IF likely THEN jump(e, e.cpu.npc + 1, TRUE)
  ELSE e

do_mem_access(e, addr, read, dest, wdata) ==
  [e EXCEPT !.cpu.dreq = [valid |-> TRUE, read |-> read, addr |-> addr,
                          wdata |-> wdata, dest |-> dest]]

setInsDelay(e, delay) == [e EXCEPT !.cpu.delay = delay - 1]

Raise(e, x)    == [e EXCEPT !.exc = x]
SetReg(e, x, w) == [e EXCEPT !.cpu.gp[x] = w]

op_addi(e, s, t, imm) ==
  LET sum == Signed(s) + imm IN
  IF sum < -(Modulus \div 2) \/ sum >= Modulus \div 2 THEN Raise(e, "OV")
  ELSE SetReg(e, t, sum % Modulus)

(* Mutant: no alignment check.                                             *)
op_lw_unaligned(e, address, t) == do_mem_access(e, address, TRUE, t, 0)
op_lw(e, address, t) ==
  IF address % 4 # 0 THEN Raise(e, "ADEL") ELSE do_mem_access(e, address, TRUE, t, 0)

op_sw(e, address, wdata) ==
  IF address % 4 # 0 THEN Raise(e, "ADES") ELSE do_mem_access(e, address, FALSE, 0, wdata)

op_beq(e, s, t, likely) == jump_imm16(e, s = t, likely)

op_jal(e, target) == jump(SetReg(e, 31, e.cpu.pc + 2), target, FALSE)

(* The code tests rt after it has written rd.  The programs have rd = rt,  *)
(* register t, so the test is about the product.                           *)
special2_mul(e, t, v, w) ==
  LET done == SetReg(e, t, (v * w) % Modulus) IN
  IF done.cpu.gp[t] # 0 THEN setInsDelay(done, 3) ELSE done

(* eret, mtc0 of Cause.IP0, di: di leaves Status in its register.          *)
cop0_eret(e) ==
  IF e.cpu.exl THEN [jump(e, e.cpu.epc, TRUE) EXCEPT !.cpu.exl = FALSE] ELSE e
cop0_mtc0(e, pending) == [e EXCEPT !.cpu.ip = pending]
cop0_di(e) == [SetReg(e, 0, 1) EXCEPT !.cpu.ie = FALSE]

Start(c) ==
  [cpu |-> c, next |-> c.npc, jump |-> c.npc + 1, resume |-> c.pc, exc |-> "none"]

run(c) ==
  LET e == Start(c)
      i == c.ins
      s == c.gp[i.s]
      t == c.gp[i.t]
  IN CASE i.op = "addi"    -> op_addi(e, s, i.t, i.imm)
       [] i.op = "lw"      -> op_lw(e, s, i.t)
       [] i.op = "sw"      -> op_sw(e, s, t)
       [] i.op = "beq"     -> op_beq(e, s, t, FALSE)
       [] i.op = "beql"    -> op_beq(e, s, t, TRUE)
       [] i.op = "jal"     -> op_jal(e, i.imm)
       [] i.op = "mul"     -> special2_mul(e, i.t, s, t)
       [] i.op = "syscall" -> Raise(e, "SYS")
       [] i.op = "mtc0"    -> cop0_mtc0(e, i.imm = 1)
       [] i.op = "di"      -> cop0_di(e)
       [] i.op = "eret"    -> cop0_eret(e)
       [] i.op = "nop"     -> e

-----------------------------------------------------------------------------
(* The start of executeNCycles: the two responses.                         *)

(* use_table has nothing for the likely branches.                          *)
curInstructionUsesRegs(i) ==
  CASE i.op \in {"beq", "mul", "sw", "mtc0", "di", "eret"} -> {i.s, i.t}
    [] i.op \in {"addi", "lw"} -> {i.s}
    [] i.op = "nop" -> {i.t}
    [] i.op \in {"beql", "jal", "syscall"} -> {}

handle_ifetch(c, iOk) == IF iOk THEN [c EXCEPT !.ins = program[c.pc]] ELSE c

(* The load that has arrived goes to a register of the current instruction. *)
Hazard(c) == c.dreq.read /\ c.dreq.dest # 0 /\ c.dreq.dest \in curInstructionUsesRegs(c.ins)

(* Mutant: the request stays posted when the instruction waits for it.     *)
handle_dfetch_again(c) ==
  LET q  == c.dreq
      c1 == [c EXCEPT !.dreq = IF Hazard(c) THEN q ELSE NoReq]
  IN IF q.read /\ q.dest # 0 THEN [c1 EXCEPT !.gp[q.dest] = mem[q.addr]] ELSE c1
handle_dfetch(c) ==
  LET q == c.dreq
      c1 == [c EXCEPT !.dreq = NoReq]
  IN IF q.read /\ q.dest # 0 THEN [c1 EXCEPT !.gp[q.dest] = mem[q.addr]] ELSE c1

-----------------------------------------------------------------------------
(* The end of executeNCycles.                                              *)

(* EPC is where to resume, or the branch before it when m_resume_pc is in  *)
(* a delay slot.                                                           *)
handle_exception(e) ==
  LET taken  == IF e.resume = e.cpu.pc THEN e.cpu.pc + 1 # e.cpu.npc ELSE e.next + 1 # e.jump
      back   == IF taken THEN 1 ELSE 0
  IN [e.cpu EXCEPT !.epc = IF e.cpu.exl THEN e.cpu.epc ELSE e.resume - back,
                   !.exl = TRUE,
                   !.pc  = Handler, !.npc = Handler + 1]

(* An interrupt withdraws the request that the instruction has just posted *)
(* and goes back to that instruction.                                      *)
(* Mutant: the request is withdrawn, the instruction counted as done.      *)
BackOut_forward(e) == [e EXCEPT !.cpu.dreq = NoReq, !.resume = e.next]
BackOut(e) ==
  LET k == IF e.cpu.dreq.valid
             THEN [e EXCEPT !.cpu.dreq = NoReq, !.next = e.cpu.pc, !.jump = e.cpu.npc]
             ELSE e
  IN [k EXCEPT !.resume = k.next]

Commit(e) == [e.cpu EXCEPT !.pc = e.next, !.npc = e.jump, !.gp[0] = 0]

(* The return from an interrupt is complete when the program is where it   *)
(* had been interrupted, a branch before a delay slot executed again.      *)
Resumed(c) == IF due # NoDue /\ ~c.exl /\ <<c.pc, c.npc>> = due THEN NoDue ELSE due

(* The memory responds to the request, if there is one.                    *)
Answered(dOk) == iss.dreq.valid /\ dOk
DreqOk(dOk)   == iss.dreq.valid => dOk

Loaded(iOk, dOk) ==
  IF Answered(dOk) THEN handle_dfetch(handle_ifetch(iss, iOk)) ELSE handle_ifetch(iss, iOk)

(* A long operation is running, or the cycle went to the load.             *)
Stalled(iOk, dOk) == iss.delay > 0 \/ (Answered(dOk) /\ Hazard(handle_ifetch(iss, iOk)))

Stored(dOk) ==
  IF Answered(dOk) /\ ~iss.dreq.read THEN [mem EXCEPT ![iss.dreq.addr] = iss.dreq.wdata] ELSE mem

Idle(c) == [cpu |-> c, next |-> c.pc, jump |-> c.npc, resume |-> c.pc, exc |-> "none"]

Executed(iOk, dOk) ==
  IF DreqOk(dOk) /\ iOk THEN run(Loaded(iOk, dOk)) ELSE Idle(Loaded(iOk, dOk))

(* An interrupt is taken if it could be before the instruction and after.  *)
TakesIrq(e, dOk) ==
  e.cpu.ip /\ check_irq_state(iss) /\ check_irq_state(e.cpu) /\ DreqOk(dOk)

Stall(iOk, dOk) ==
  /\ Stalled(iOk, dOk)
  /\ iss' = [Loaded(iOk, dOk) EXCEPT !.delay = IF iss.delay > 0 THEN iss.delay - 1 ELSE 0]
  /\ UNCHANGED due

Except(e) == e.exc # "none" /\ iss' = handle_exception(e) /\ UNCHANGED due

Interrupt(e, dOk) ==
  /\ e.exc = "none" /\ TakesIrq(e, dOk)
  /\ iss' = handle_exception(BackOut(e))
  /\ due' = IF due = NoDue THEN <<BackOut(e).next, BackOut(e).jump>> ELSE due

Complete(e, dOk) ==
  /\ e.exc = "none" /\ ~TakesIrq(e, dOk)
  /\ iss' = Commit(e)
  /\ due' = Resumed(iss')

(* One call of executeNCycles(1, irsp, drsp, 0) with a valid instruction   *)
(* response (iOk) and a valid data response (dOk) or without.              *)
Cycle(iOk, dOk) ==
  /\ mem' = Stored(dOk)
  /\ \/ Stall(iOk, dOk)
     \/ /\ ~Stalled(iOk, dOk)
        /\ \E e \in {Executed(iOk, dOk)} :
             Except(e) \/ Interrupt(e, dOk) \/ Complete(e, dOk)
  /\ UNCHANGED program

Next == \E iOk, dOk \in BOOLEAN : Cycle(iOk, dOk)

(* The wrapper answers every request in the end (Wrapper.RequestsAnswered) *)
(* and gives both responses in the same call.                              *)
Spec     == Init /\ [][Next]_vars
FairSpec == Spec /\ WF_vars(Cycle(TRUE, TRUE))

-----------------------------------------------------------------------------
TypeOK ==
  /\ iss.gp \in [DOMAIN InitGp -> Words]
  /\ iss.pc \in DOMAIN program
  /\ iss.delay \in 0 .. 2
  /\ {iss.exl, iss.ie, iss.ip, iss.dreq.valid} \subseteq BOOLEAN
  /\ iss.dreq.valid => iss.dreq.addr \in DOMAIN mem
  /\ mem \in [DOMAIN InitMem -> Words]
  /\ due = NoDue \/ due \in (DOMAIN program) \X (DOMAIN program)

(* The program's view of the simulator: a posted request counts as done,   *)
(* and an interrupt, from the moment it is taken to the moment the program *)
(* is back where it was, as nothing.                                       *)
SeenGp ==
  [x \in DOMAIN InitGp \ {0, 26} |->
     IF iss.dreq.read /\ iss.dreq.dest = x THEN mem[iss.dreq.addr] ELSE iss.gp[x]]
SeenMem ==
  IF iss.dreq.valid /\ ~iss.dreq.read THEN [mem EXCEPT ![iss.dreq.addr] = iss.dreq.wdata] ELSE mem
SeenExl == iss.exl /\ due = NoDue

Mips == INSTANCE MipsIsa WITH
         r   <- SeenGp,
         pc  <- IF due = NoDue THEN iss.pc ELSE due[1],
         npc <- IF due = NoDue THEN iss.npc ELSE due[2],
         mem <- SeenMem,
         exl <- SeenExl,
         epc <- IF SeenExl THEN iss.epc ELSE NoEpc

(* The simulator executes the program: whatever the order in which         *)
(* responses come, however long they take, wherever an interrupt falls     *)
(* (before or after a branch, its delay slot, a load, a store, a multiply) *)
(* and whatever traps, every instruction has its effect exactly once, in   *)
(* program order, with the operands the architecture says.                 *)
ImplementsIsa == Mips!Spec

(* The simulator never stops executing: no stall lasts for ever.  And an   *)
(* enabled interrupt that stays pending is taken, unless a trap or the     *)
(* program comes first.                                                    *)
Progress ==
  /\ []<><<TRUE>>_(iss.pc)
  /\ iss.ip /\ iss.ie /\ ~iss.exl ~> iss.exl \/ ~iss.ip \/ ~iss.ie
=============================================================================
