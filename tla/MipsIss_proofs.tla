--------------------------- MODULE MipsIss_proofs ---------------------------
(***************************************************************************)
(* Theorems about MipsIss, for every program of ProgramAssumption, any     *)
(* word width, any latency and any interrupt: the simulator is a           *)
(* sequential processor without interrupts, MipsIsa.                       *)
(***************************************************************************)
EXTENDS MipsIss, TLAPS

Seen == DOMAIN InitGp \ {0, 26}

Reqs == [valid : BOOLEAN, read : BOOLEAN, addr : Words, wdata : Words, dest : DOMAIN InitGp]

Cpus ==
  [gp : [DOMAIN InitGp -> Words], pc : Int, npc : Int, dreq : Reqs, delay : 0 .. 2,
   ins : Instructions, exl : BOOLEAN, ie : BOOLEAN, ip : BOOLEAN, epc : Int]

(* The registers and the memory that the program sees, of processor c and  *)
(* memory m.                                                               *)
RegsOf(c, m) ==
  [x \in Seen |-> IF c.dreq.read /\ c.dreq.dest = x THEN m[c.dreq.addr] ELSE c.gp[x]]
StoreOf(c, m) ==
  IF c.dreq.valid /\ ~c.dreq.read THEN [m EXCEPT ![c.dreq.addr] = c.dreq.wdata] ELSE m

Written(rg, x, w) == IF x \in Seen THEN [rg EXCEPT ![x] = w] ELSE rg

Memories == [DOMAIN InitMem -> Words]

(* A posted request is aligned and in the memory.                          *)
Posted(c) ==
  /\ c.dreq.valid => c.dreq.addr \in DOMAIN InitMem
  /\ ~c.dreq.valid => ~c.dreq.read

-----------------------------------------------------------------------------
(* What the assumption says of the constants.                              *)
LEMMA Constants ==
  /\ Modulus \in Nat \ {0} /\ Modulus % 2 = 0
  /\ Handler \in Nat /\ Handler < Modulus
  /\ 0 \in DOMAIN InitGp /\ 26 \in DOMAIN InitGp /\ 31 \in DOMAIN InitGp
  /\ 0 \in Words /\ Words \subseteq Nat
  /\ \A w \in Words : w % 4 = 0 <=> w \in DOMAIN InitMem
  /\ DOMAIN InitMem \subseteq Words
BY IssAssumption DEF Words

(* Of a number less than one modulus out of range, the remainder.          *)
LEMMA Remainder ==
  ASSUME NEW n \in Int, -Modulus <= n, n < 2 * Modulus
  PROVE  /\ n % Modulus \in Words
         /\ 0 <= n /\ n < Modulus => n % Modulus = n
         /\ n >= Modulus => n % Modulus = n - Modulus
         /\ n < 0 => n % Modulus = n + Modulus
BY Constants DEF Words

(* Adding a signed operand in a word, or adding it in a wider one.         *)
LEMMA SignedSum ==
  ASSUME NEW w \in Words, NEW imm \in Int
  PROVE  /\ LET sum == Signed(w) + imm IN
              sum < -(Modulus \div 2) \/ sum >= Modulus \div 2
                <=> ~(-Modulus <= 2 * sum /\ 2 * sum < Modulus)
         /\ -Modulus <= 2 * (Signed(w) + imm) /\ 2 * (Signed(w) + imm) < Modulus
              => (Signed(w) + imm) % Modulus = (w + imm) % Modulus
<1>1. PICK half \in Nat : Modulus = 2 * half /\ Modulus \div 2 = half
  BY Constants
<1>2. w \in Nat /\ w < Modulus
  BY Constants DEF Words
<1>3. \/ 2 * w < Modulus /\ Signed(w) = w
      \/ 2 * w >= Modulus /\ Signed(w) = w - Modulus
  BY <1>1, <1>2 DEF Signed
<1>4. ASSUME NEW sum \in Int, sum = Signed(w) + imm, -Modulus <= 2 * sum, 2 * sum < Modulus
      PROVE  sum % Modulus = (w + imm) % Modulus
  <2>1. CASE 2 * w < Modulus
    <3>1. sum = w + imm
      BY <1>1, <1>2, <1>3, <1>4, <2>1
    <3>. QED BY <3>1
  <2>2. CASE 2 * w >= Modulus
    <3>1. w + imm = sum + Modulus /\ -Modulus <= sum /\ sum < Modulus
      BY <1>1, <1>2, <1>3, <1>4, <2>2
    <3>2. sum % Modulus = IF sum < 0 THEN sum + Modulus ELSE sum
      BY <1>1, <1>4, <3>1, Remainder
    <3>3. (sum + Modulus) % Modulus = IF sum < 0 THEN sum + Modulus ELSE sum
      <4>1. PICK n \in Int : n = sum + Modulus
        BY <1>1, <1>4
      <4>2. -Modulus <= n /\ n < 2 * Modulus /\ (sum < 0 <=> n < Modulus) /\ n >= 0
        BY <1>1, <1>4, <3>1, <4>1
      <4>. QED BY <1>1, <1>4, <4>1, <4>2, Remainder
    <3>. QED BY <3>1, <3>2, <3>3
  <2>. QED BY <1>1, <1>2, <2>1, <2>2
<1>5. Signed(w) \in Int
  BY <1>1, <1>2, <1>3
<1>. QED BY <1>1, <1>4, <1>5

-----------------------------------------------------------------------------
(* What each instruction does to a processor without a request.            *)

(* Processor c is about to execute an instruction op.                      *)
Ready(c, m, op) ==
  /\ c \in Cpus /\ c.gp[0] = 0 /\ ~c.dreq.valid /\ ~c.dreq.read
  /\ m \in Memories /\ c.ins.op = op

(* Register 0 is clear, or interrupts are off.                             *)
ZeroKept(c) == c.gp[0] = 0 \/ ~c.ie

(* The instruction completes: the program goes on at n, and then at j,     *)
(* and sees the registers regs and the memory store.                       *)
Outcome(e, c, m, n, j, regs, store, exl) ==
  /\ e.exc = "none" /\ e.next = n /\ e.jump = j
  /\ RegsOf(e.cpu, m) = regs /\ StoreOf(e.cpu, m) = store
  /\ e.cpu \in Cpus /\ Posted(e.cpu) /\ ZeroKept(e.cpu)
  /\ e.cpu.pc = c.pc /\ e.cpu.npc = c.npc /\ e.cpu.epc = c.epc /\ e.cpu.exl = exl
  /\ e.cpu.dreq.valid => e.cpu.gp = c.gp

(* It traps instead.                                                       *)
Trapped(e, c) == e.exc # "none" /\ e.cpu = c /\ e.resume = c.pc

Fit(n) == -Modulus <= 2 * n /\ 2 * n < Modulus

(* Without a request, what the program sees is what the processor holds.   *)
LEMMA SeenReady ==
  ASSUME NEW c, NEW m, NEW op, Ready(c, m, op)
  PROVE  /\ RegsOf(c, m) = [x \in Seen |-> c.gp[x]] /\ StoreOf(c, m) = m
         /\ c.gp[c.ins.s] \in Words /\ c.gp[c.ins.t] \in Words
         /\ c.ins.imm \in Int /\ c.ins.s \in DOMAIN InitGp /\ c.ins.t \in DOMAIN InitGp
BY DEF Ready, RegsOf, StoreOf, Cpus, Instructions

(* Processor c with w in register x.                                       *)
Gp(c, x, w) == [c EXCEPT !.gp[x] = w]

(* Writing a register changes that register.                               *)
LEMMA SetGp ==
  ASSUME NEW c \in Cpus, NEW x \in DOMAIN InitGp, NEW w \in Words,
         NEW d, d = Gp(c, x, w)
  PROVE  /\ d \in Cpus /\ d.gp[x] = w
         /\ \A y \in DOMAIN InitGp : y # x => d.gp[y] = c.gp[y]
         /\ d.pc = c.pc /\ d.npc = c.npc /\ d.dreq = c.dreq /\ d.delay = c.delay
         /\ d.ins = c.ins /\ d.exl = c.exl /\ d.ie = c.ie /\ d.ip = c.ip /\ d.epc = c.epc
<1>1. c.gp \in [DOMAIN InitGp -> Words]
  BY DEF Cpus
<1>2. PICK gp \in [DOMAIN InitGp -> Words] : gp = [c.gp EXCEPT ![x] = w]
  BY <1>1
<1>3. d = [c EXCEPT !.gp = gp]
  BY <1>2 DEF Cpus, Gp
<1>4. d \in Cpus
  BY <1>3 DEF Cpus
<1>. QED BY <1>1, <1>2, <1>3, <1>4 DEF Cpus

(* The program sees a register written, and no other.                      *)
LEMMA SetSeen ==
  ASSUME NEW c, NEW m, NEW op, Ready(c, m, op), NEW x \in DOMAIN InitGp, NEW w \in Words,
         NEW d, d = Gp(c, x, w)
  PROVE  /\ RegsOf(d, m) = Written(RegsOf(c, m), x, w) /\ StoreOf(d, m) = m
         /\ Posted(d) /\ ~d.dreq.valid /\ (x # 0 => d.gp[0] = 0)
         /\ d \in Cpus /\ d.pc = c.pc /\ d.npc = c.npc /\ d.exl = c.exl /\ d.epc = c.epc
<1>1. /\ d \in Cpus /\ d.gp[x] = w /\ \A y \in DOMAIN InitGp : y # x => d.gp[y] = c.gp[y]
      /\ d.pc = c.pc /\ d.npc = c.npc /\ d.dreq = c.dreq /\ d.exl = c.exl /\ d.epc = c.epc
  BY SetGp DEF Ready
<1>2. c.gp[0] = 0 /\ 0 \in DOMAIN InitGp /\ ~d.dreq.valid /\ ~d.dreq.read
  BY <1>1, Constants DEF Ready
<1>3. RegsOf(d, m) = [y \in Seen |-> d.gp[y]]
  BY <1>2 DEF RegsOf
<1>4. RegsOf(c, m) = [y \in Seen |-> c.gp[y]]
  BY SeenReady
<1>5. \A y \in Seen : d.gp[y] = IF y = x THEN w ELSE c.gp[y]
  BY <1>1 DEF Seen
<1>6. RegsOf(d, m) = Written(RegsOf(c, m), x, w)
  BY <1>3, <1>4, <1>5 DEF Written
<1>. QED BY <1>1, <1>2, <1>6 DEF StoreOf, Posted

LEMMA RunAddi ==
  ASSUME NEW c, NEW m, Ready(c, m, "addi"), c.ins.t # 0, NEW e, e = run(c)
  PROVE  LET sum == Signed(c.gp[c.ins.s]) + c.ins.imm IN
         IF Fit(sum)
         THEN Outcome(e, c, m, c.npc, c.npc + 1,
                Written(RegsOf(c, m), c.ins.t, (c.gp[c.ins.s] + c.ins.imm) % Modulus), m, c.exl)
         ELSE Trapped(e, c)
<1>1. PICK s \in Words : s = c.gp[c.ins.s]
  BY SeenReady
<1>2. PICK sum \in Int : sum = Signed(s) + c.ins.imm
  BY <1>1, SeenReady, Constants DEF Signed
<1>3. e = op_addi(Start(c), s, c.ins.t, c.ins.imm)
  BY <1>1 DEF run, Ready
<1>4. CASE ~Fit(sum)
  <2>1. e = [Start(c) EXCEPT !.exc = "OV"]
    BY <1>2, <1>3, <1>4, SeenReady, SignedSum DEF op_addi, Raise, Fit
  <2>. QED BY <1>1, <1>2, <1>4, <2>1 DEF Trapped, Start
<1>5. CASE Fit(sum)
  <2>1. PICK w \in Words : w = sum % Modulus /\ w = (s + c.ins.imm) % Modulus
    <3>1. -Modulus <= sum /\ sum < 2 * Modulus
      BY <1>5, Constants DEF Fit
    <3>2. sum % Modulus \in Words
      BY <3>1, Remainder
    <3>3. sum % Modulus = (s + c.ins.imm) % Modulus
      BY <1>2, <1>5, SeenReady, SignedSum DEF Fit
    <3>. QED BY <3>2, <3>3
  <2>2. e = [Start(c) EXCEPT !.cpu.gp[c.ins.t] = w]
    BY <1>2, <1>3, <1>5, <2>1, SeenReady, SignedSum DEF op_addi, SetReg, Fit
  <2>3. /\ e.cpu = Gp(c, c.ins.t, w)
        /\ e.exc = "none" /\ e.next = c.npc /\ e.jump = c.npc + 1
    BY <2>2 DEF Start, Gp
  <2>4. PICK d : d = Gp(c, c.ins.t, w)
    OBVIOUS
  <2>5. /\ RegsOf(d, m) = Written(RegsOf(c, m), c.ins.t, w) /\ StoreOf(d, m) = m
        /\ Posted(d) /\ ~d.dreq.valid /\ d.gp[0] = 0
        /\ d \in Cpus /\ d.pc = c.pc /\ d.npc = c.npc /\ d.exl = c.exl /\ d.epc = c.epc
    BY <2>1, <2>4, SeenReady, SetSeen
  <2>. QED BY <1>1, <1>2, <1>5, <2>1, <2>3, <2>4, <2>5 DEF Outcome, ZeroKept
<1>. QED BY <1>1, <1>2, <1>4, <1>5

LEMMA RunMul ==
  ASSUME NEW c, NEW m, Ready(c, m, "mul"), c.ins.t # 0, NEW e, e = run(c)
  PROVE  Outcome(e, c, m, c.npc, c.npc + 1,
           Written(RegsOf(c, m), c.ins.t, (c.gp[c.ins.s] * c.gp[c.ins.t]) % Modulus), m, c.exl)
<1>0. PICK x \in DOMAIN InitGp : x = c.ins.t /\ x # 0
  BY SeenReady
<1>1. PICK s \in Words, t \in Words : s = c.gp[c.ins.s] /\ t = c.gp[c.ins.t]
  BY SeenReady
<1>2. PICK w \in Words : w = (s * t) % Modulus
  <2>1. PICK n \in Nat : n = s * t
    BY Constants
  <2>2. n % Modulus \in Words
    BY Constants DEF Words
  <2>. QED BY <2>1, <2>2
<1>3. e = special2_mul(Start(c), x, s, t)
  BY <1>0, <1>1 DEF run, Ready
<1>4. PICK d : d = Gp(c, x, w)
  OBVIOUS
<1>5. w \in Words
  BY <1>2
<1>6. /\ RegsOf(d, m) = Written(RegsOf(c, m), x, w) /\ StoreOf(d, m) = m
      /\ Posted(d) /\ ~d.dreq.valid /\ d.gp[0] = 0
      /\ d \in Cpus /\ d.pc = c.pc /\ d.npc = c.npc /\ d.exl = c.exl /\ d.epc = c.epc
  BY <1>0, <1>4, <1>5, SetSeen
<1>. DEFINE r == [cpu |-> d, next |-> c.npc, jump |-> c.npc + 1, resume |-> c.pc, exc |-> "none"]
<1>7. e = r \/ e = setInsDelay(r, 3)
  <2>1. SetReg(Start(c), x, w) = r
    BY <1>4 DEF SetReg, Start, Gp
  <2>2. SetReg(Start(c), x, (s * t) % Modulus) = r
    BY <1>2, <2>1
  <2>. QED BY <1>3, <2>2 DEF special2_mul
<1>8. /\ e.exc = "none" /\ e.next = c.npc /\ e.jump = c.npc + 1
      /\ e.cpu = d \/ e.cpu = [d EXCEPT !.delay = 2]
  <2>1. setInsDelay(r, 3) = [r EXCEPT !.cpu = [d EXCEPT !.delay = 2]]
    BY DEF setInsDelay
  <2>. QED BY <1>7, <2>1
<1>9. /\ e.cpu \in Cpus /\ e.cpu.gp = d.gp /\ e.cpu.dreq = d.dreq /\ e.cpu.pc = d.pc
      /\ e.cpu.npc = d.npc /\ e.cpu.epc = d.epc /\ e.cpu.exl = d.exl
  BY <1>6, <1>8 DEF Cpus
<1>10. RegsOf(e.cpu, m) = RegsOf(d, m) /\ StoreOf(e.cpu, m) = m /\ Posted(e.cpu)
  BY <1>6, <1>9 DEF RegsOf, StoreOf, Posted
<1>. QED BY <1>0, <1>1, <1>2, <1>6, <1>8, <1>9, <1>10 DEF Outcome, ZeroKept

LEMMA RunLw ==
  ASSUME NEW c, NEW m, Ready(c, m, "lw"), NEW e, e = run(c)
  PROVE  IF c.gp[c.ins.s] % 4 = 0
         THEN Outcome(e, c, m, c.npc, c.npc + 1,
                Written(RegsOf(c, m), c.ins.t, m[c.gp[c.ins.s]]), m, c.exl)
         ELSE Trapped(e, c)
<1>1. PICK s \in Words : s = c.gp[c.ins.s]
  BY SeenReady
<1>2. e = op_lw(Start(c), s, c.ins.t)
  BY <1>1 DEF run, Ready
<1>3. CASE s % 4 # 0
  <2>1. e = [Start(c) EXCEPT !.exc = "ADEL"]
    BY <1>2, <1>3 DEF op_lw, Raise
  <2>. QED BY <1>1, <1>3, <2>1 DEF Trapped, Start
<1>4. CASE s % 4 = 0
  <2>. DEFINE q == [valid |-> TRUE, read |-> TRUE, addr |-> s, wdata |-> 0, dest |-> c.ins.t]
  <2>1. q \in Reqs /\ s \in DOMAIN InitMem
    BY <1>4, SeenReady, Constants DEF Reqs
  <2>2. e = [Start(c) EXCEPT !.cpu.dreq = q]
    BY <1>2, <1>4 DEF op_lw, do_mem_access
  <2>. HIDE DEF q
  <2>3. /\ e.cpu = [c EXCEPT !.dreq = q]
        /\ e.exc = "none" /\ e.next = c.npc /\ e.jump = c.npc + 1
    BY <2>2 DEF Start
  <2>4. /\ e.cpu \in Cpus /\ e.cpu.gp = c.gp /\ e.cpu.dreq = q /\ e.cpu.pc = c.pc
        /\ e.cpu.npc = c.npc /\ e.cpu.epc = c.epc /\ e.cpu.exl = c.exl
    BY <2>1, <2>3 DEF Ready, Cpus
  <2>5. q.valid /\ q.read /\ q.addr = s /\ q.dest = c.ins.t
    BY DEF q
  <2>6. RegsOf(e.cpu, m) = [x \in Seen |-> IF c.ins.t = x THEN m[s] ELSE c.gp[x]]
    BY <2>4, <2>5 DEF RegsOf
  <2>7. Written(RegsOf(c, m), c.ins.t, m[s])
          = [x \in Seen |-> IF c.ins.t = x THEN m[s] ELSE c.gp[x]]
    BY SeenReady DEF Written
  <2>8. StoreOf(e.cpu, m) = m /\ Posted(e.cpu) /\ ZeroKept(e.cpu)
    BY <2>1, <2>4, <2>5 DEF StoreOf, Posted, ZeroKept, Ready
  <2>. QED BY <1>1, <1>4, <2>3, <2>4, <2>6, <2>7, <2>8 DEF Outcome
<1>. QED BY <1>1, <1>3, <1>4

LEMMA RunSw ==
  ASSUME NEW c, NEW m, Ready(c, m, "sw"), NEW e, e = run(c)
  PROVE  IF c.gp[c.ins.s] % 4 = 0
         THEN Outcome(e, c, m, c.npc, c.npc + 1, RegsOf(c, m),
                [m EXCEPT ![c.gp[c.ins.s]] = c.gp[c.ins.t]], c.exl)
         ELSE Trapped(e, c)
<1>1. PICK s \in Words, t \in Words : s = c.gp[c.ins.s] /\ t = c.gp[c.ins.t]
  BY SeenReady
<1>2. e = op_sw(Start(c), s, t)
  BY <1>1 DEF run, Ready
<1>3. CASE s % 4 # 0
  <2>1. e = [Start(c) EXCEPT !.exc = "ADES"]
    BY <1>2, <1>3 DEF op_sw, Raise
  <2>. QED BY <1>1, <1>3, <2>1 DEF Trapped, Start
<1>4. CASE s % 4 = 0
  <2>. DEFINE q == [valid |-> TRUE, read |-> FALSE, addr |-> s, wdata |-> t, dest |-> 0]
  <2>1. q \in Reqs /\ s \in DOMAIN InitMem
    BY <1>4, SeenReady, Constants DEF Reqs
  <2>2. e = [Start(c) EXCEPT !.cpu.dreq = q]
    BY <1>2, <1>4 DEF op_sw, do_mem_access
  <2>. HIDE DEF q
  <2>3. /\ e.cpu = [c EXCEPT !.dreq = q]
        /\ e.exc = "none" /\ e.next = c.npc /\ e.jump = c.npc + 1
    BY <2>2 DEF Start
  <2>4. /\ e.cpu \in Cpus /\ e.cpu.gp = c.gp /\ e.cpu.dreq = q /\ e.cpu.pc = c.pc
        /\ e.cpu.npc = c.npc /\ e.cpu.epc = c.epc /\ e.cpu.exl = c.exl
    BY <2>1, <2>3 DEF Ready, Cpus
  <2>5. q.valid /\ ~q.read /\ q.addr = s /\ q.wdata = t
    BY DEF q
  <2>6. RegsOf(e.cpu, m) = RegsOf(c, m)
    BY <2>4, <2>5, SeenReady DEF RegsOf
  <2>7. StoreOf(e.cpu, m) = [m EXCEPT ![s] = t] /\ Posted(e.cpu) /\ ZeroKept(e.cpu)
    BY <2>1, <2>4, <2>5 DEF StoreOf, Posted, ZeroKept, Ready
  <2>. QED BY <1>1, <1>4, <2>3, <2>4, <2>6, <2>7 DEF Outcome
<1>. QED BY <1>1, <1>3, <1>4

(* An instruction that writes no register and posts no request.            *)
LEMMA Quiet ==
  ASSUME NEW c, NEW m, NEW op, Ready(c, m, op), NEW e, e.exc = "none", e.cpu = c
  PROVE  Outcome(e, c, m, e.next, e.jump, RegsOf(c, m), m, c.exl)
BY SeenReady DEF Outcome, Ready, Posted, ZeroKept

LEMMA RunBeq ==
  ASSUME NEW c, NEW m, NEW op \in {"beq", "beql"}, Ready(c, m, op), NEW e, e = run(c)
  PROVE  IF c.gp[c.ins.s] = c.gp[c.ins.t]
         THEN Outcome(e, c, m, c.npc, c.npc + c.ins.imm, RegsOf(c, m), m, c.exl)
         ELSE IF op = "beq"
         THEN Outcome(e, c, m, c.npc, c.npc + 1, RegsOf(c, m), m, c.exl)
         ELSE Outcome(e, c, m, c.npc + 1, c.npc + 2, RegsOf(c, m), m, c.exl)
<1>1. e = jump_imm16(Start(c), c.gp[c.ins.s] = c.gp[c.ins.t], op = "beql")
  BY DEF run, Ready, op_beq
<1>2. CASE c.gp[c.ins.s] = c.gp[c.ins.t]
  <2>1. e = [Start(c) EXCEPT !.jump = c.npc + c.ins.imm]
    BY <1>1, <1>2 DEF jump_imm16, jump, Start
  <2>. QED BY <1>2, <2>1, Quiet DEF Start
<1>3. CASE c.gp[c.ins.s] # c.gp[c.ins.t] /\ op = "beq"
  <2>1. e = Start(c)
    BY <1>1, <1>3 DEF jump_imm16
  <2>. QED BY <1>3, <2>1, Quiet DEF Start
<1>4. CASE c.gp[c.ins.s] # c.gp[c.ins.t] /\ op = "beql"
  <2>1. e = [Start(c) EXCEPT !.next = c.npc + 1, !.jump = c.npc + 1 + 1]
    BY <1>1, <1>4 DEF jump_imm16, jump, Start
  <2>2. c.npc + 1 + 1 = c.npc + 2
    BY DEF Ready, Cpus
  <2>3. e.exc = "none" /\ e.cpu = c /\ e.next = c.npc + 1 /\ e.jump = c.npc + 2
    BY <2>1, <2>2 DEF Start
  <2>. QED BY <1>4, <2>3, Quiet
<1>. QED BY <1>2, <1>3, <1>4

LEMMA RunJal ==
  ASSUME NEW c, NEW m, Ready(c, m, "jal"), c.pc + 2 \in Words, NEW e, e = run(c)
  PROVE  Outcome(e, c, m, c.npc, c.ins.imm, Written(RegsOf(c, m), 31, c.pc + 2), m, c.exl)
<1>1. e = op_jal(Start(c), c.ins.imm)
  BY DEF run, Ready
<1>2. e = [[Start(c) EXCEPT !.cpu.gp[31] = c.pc + 2] EXCEPT !.jump = c.ins.imm]
  BY <1>1 DEF op_jal, SetReg, jump, Start
<1>3. /\ e.cpu = Gp(c, 31, c.pc + 2)
      /\ e.exc = "none" /\ e.next = c.npc /\ e.jump = c.ins.imm
  BY <1>2 DEF Start, Gp
<1>4. c \in Cpus /\ c.gp[0] = 0 /\ 0 \in DOMAIN InitGp /\ 31 \in DOMAIN InitGp /\ 31 # 0
  BY Constants DEF Ready
<1>5. PICK d : d = e.cpu
  OBVIOUS
<1>6. /\ RegsOf(d, m) = Written(RegsOf(c, m), 31, c.pc + 2) /\ StoreOf(d, m) = m
      /\ Posted(d) /\ ~d.dreq.valid /\ d.gp[0] = 0
      /\ d \in Cpus /\ d.pc = c.pc /\ d.npc = c.npc /\ d.exl = c.exl /\ d.epc = c.epc
  BY <1>3, <1>4, <1>5, SetSeen
<1>. QED BY <1>3, <1>5, <1>6 DEF Outcome, ZeroKept

LEMMA RunControl ==
  ASSUME NEW c, NEW m, NEW op \in {"nop", "mtc0", "di"}, Ready(c, m, op), NEW e, e = run(c)
  PROVE  Outcome(e, c, m, c.npc, c.npc + 1, RegsOf(c, m), m, c.exl)
<1>1. CASE op = "nop"
  <2>1. e = Start(c)
    BY <1>1 DEF run, Ready
  <2>. QED BY <2>1, Quiet DEF Start
<1>2. CASE op = "mtc0"
  <2>1. PICK pending \in BOOLEAN : e = [Start(c) EXCEPT !.cpu.ip = pending]
    BY <1>2 DEF run, Ready, cop0_mtc0
  <2>2. /\ e.cpu = [c EXCEPT !.ip = pending]
        /\ e.exc = "none" /\ e.next = c.npc /\ e.jump = c.npc + 1
    BY <2>1 DEF Start
  <2>3. /\ e.cpu \in Cpus /\ e.cpu.gp = c.gp /\ e.cpu.dreq = c.dreq /\ e.cpu.pc = c.pc
        /\ e.cpu.npc = c.npc /\ e.cpu.epc = c.epc /\ e.cpu.exl = c.exl
    BY <2>2 DEF Ready, Cpus
  <2>. QED BY <2>2, <2>3 DEF Outcome, Ready, RegsOf, StoreOf, Posted, ZeroKept
<1>3. CASE op = "di"
  <2>1. e = [[Start(c) EXCEPT !.cpu.gp[0] = 1] EXCEPT !.cpu.ie = FALSE]
    BY <1>3 DEF run, Ready, cop0_di, SetReg
  <2>2. PICK d : d = Gp(c, 0, 1)
    OBVIOUS
  <2>3. /\ e.cpu = [d EXCEPT !.ie = FALSE]
        /\ e.exc = "none" /\ e.next = c.npc /\ e.jump = c.npc + 1
    BY <2>1, <2>2 DEF Start, Gp
  <2>4. c \in Cpus /\ 0 \in DOMAIN InitGp /\ 1 \in Words
    BY Constants DEF Ready, Words
  <2>5. /\ RegsOf(d, m) = Written(RegsOf(c, m), 0, 1) /\ StoreOf(d, m) = m
        /\ Posted(d) /\ ~d.dreq.valid
        /\ d \in Cpus /\ d.pc = c.pc /\ d.npc = c.npc /\ d.exl = c.exl /\ d.epc = c.epc
    BY <2>2, <2>4, SetSeen
  <2>6. /\ e.cpu \in Cpus /\ e.cpu.gp = d.gp /\ e.cpu.dreq = d.dreq /\ e.cpu.pc = c.pc
        /\ e.cpu.npc = c.npc /\ e.cpu.epc = c.epc /\ e.cpu.exl = c.exl /\ ~e.cpu.ie
    BY <2>3, <2>5 DEF Cpus
  <2>7. RegsOf(e.cpu, m) = RegsOf(d, m) /\ StoreOf(e.cpu, m) = m /\ Posted(e.cpu)
        /\ ~e.cpu.dreq.valid
    BY <2>5, <2>6 DEF RegsOf, StoreOf, Posted
  <2>8. Written(RegsOf(c, m), 0, 1) = RegsOf(c, m)
    BY DEF Written, Seen
  <2>. QED BY <2>3, <2>5, <2>6, <2>7, <2>8 DEF Outcome, ZeroKept
<1>. QED BY <1>1, <1>2, <1>3

LEMMA RunEret ==
  ASSUME NEW c, NEW m, Ready(c, m, "eret"), c.exl, NEW e, e = run(c)
  PROVE  Outcome(e, c, m, c.epc, c.epc + 1, RegsOf(c, m), m, FALSE)
<1>1. e = [[Start(c) EXCEPT !.next = c.epc, !.jump = c.epc + 1] EXCEPT !.cpu.exl = FALSE]
  BY DEF run, Ready, cop0_eret, jump, Start
<1>2. /\ e.cpu = [c EXCEPT !.exl = FALSE]
      /\ e.exc = "none" /\ e.next = c.epc /\ e.jump = c.epc + 1
  BY <1>1 DEF Start
<1>3. /\ e.cpu \in Cpus /\ e.cpu.gp = c.gp /\ e.cpu.dreq = c.dreq /\ e.cpu.pc = c.pc
      /\ e.cpu.npc = c.npc /\ e.cpu.epc = c.epc /\ ~e.cpu.exl
  BY <1>2 DEF Ready, Cpus
<1>4. e.cpu.exl = FALSE
  BY <1>3 DEF Cpus
<1>. QED BY <1>2, <1>3, <1>4 DEF Outcome, Ready, RegsOf, StoreOf, Posted, ZeroKept

LEMMA RunSyscall ==
  ASSUME NEW c, NEW m, Ready(c, m, "syscall"), NEW e, e = run(c)
  PROVE  Trapped(e, c)
<1>1. e = [Start(c) EXCEPT !.exc = "SYS"]
  BY DEF run, Ready, Raise
<1>. QED BY <1>1 DEF Trapped, Start

-----------------------------------------------------------------------------
(* Where the simulator is in program p.                                    *)

TextOf(p) == CHOOSE S \in SUBSET (0 .. Handler - 1) : 0 \in S /\ Closed(p, S)

LastOf(p) ==
  CHOOSE h \in DOMAIN p :
    /\ Handler <= h /\ p[h].op = "eret"
    /\ \A a \in Handler .. h - 1 : a \in DOMAIN p /\ KeepsState(p[a])

Value(rg, x) == IF x \in Seen THEN rg[x] ELSE 0

(* With registers rg, the branch at a is taken, and a call leaves them.    *)
Retaken(p, a, rg) ==
  IF p[a].op = "jal" THEN Value(rg, 31) = a + 2 ELSE Value(rg, p[a].s) = Value(rg, p[a].t)

(* n is the delay slot of a branch to j.                                   *)
InSlot(p, n, j, rg) ==
  /\ n - 1 \in TextOf(p) /\ p[n - 1].op \in Branches
  /\ j = Target(p, n - 1) /\ j # n + 1 /\ n \in Int
  /\ Retaken(p, n - 1, rg)

(* The program goes on at n and then at j.                                 *)
Flow(p, n, j, rg) == (n \in TextOf(p) /\ j = n + 1) \/ InSlot(p, n, j, rg)

InHandler(p, n, j) == n \in Handler .. LastOf(p) /\ j = n + 1

(* Where to start for the program to go on at n and then at j.             *)
Restart(n, j) == IF j = n + 1 THEN n ELSE n - 1

(* Processor c executes the program, or the handler of a trap, or that of  *)
(* an interrupt that came before n and j, or again the branch before n.    *)
InProgram(p, c, rg, d) == d = NoDue /\ ~c.exl /\ Flow(p, c.pc, c.npc, rg)
InTrap(p, c, d) == d = NoDue /\ c.exl /\ InHandler(p, c.pc, c.npc) /\ c.epc \in TextOf(p)
InIrq(p, c, n, j) == c.exl /\ InHandler(p, c.pc, c.npc) /\ c.epc = Restart(n, j)
OnBranch(c, n, j) == ~c.exl /\ j # n + 1 /\ c.pc = n - 1 /\ c.npc = n

Place(p, c, rg, d) ==
  \/ InProgram(p, c, rg, d)
  \/ InTrap(p, c, d)
  \/ \E n, j : d = <<n, j>> /\ Flow(p, n, j, rg) /\ (InIrq(p, c, n, j) \/ OnBranch(c, n, j))

IssInv ==
  /\ program \in Programs
  /\ iss \in Cpus /\ iss.gp[0] = 0 /\ Posted(iss)
  /\ mem \in Memories
  /\ Place(program, iss, SeenGp, due)

-----------------------------------------------------------------------------
LEMMA TextFacts ==
  ASSUME NEW p \in Programs
  PROVE  /\ TextOf(p) \subseteq 0 .. Handler - 1 /\ 0 \in TextOf(p)
         /\ Closed(p, TextOf(p))
         /\ LastOf(p) \in DOMAIN p /\ LastOf(p) \in Nat
         /\ Handler <= LastOf(p) /\ p[LastOf(p)].op = "eret"
         /\ \A a \in Handler .. LastOf(p) - 1 : a \in DOMAIN p /\ KeepsState(p[a])
<1>1. \E S \in SUBSET (0 .. Handler - 1) : 0 \in S /\ Closed(p, S)
  BY ProgramAssumption
<1>2. TextOf(p) \in SUBSET (0 .. Handler - 1) /\ 0 \in TextOf(p) /\ Closed(p, TextOf(p))
  BY <1>1, Zenon DEF TextOf
<1>3. \E h \in DOMAIN p :
        /\ Handler <= h /\ p[h].op = "eret"
        /\ \A a \in Handler .. h - 1 : a \in DOMAIN p /\ KeepsState(p[a])
  BY ProgramAssumption
<1>4. /\ LastOf(p) \in DOMAIN p /\ Handler <= LastOf(p) /\ p[LastOf(p)].op = "eret"
      /\ \A a \in Handler .. LastOf(p) - 1 : a \in DOMAIN p /\ KeepsState(p[a])
  BY <1>3, Zenon DEF LastOf
<1>5. LastOf(p) \in Nat
  BY <1>4, IssAssumption
<1>. QED BY <1>2, <1>4, <1>5

(* Instructions of the program's text.                                     *)
LEMMA TextIns ==
  ASSUME NEW p \in Programs, NEW a \in TextOf(p)
  PROVE  /\ a \in Nat /\ a < Handler /\ a \in DOMAIN p /\ p[a] \in Instructions
         /\ p[a].op # "eret" /\ p[a].s # 26 /\ p[a].t # 26
         /\ p[a].op \notin Branches => a + 1 \in TextOf(p)
         /\ p[a].op \in Branches =>
              /\ a + 1 \in DOMAIN p /\ a + 1 < Handler /\ p[a + 1].op \notin Branches
              /\ p[a + 1] \in Instructions /\ p[a + 1].s # 26 /\ p[a + 1].t # 26
              /\ Target(p, a) \in TextOf(p) /\ Target(p, a) # a + 1
              /\ p[a].op = "beql" /\ ~AlwaysTaken(p[a]) => a + 2 \in TextOf(p)
              /\ Target(p, a) = a + 2 \/ (p[a].op = "beq" /\ ~AlwaysTaken(p[a]))
                   => a + 1 \in TextOf(p)
<1>1. a \in 0 .. Handler - 1 /\ Closed(p, TextOf(p))
  BY TextFacts
<1>2. a \in Nat /\ a < Handler /\ a \in DOMAIN p
  BY <1>1, Constants DEF Closed
<1>3. p[a] \in Instructions /\ p[a].op # "eret" /\ p[a].s # 26 /\ p[a].t # 26
  BY <1>2, IssAssumption
<1>4. p[a].op \in Branches =>
        /\ a + 1 \in DOMAIN p /\ a + 1 < Handler
        /\ Target(p, a) \in TextOf(p)
        /\ p[a].op = "beql" /\ ~AlwaysTaken(p[a]) => a + 2 \in TextOf(p)
        /\ Target(p, a) = a + 2 \/ (p[a].op = "beq" /\ ~AlwaysTaken(p[a]))
             => a + 1 \in TextOf(p)
  BY <1>1 DEF Closed
<1>5. ASSUME p[a].op \in Branches
      PROVE  /\ p[a + 1].op \notin Branches /\ p[a + 1] \in Instructions
             /\ p[a + 1].s # 26 /\ p[a + 1].t # 26
  <2>1. a + 1 \in DOMAIN p /\ a + 1 < Handler
    BY <1>4, <1>5
  <2>. QED BY <1>2, <1>3, <1>5, <2>1, IssAssumption
<1>6. ASSUME p[a].op \in Branches PROVE Target(p, a) # a + 1
  <2>1. /\ p[a].op \in {"beq", "beql"} => p[a].imm # 0
        /\ p[a].op = "jal" => p[a].imm # a + 1
        /\ p[a].imm \in Int
    BY <1>2, <1>3, IssAssumption DEF Instructions
  <2>. QED BY <1>2, <1>3, <1>6, <2>1 DEF Target, Branches
<1>. QED BY <1>1, <1>2, <1>3, <1>4, <1>5, <1>6 DEF Closed

(* Wherever the program goes on, there is an instruction of it.            *)
LEMMA FlowFacts ==
  ASSUME NEW p \in Programs, NEW n, NEW j, NEW rg, Flow(p, n, j, rg)
  PROVE  /\ n \in Nat /\ j \in Int /\ n < Handler /\ n # j /\ n \in DOMAIN p /\ j \in DOMAIN p
         /\ p[n] \in Instructions /\ p[n].op # "eret" /\ p[n].s # 26 /\ p[n].t # 26
         /\ p[n].op \in Branches => n \in TextOf(p) /\ j = n + 1
         /\ Restart(n, j) \in TextOf(p)
<1>1. CASE n \in TextOf(p) /\ j = n + 1
  <2>1. j \in DOMAIN p
    <3>1. CASE p[n].op \in Branches
      BY <1>1, <3>1, TextIns
    <3>2. CASE p[n].op \notin Branches
      <4>1. j \in TextOf(p)
        BY <1>1, <3>2, TextIns
      <4>. QED BY <4>1, TextIns
    <3>. QED BY <3>1, <3>2
  <2>. QED BY <1>1, <2>1, TextIns DEF Restart
<1>2. CASE InSlot(p, n, j, rg)
  <2>1. PICK a \in TextOf(p) : a = n - 1 /\ n = a + 1 /\ p[a].op \in Branches /\ j = Target(p, a)
                               /\ j # n + 1
    BY <1>2, TextIns DEF InSlot
  <2>2. /\ a \in Nat /\ n \in DOMAIN p /\ n < Handler /\ p[n].op \notin Branches
        /\ p[n] \in Instructions /\ p[n].s # 26 /\ p[n].t # 26 /\ j \in TextOf(p) /\ j # n
    BY <2>1, TextIns
  <2>3. j \in DOMAIN p /\ j \in Int
    BY <2>2, TextIns
  <2>4. p[n].op # "eret"
    BY <2>2 DEF Branches
  <2>. QED BY <2>1, <2>2, <2>3, <2>4 DEF Restart
<1>. QED BY <1>1, <1>2 DEF Flow

(* And in the handler.                                                     *)
LEMMA HandlerFacts ==
  ASSUME NEW p \in Programs, NEW n, NEW j, InHandler(p, n, j)
  PROVE  /\ n \in Nat /\ j = n + 1 /\ n >= Handler /\ n \in DOMAIN p /\ p[n] \in Instructions
         /\ p[n].op = "eret" \/ (KeepsState(p[n]) /\ InHandler(p, n + 1, n + 2))
<1>1. LastOf(p) \in Nat /\ Handler \in Nat /\ n \in Handler .. LastOf(p) /\ j = n + 1
  BY TextFacts, Constants DEF InHandler
<1>2. CASE n = LastOf(p)
  BY <1>1, <1>2, TextFacts, IssAssumption
<1>3. CASE n # LastOf(p)
  <2>1. n \in Handler .. LastOf(p) - 1 /\ n + 1 \in Handler .. LastOf(p)
    BY <1>1, <1>3
  <2>2. n \in DOMAIN p /\ KeepsState(p[n])
    BY <2>1, TextFacts
  <2>3. InHandler(p, n + 1, n + 2)
    BY <1>1, <2>1 DEF InHandler
  <2>. QED BY <1>1, <2>2, <2>3, IssAssumption
<1>. QED BY <1>2, <1>3

-----------------------------------------------------------------------------
(* The parts of a cycle, and what the program sees of them.                *)

Control(c, b) ==
  /\ c.pc = b.pc /\ c.npc = b.npc /\ c.exl = b.exl /\ c.ie = b.ie /\ c.ip = b.ip
  /\ c.epc = b.epc /\ c.delay = b.delay

(* Taking the responses changes nothing that the program sees.             *)
LEMMA LoadStep ==
  ASSUME IssInv, iss.pc \in DOMAIN program, NEW iOk \in BOOLEAN, NEW dOk \in BOOLEAN,
         NEW c, c = Loaded(iOk, dOk), NEW m, m = Stored(dOk)
  PROVE  /\ c \in Cpus /\ c.gp[0] = 0 /\ Posted(c) /\ m \in Memories
         /\ Control(c, iss)
         /\ RegsOf(c, m) = SeenGp /\ StoreOf(c, m) = SeenMem
         /\ iOk => c.ins = program[c.pc]
         /\ DreqOk(dOk) => ~c.dreq.valid /\ ~c.dreq.read
<1>1. PICK f : f = handle_ifetch(iss, iOk)
  OBVIOUS
<1>2. /\ iss \in Cpus /\ iss.gp[0] = 0 /\ Posted(iss) /\ mem \in Memories
      /\ program[iss.pc] \in Instructions
  BY IssAssumption DEF IssInv
<1>3. /\ f \in Cpus /\ f.gp = iss.gp /\ f.dreq = iss.dreq /\ Control(f, iss)
      /\ iOk => f.ins = program[f.pc]
  BY <1>1, <1>2 DEF handle_ifetch, Cpus, Control
<1>4. PICK q : q = iss.dreq
  OBVIOUS
<1>5. /\ q \in Reqs /\ q.dest \in DOMAIN InitGp /\ q.wdata \in Words
      /\ q.valid => q.addr \in DOMAIN InitMem
      /\ ~q.valid => ~q.read
  BY <1>2, <1>4 DEF Cpus, Reqs, Posted
<1>6. /\ SeenGp = [x \in Seen |-> IF q.read /\ q.dest = x THEN mem[q.addr] ELSE iss.gp[x]]
      /\ SeenMem = IF q.valid /\ ~q.read THEN [mem EXCEPT ![q.addr] = q.wdata] ELSE mem
  BY <1>4 DEF SeenGp, SeenMem, Seen
<1>7. CASE ~Answered(dOk)
  <2>1. c = f /\ m = mem
    BY <1>1, <1>7 DEF Loaded, Stored
  <2>2. RegsOf(c, m) = SeenGp /\ StoreOf(c, m) = SeenMem
    BY <1>3, <1>4, <1>6, <2>1 DEF RegsOf, StoreOf
  <2>3. Posted(c) /\ (DreqOk(dOk) => ~c.dreq.valid /\ ~c.dreq.read)
    BY <1>3, <1>4, <1>5, <1>7, <2>1 DEF Posted, DreqOk, Answered
  <2>. QED BY <1>2, <1>3, <2>1, <2>2, <2>3
<1>8. CASE Answered(dOk)
  <2>1. c = handle_dfetch(f) /\ q.valid
    BY <1>1, <1>4, <1>8 DEF Loaded, Answered
  <2>2. NoReq \in Reqs /\ ~NoReq.valid /\ ~NoReq.read
    BY Constants DEF NoReq, Reqs
  <2>3. PICK g : g = [f EXCEPT !.dreq = NoReq]
    OBVIOUS
  <2>4. /\ g \in Cpus /\ g.gp = iss.gp /\ g.dreq = NoReq /\ Control(g, iss)
        /\ iOk => g.ins = program[g.pc]
    BY <1>3, <2>2, <2>3 DEF Cpus, Control
  <2>5. c = IF q.read /\ q.dest # 0 THEN Gp(g, q.dest, mem[q.addr]) ELSE g
    BY <1>3, <1>4, <2>1, <2>3 DEF handle_dfetch, Gp
  <2>6. CASE q.read
    <3>1. m = mem /\ mem[q.addr] \in Words /\ SeenMem = mem
      BY <1>2, <1>4, <1>5, <1>6, <1>8, <2>1, <2>6 DEF Stored, Memories
    <3>2. PICK w \in Words : w = mem[q.addr]
      BY <3>1
    <3>3. CASE q.dest = 0
      <4>1. c = g
        BY <2>5, <3>3
      <4>2. RegsOf(c, m) = SeenGp /\ StoreOf(c, m) = SeenMem /\ Posted(c)
        BY <1>6, <2>2, <2>4, <3>1, <3>3, <4>1 DEF RegsOf, StoreOf, Posted, Seen
      <4>. QED BY <1>2, <2>2, <2>4, <3>1, <4>1, <4>2
    <3>4. CASE q.dest # 0
      <4>1. c = Gp(g, q.dest, w)
        BY <2>5, <2>6, <3>2, <3>4
      <4>2. Ready(g, m, g.ins.op)
        BY <1>2, <2>2, <2>4, <3>1 DEF Ready
      <4>3. /\ RegsOf(c, m) = Written(RegsOf(g, m), q.dest, w) /\ StoreOf(c, m) = m
            /\ Posted(c) /\ ~c.dreq.valid /\ c.gp[0] = 0
            /\ c \in Cpus /\ c.pc = g.pc /\ c.npc = g.npc /\ c.exl = g.exl /\ c.epc = g.epc
        BY <1>5, <3>4, <4>1, <4>2, SetSeen
      <4>4. RegsOf(g, m) = [x \in Seen |-> iss.gp[x]]
        BY <2>4, <4>2, SeenReady
      <4>5. SeenGp = [x \in Seen |-> IF q.dest = x THEN w ELSE iss.gp[x]]
        BY <1>6, <2>6, <3>2
      <4>6. RegsOf(c, m) = SeenGp
        BY <4>3, <4>4, <4>5 DEF Written
      <4>7. Control(c, iss) /\ c.ins = g.ins /\ c.dreq = g.dreq
        BY <1>5, <2>4, <4>1, SetGp DEF Control
      <4>. QED BY <1>2, <2>2, <2>4, <3>1, <4>3, <4>6, <4>7 DEF Control
    <3>. QED BY <3>3, <3>4
  <2>7. CASE ~q.read
    <3>1. c = g /\ m = [mem EXCEPT ![q.addr] = q.wdata] /\ SeenMem = m
      BY <1>4, <1>6, <1>8, <2>1, <2>5, <2>7 DEF Stored
    <3>2. m \in Memories
      BY <1>2, <1>5, <3>1 DEF Memories
    <3>3. RegsOf(c, m) = SeenGp /\ StoreOf(c, m) = SeenMem /\ Posted(c)
      BY <1>6, <2>2, <2>4, <2>7, <3>1 DEF RegsOf, StoreOf, Posted
    <3>. QED BY <1>2, <2>2, <2>4, <3>1, <3>2, <3>3
  <2>. QED BY <2>6, <2>7
<1>. QED BY <1>7, <1>8

(* The program does not see register 0 cleared.                            *)
LEMMA SetUnseen ==
  ASSUME NEW c \in Cpus, NEW x \in DOMAIN InitGp \ Seen, NEW w \in Words,
         NEW d, d = Gp(c, x, w), NEW m
  PROVE  RegsOf(d, m) = RegsOf(c, m) /\ StoreOf(d, m) = StoreOf(c, m) /\ d.gp[x] = w
<1>1. /\ d.gp[x] = w /\ \A y \in DOMAIN InitGp : y # x => d.gp[y] = c.gp[y]
      /\ d.dreq = c.dreq
  BY SetGp
<1>2. \A y \in Seen : d.gp[y] = c.gp[y]
  BY <1>1 DEF Seen
<1>. QED BY <1>1, <1>2 DEF RegsOf, StoreOf

(* Going on to the next instruction.                                       *)
LEMMA CommitSeen ==
  ASSUME NEW e, e.cpu \in Cpus, Posted(e.cpu), e.next \in Int, e.jump \in Int,
         NEW m, NEW d, d = Commit(e)
  PROVE  /\ d \in Cpus /\ d.gp[0] = 0 /\ Posted(d)
         /\ RegsOf(d, m) = RegsOf(e.cpu, m) /\ StoreOf(d, m) = StoreOf(e.cpu, m)
         /\ d.pc = e.next /\ d.npc = e.jump /\ d.exl = e.cpu.exl /\ d.epc = e.cpu.epc
<1>1. PICK g : g = [e.cpu EXCEPT !.pc = e.next, !.npc = e.jump]
  OBVIOUS
<1>2. /\ g \in Cpus /\ g.gp = e.cpu.gp /\ g.dreq = e.cpu.dreq
      /\ g.pc = e.next /\ g.npc = e.jump /\ g.exl = e.cpu.exl /\ g.epc = e.cpu.epc
  BY <1>1 DEF Cpus
<1>3. d = Gp(g, 0, 0)
  BY <1>1 DEF Commit, Gp, Cpus
<1>4. 0 \in DOMAIN InitGp \ Seen /\ 0 \in Words
  BY Constants DEF Seen
<1>5. /\ d \in Cpus /\ d.pc = g.pc /\ d.npc = g.npc /\ d.dreq = g.dreq /\ d.exl = g.exl
      /\ d.epc = g.epc
  BY <1>2, <1>3, <1>4, SetGp
<1>6. RegsOf(d, m) = RegsOf(g, m) /\ StoreOf(d, m) = StoreOf(g, m) /\ d.gp[0] = 0
  BY <1>2, <1>3, <1>4, SetUnseen
<1>7. RegsOf(g, m) = RegsOf(e.cpu, m) /\ StoreOf(g, m) = StoreOf(e.cpu, m)
  BY <1>2 DEF RegsOf, StoreOf
<1>. QED BY <1>2, <1>5, <1>6, <1>7 DEF Posted

(* Going to the handler.                                                   *)
EpcAfter(e) ==
  IF e.cpu.exl THEN e.cpu.epc
  ELSE IF e.resume = e.cpu.pc THEN Restart(e.resume, e.cpu.npc)
  ELSE IF e.next + 1 # e.jump THEN e.resume - 1 ELSE e.resume

LEMMA ExceptSeen ==
  ASSUME NEW e, e.cpu \in Cpus, Posted(e.cpu), e.cpu.gp[0] = 0,
         e.resume \in Int, NEW m, NEW d, d = handle_exception(e)
  PROVE  /\ d \in Cpus /\ d.gp[0] = 0 /\ Posted(d)
         /\ RegsOf(d, m) = RegsOf(e.cpu, m) /\ StoreOf(d, m) = StoreOf(e.cpu, m)
         /\ d.pc = Handler /\ d.npc = Handler + 1 /\ d.exl = TRUE
         /\ d.epc = EpcAfter(e)
<1>1. PICK epc \in Int :
        /\ d = [e.cpu EXCEPT !.epc = epc, !.exl = TRUE, !.pc = Handler, !.npc = Handler + 1]
        /\ epc = EpcAfter(e)
  <2>. DEFINE taken == IF e.resume = e.cpu.pc THEN e.cpu.pc + 1 # e.cpu.npc ELSE e.next + 1 # e.jump
              epc == IF e.cpu.exl THEN e.cpu.epc ELSE e.resume - (IF taken THEN 1 ELSE 0)
  <2>1. d = [e.cpu EXCEPT !.epc = epc, !.exl = TRUE, !.pc = Handler, !.npc = Handler + 1]
    BY DEF handle_exception
  <2>2. e.cpu.epc \in Int /\ e.cpu.pc \in Int /\ e.cpu.npc \in Int
    BY DEF Cpus
  <2>3. epc \in Int
    BY <2>2
  <2>4. epc = EpcAfter(e)
    BY <2>2 DEF Restart, EpcAfter
  <2>. HIDE DEF epc
  <2>. QED BY <2>1, <2>3, <2>4
<1>2. /\ d \in Cpus /\ d.gp = e.cpu.gp /\ d.dreq = e.cpu.dreq
      /\ d.pc = Handler /\ d.npc = Handler + 1 /\ d.exl = TRUE /\ d.epc = epc
  <2>1. Handler \in Int /\ Handler + 1 \in Int
    BY Constants
  <2>2. d \in Cpus
    BY <1>1, <2>1 DEF Cpus
  <2>. QED BY <1>1, <2>2 DEF Cpus
<1>3. RegsOf(d, m) = RegsOf(e.cpu, m) /\ StoreOf(d, m) = StoreOf(e.cpu, m) /\ Posted(d)
  BY <1>2 DEF RegsOf, StoreOf, Posted
<1>. QED BY <1>1, <1>2, <1>3

-----------------------------------------------------------------------------
(* Instructions of the program are steps of the sequential processor.      *)

MipsPc  == IF due = NoDue THEN iss.pc ELSE due[1]
MipsNpc == IF due = NoDue THEN iss.npc ELSE due[2]
MipsEpc == IF SeenExl THEN iss.epc ELSE NoEpc
MipsIns == program[MipsPc]
MipsS   == Value(SeenGp, MipsIns.s)
MipsT   == Value(SeenGp, MipsIns.t)

(* The sequential processor goes to these registers, memory and addresses. *)
GoesTo(regs, store, n, j) ==
  /\ SeenGp' = regs /\ SeenMem' = store /\ MipsPc' = n /\ MipsNpc' = j
  /\ UNCHANGED program

SameLevel == SeenExl' = SeenExl /\ MipsEpc' = MipsEpc

(* The definitions of MipsIsa, in the terms of this module.                *)
LEMMA MipsTerms ==
  ASSUME NEW regs, NEW store, NEW n, NEW j, GoesTo(regs, store, n, j)
  PROVE  /\ \A x : Mips!Reg(x) = Value(SeenGp, x)
         /\ \A x, w : Mips!Write(x, w) <=> regs = Written(SeenGp, x, w)
         /\ \A w : Mips!Signed(w) = Signed(w)
         /\ \A w : Mips!Fits(w) <=> Fit(w)
         /\ Mips!Ins = MipsIns /\ \A ops : Mips!Is(ops) <=> MipsIns.op \in ops
         /\ \A a : Mips!Goto(a) <=> n = MipsNpc /\ j = a
         /\ Mips!Advance <=> n = MipsNpc /\ j = MipsNpc + 1
         /\ SameLevel => Mips!NoTrap
<1>1. /\ \A x : Mips!Reg(x) = Value(SeenGp, x)
      /\ \A x, w : Mips!Write(x, w) <=> regs = Written(SeenGp, x, w)
      /\ \A w : Mips!Signed(w) = Signed(w)
      /\ \A w : Mips!Fits(w) <=> Fit(w)
  BY DEF Mips!Reg, Mips!Write, Mips!Seen, Mips!Signed, Mips!Fits, Signed, Fit, Value, Written, Seen,
         GoesTo
<1>2. Mips!Ins = MipsIns /\ \A ops : Mips!Is(ops) <=> MipsIns.op \in ops
  BY DEF Mips!Ins, Mips!Is, MipsPc, MipsIns
<1>3. \A a : Mips!Goto(a) <=> n = MipsNpc /\ j = a
  BY DEF Mips!Goto, MipsPc, MipsNpc, GoesTo
<1>4. Mips!Advance <=> n = MipsNpc /\ j = MipsNpc + 1
  BY <1>3 DEF Mips!Advance, MipsNpc
<1>5. SameLevel => Mips!NoTrap
  BY DEF Mips!NoTrap, SameLevel, MipsEpc
<1>. QED BY <1>1, <1>2, <1>3, <1>4, <1>5

LEMMA MipsAddi ==
  ASSUME MipsIns.op = "addi", Fit(Signed(MipsS) + MipsIns.imm), SameLevel,
         GoesTo(Written(SeenGp, MipsIns.t, (MipsS + MipsIns.imm) % Modulus), SeenMem,
                MipsNpc, MipsNpc + 1)
  PROVE  Mips!Next
<1>1. PICK regs : regs = Written(SeenGp, MipsIns.t, (MipsS + MipsIns.imm) % Modulus)
  OBVIOUS
<1>. QED BY <1>1, MipsTerms DEF Mips!Next, Mips!Arithmetic, GoesTo, MipsS

LEMMA MipsMul ==
  ASSUME MipsIns.op = "mul", SameLevel,
         GoesTo(Written(SeenGp, MipsIns.t, (MipsS * MipsT) % Modulus), SeenMem,
                MipsNpc, MipsNpc + 1)
  PROVE  Mips!Next
<1>1. PICK regs : regs = Written(SeenGp, MipsIns.t, (MipsS * MipsT) % Modulus)
  OBVIOUS
<1>. QED BY <1>1, MipsTerms DEF Mips!Next, Mips!Arithmetic, GoesTo, MipsS, MipsT

LEMMA MipsLw ==
  ASSUME MipsIns.op = "lw", MipsS % 4 = 0, SameLevel,
         GoesTo(Written(SeenGp, MipsIns.t, SeenMem[MipsS]), SeenMem, MipsNpc, MipsNpc + 1)
  PROVE  Mips!Next
<1>1. PICK regs : regs = Written(SeenGp, MipsIns.t, SeenMem[MipsS])
  OBVIOUS
<1>. QED BY <1>1, MipsTerms DEF Mips!Next, Mips!Load, GoesTo, MipsS

LEMMA MipsSw ==
  ASSUME MipsIns.op = "sw", MipsS % 4 = 0, SameLevel,
         GoesTo(SeenGp, [SeenMem EXCEPT ![MipsS] = MipsT], MipsNpc, MipsNpc + 1)
  PROVE  Mips!Next
BY MipsTerms DEF Mips!Next, Mips!Store, GoesTo, MipsS, MipsT

LEMMA MipsBranch ==
  ASSUME MipsIns.op \in {"beq", "beql"}, SameLevel, NEW n, NEW j,
         GoesTo(SeenGp, SeenMem, n, j),
         \/ MipsS = MipsT /\ n = MipsNpc /\ j = MipsPc + 1 + MipsIns.imm
         \/ MipsS # MipsT /\ MipsIns.op = "beq" /\ n = MipsNpc /\ j = MipsNpc + 1
         \/ MipsS # MipsT /\ MipsIns.op = "beql" /\ n = MipsPc + 2 /\ j = MipsPc + 3
  PROVE  Mips!Next
BY MipsTerms DEF Mips!Next, Mips!Branch, GoesTo, MipsS, MipsT, MipsPc, MipsNpc

LEMMA MipsJal ==
  ASSUME MipsIns.op = "jal", SameLevel,
         GoesTo(Written(SeenGp, 31, MipsPc + 2), SeenMem, MipsNpc, MipsIns.imm)
  PROVE  Mips!Next
BY MipsTerms DEF Mips!Next, Mips!Call, GoesTo, MipsPc

LEMMA MipsControl ==
  ASSUME MipsIns.op \in {"nop", "mtc0", "di"}, SameLevel,
         GoesTo(SeenGp, SeenMem, MipsNpc, MipsNpc + 1)
  PROVE  Mips!Next
BY MipsTerms DEF Mips!Next, Mips!InterruptControl, GoesTo

LEMMA MipsEret ==
  ASSUME MipsIns.op = "eret", SeenExl, ~SeenExl',
         GoesTo(SeenGp, SeenMem, MipsEpc, MipsEpc + 1)
  PROVE  Mips!Next
<1>1. SeenExl' = FALSE /\ MipsEpc' = NoEpc
  BY DEF SeenExl, MipsEpc
<1>. QED BY <1>1, MipsTerms
  DEF Mips!Next, Mips!Return, Mips!NoEpc, NoEpc, GoesTo, MipsPc, MipsNpc, MipsEpc

LEMMA MipsTrap ==
  ASSUME \/ MipsIns.op = "syscall"
         \/ MipsIns.op \in {"lw", "sw"} /\ MipsS % 4 # 0
         \/ MipsIns.op = "addi" /\ ~Fit(Signed(MipsS) + MipsIns.imm),
         ~SeenExl, SeenExl' = TRUE, MipsEpc' = Restart(MipsPc, MipsNpc),
         GoesTo(SeenGp, SeenMem, Handler, Handler + 1)
  PROVE  Mips!Next
BY MipsTerms DEF Mips!Next, Mips!Trap, GoesTo, MipsPc, MipsNpc, MipsEpc, MipsS, Restart

-----------------------------------------------------------------------------
(* What instruction i at address a, followed by b, does to registers rg    *)
(* and memory st: the program goes on at n, and then at j.                 *)

Does(i, a, b, rg, st, n, j, regs, store) ==
  \/ /\ i.op = "addi" /\ Fit(Signed(Value(rg, i.s)) + i.imm)
     /\ regs = Written(rg, i.t, (Value(rg, i.s) + i.imm) % Modulus)
     /\ store = st /\ n = b /\ j = b + 1
  \/ /\ i.op = "mul" /\ regs = Written(rg, i.t, (Value(rg, i.s) * Value(rg, i.t)) % Modulus)
     /\ store = st /\ n = b /\ j = b + 1
  \/ /\ i.op = "lw" /\ Value(rg, i.s) % 4 = 0
     /\ regs = Written(rg, i.t, st[Value(rg, i.s)])
     /\ store = st /\ n = b /\ j = b + 1
  \/ /\ i.op = "sw" /\ Value(rg, i.s) % 4 = 0
     /\ store = [st EXCEPT ![Value(rg, i.s)] = Value(rg, i.t)]
     /\ regs = rg /\ n = b /\ j = b + 1
  \/ /\ i.op \in {"beq", "beql"} /\ regs = rg /\ store = st
     /\ \/ Value(rg, i.s) = Value(rg, i.t) /\ n = b /\ j = a + 1 + i.imm
        \/ Value(rg, i.s) # Value(rg, i.t) /\ i.op = "beq" /\ n = b /\ j = b + 1
        \/ Value(rg, i.s) # Value(rg, i.t) /\ i.op = "beql" /\ n = a + 2 /\ j = a + 3
  \/ /\ i.op = "jal" /\ regs = Written(rg, 31, a + 2)
     /\ store = st /\ n = b /\ j = i.imm
  \/ /\ i.op \in {"nop", "mtc0", "di"} /\ regs = rg
     /\ store = st /\ n = b /\ j = b + 1

Traps(i, rg) ==
  \/ i.op = "syscall"
  \/ i.op \in {"lw", "sw"} /\ Value(rg, i.s) % 4 # 0
  \/ i.op = "addi" /\ ~Fit(Signed(Value(rg, i.s)) + i.imm)

LEMMA MipsDoes ==
  ASSUME NEW n, NEW j, NEW regs, NEW store, GoesTo(regs, store, n, j), SameLevel,
         Does(MipsIns, MipsPc, MipsNpc, SeenGp, SeenMem, n, j, regs, store)
  PROVE  Mips!Next
<1>1. CASE MipsIns.op = "addi"
  BY <1>1, MipsAddi DEF Does, MipsS
<1>2. CASE MipsIns.op = "mul"
  BY <1>2, MipsMul DEF Does, MipsS, MipsT
<1>3. CASE MipsIns.op = "lw"
  BY <1>3, MipsLw DEF Does, MipsS
<1>4. CASE MipsIns.op = "sw"
  BY <1>4, MipsSw DEF Does, MipsS, MipsT
<1>5. CASE MipsIns.op \in {"beq", "beql"}
  BY <1>5, MipsBranch DEF Does, MipsS, MipsT
<1>6. CASE MipsIns.op = "jal"
  BY <1>6, MipsJal DEF Does
<1>7. CASE MipsIns.op \in {"nop", "mtc0", "di"}
  BY <1>7, MipsControl DEF Does
<1>. QED BY <1>1, <1>2, <1>3, <1>4, <1>5, <1>6, <1>7 DEF Does

(* The program sees the operands of its instructions.                      *)
LEMMA Operand ==
  ASSUME NEW c, NEW m, NEW op, Ready(c, m, op), NEW x \in DOMAIN InitGp, x # 26
  PROVE  Value(RegsOf(c, m), x) = c.gp[x]
BY SeenReady DEF Value, Seen, Ready

(* The program goes on after an instruction that is not a branch.          *)
LEMMA Straight ==
  ASSUME NEW p \in Programs, NEW n, NEW j, NEW rg, Flow(p, n, j, rg), p[n].op \notin Branches,
         NEW regs
  PROVE  Flow(p, j, j + 1, regs)
<1>1. CASE n \in TextOf(p) /\ j = n + 1
  BY <1>1, TextIns DEF Flow
<1>2. CASE InSlot(p, n, j, rg)
  <2>1. n - 1 \in TextOf(p) /\ p[n - 1].op \in Branches /\ j = Target(p, n - 1)
    BY <1>2 DEF InSlot
  <2>2. j \in TextOf(p)
    BY <2>1, TextIns
  <2>. QED BY <2>2 DEF Flow
<1>. QED BY <1>1, <1>2 DEF Flow

(* Processor c is at an instruction of p.                                  *)
At(p, c, m) == Ready(c, m, p[c.pc].op) /\ c.ins = p[c.pc]

(* What the instruction does to the processor.                             *)
Stepped(e, c, m, n, j, regs, store) ==
  /\ Outcome(e, c, m, n, j, regs, store, c.exl)
  /\ Does(c.ins, c.pc, c.npc, RegsOf(c, m), m, n, j, regs, store)

(* An instruction of the program that is not a branch.                     *)
LEMMA PlainStep ==
  ASSUME NEW p \in Programs, NEW c, NEW m, At(p, c, m),
         p[c.pc] \in Instructions, p[c.pc].op \notin Branches,
         p[c.pc].s # 26, p[c.pc].t # 26, NEW e, e = run(c),
         p[c.pc].op \in {"addi", "mul"} => p[c.pc].t # 0
  PROVE  \/ Trapped(e, c) /\ Traps(c.ins, RegsOf(c, m))
         \/ \E regs, store : Stepped(e, c, m, c.npc, c.npc + 1, regs, store)
<1>1. PICK i \in Instructions : i = c.ins /\ i.s # 26 /\ i.t # 26 /\ Ready(c, m, i.op)
  BY DEF At
<1>2. PICK rg : rg = RegsOf(c, m)
  OBVIOUS
<1>3. /\ i.s \in DOMAIN InitGp /\ i.t \in DOMAIN InitGp
      /\ Value(rg, i.s) = c.gp[i.s] /\ Value(rg, i.t) = c.gp[i.t]
  BY <1>1, <1>2, Operand DEF Instructions
<1>4. CASE i.op = "addi"
  BY <1>1, <1>2, <1>3, <1>4, RunAddi DEF At, Stepped, Does, Traps
<1>5. CASE i.op = "mul"
  BY <1>1, <1>2, <1>3, <1>5, RunMul DEF At, Stepped, Does
<1>6. CASE i.op = "lw"
  BY <1>1, <1>2, <1>3, <1>6, RunLw DEF At, Stepped, Does, Traps
<1>7. CASE i.op = "sw"
  BY <1>1, <1>2, <1>3, <1>7, RunSw DEF At, Stepped, Does, Traps
<1>8. CASE i.op = "syscall"
  BY <1>1, <1>2, <1>3, <1>8, RunSyscall DEF At, Traps
<1>9. CASE i.op \in {"nop", "mtc0", "di"}
  BY <1>1, <1>2, <1>3, <1>9, RunControl DEF At, Stepped, Does
<1>. QED BY <1>1, <1>4, <1>5, <1>6, <1>7, <1>8, <1>9 DEF Instructions, Branches, At

(* The program's registers hold words, register 31 among them.             *)
LEMMA SeenWords ==
  ASSUME NEW c, NEW m, NEW op, Ready(c, m, op)
  PROVE  31 \in Seen /\ RegsOf(c, m) \in [Seen -> Words]
<1>1. 31 \in Seen
  BY Constants DEF Seen
<1>2. c.gp \in [DOMAIN InitGp -> Words]
  BY DEF Ready, Cpus
<1>3. [x \in Seen |-> c.gp[x]] \in [Seen -> Words]
  BY <1>2 DEF Seen
<1>. QED BY <1>1, <1>3, SeenReady

(* A branch of the program, in its text.                                   *)
LEMMA BranchStep ==
  ASSUME NEW p \in Programs, NEW c, NEW m, At(p, c, m),
         c.pc \in TextOf(p), c.npc = c.pc + 1, p[c.pc].op \in Branches, NEW e, e = run(c)
  PROVE  \E n, j, regs : /\ Stepped(e, c, m, n, j, regs, m) /\ Flow(p, n, j, regs)
                         /\ n # c.pc
<1>1. PICK a \in TextOf(p) : a = c.pc /\ a \in Nat /\ a + 1 < Handler
  BY TextIns
<1>2. PICK i \in Instructions :
        /\ i = c.ins /\ i = p[a] /\ i.s # 26 /\ i.t # 26 /\ Ready(c, m, i.op)
        /\ i.op \in {"beq", "beql", "jal"}
  BY <1>1, TextIns DEF At, Branches
<1>3. PICK rg : rg = RegsOf(c, m)
  OBVIOUS
<1>4. /\ i.s \in DOMAIN InitGp /\ i.t \in DOMAIN InitGp /\ i.imm \in Int
      /\ Value(rg, i.s) = c.gp[i.s] /\ Value(rg, i.t) = c.gp[i.t]
  BY <1>2, <1>3, Operand DEF Instructions
<1>5. /\ Target(p, a) \in TextOf(p) /\ Target(p, a) \in Nat
      /\ i.op = "beql" /\ ~AlwaysTaken(i) => a + 2 \in TextOf(p)
      /\ Target(p, a) = a + 2 \/ (i.op = "beq" /\ ~AlwaysTaken(i)) => a + 1 \in TextOf(p)
  BY <1>1, <1>2, TextIns DEF Branches
<1>6. Target(p, a) = IF i.op = "jal" THEN i.imm ELSE a + 1 + i.imm
  BY <1>2 DEF Target
<1>7. ASSUME NEW regs, Retaken(p, a, regs)
      PROVE  Flow(p, a + 1, Target(p, a), regs)
  <2>1. CASE Target(p, a) = a + 2
    BY <1>1, <1>5, <2>1 DEF Flow
  <2>2. CASE Target(p, a) # a + 2
    BY <1>1, <1>2, <1>7, <2>2 DEF Flow, InSlot, Branches
  <2>. QED BY <2>1, <2>2
<1>8. CASE i.op \in {"beq", "beql"} /\ c.gp[i.s] = c.gp[i.t]
  <2>1. Outcome(e, c, m, a + 1, Target(p, a), rg, m, c.exl)
    <3>1. c.npc + i.imm = Target(p, a)
      BY <1>1, <1>6, <1>8
    <3>. QED BY <1>1, <1>2, <1>3, <1>8, <3>1, RunBeq
  <2>2. Does(i, a, a + 1, rg, m, a + 1, Target(p, a), rg, m)
    BY <1>4, <1>6, <1>8 DEF Does
  <2>3. Retaken(p, a, rg)
    BY <1>2, <1>4, <1>8 DEF Retaken
  <2>. QED BY <1>1, <1>2, <1>3, <1>7, <2>1, <2>2, <2>3 DEF Stepped
<1>9. CASE i.op = "beq" /\ c.gp[i.s] # c.gp[i.t]
  <2>1. Outcome(e, c, m, a + 1, a + 2, rg, m, c.exl)
    <3>1. c.npc + 1 = a + 2
      BY <1>1
    <3>. QED BY <1>1, <1>2, <1>3, <1>9, <3>1, RunBeq
  <2>2. Does(i, a, a + 1, rg, m, a + 1, a + 2, rg, m)
    BY <1>1, <1>4, <1>9 DEF Does
  <2>3. Flow(p, a + 1, a + 2, rg)
    BY <1>1, <1>5, <1>9 DEF AlwaysTaken, Flow
  <2>. QED BY <1>1, <1>2, <1>3, <2>1, <2>2, <2>3 DEF Stepped
<1>10. CASE i.op = "beql" /\ c.gp[i.s] # c.gp[i.t]
  <2>1. Outcome(e, c, m, a + 2, a + 3, rg, m, c.exl)
    <3>1. c.npc + 1 = a + 2 /\ c.npc + 2 = a + 3
      BY <1>1
    <3>. QED BY <1>1, <1>2, <1>3, <1>10, <3>1, RunBeq
  <2>2. Does(i, a, a + 1, rg, m, a + 2, a + 3, rg, m)
    BY <1>4, <1>10 DEF Does
  <2>3. Flow(p, a + 2, a + 3, rg)
    BY <1>1, <1>5, <1>10 DEF AlwaysTaken, Flow
  <2>. QED BY <1>1, <1>2, <1>3, <2>1, <2>2, <2>3 DEF Stepped
<1>11. CASE i.op = "jal"
  <2>1. a + 2 \in Words
    BY <1>1, Constants DEF Words
  <2>2. PICK regs : regs = Written(rg, 31, a + 2)
    OBVIOUS
  <2>3. Outcome(e, c, m, a + 1, Target(p, a), regs, m, c.exl)
    BY <1>1, <1>2, <1>3, <1>6, <1>11, <2>1, <2>2, RunJal
  <2>4. Does(i, a, a + 1, rg, m, a + 1, Target(p, a), regs, m)
    BY <1>6, <1>11, <2>2 DEF Does
  <2>5. Retaken(p, a, regs)
    <3>1. 31 \in Seen /\ rg \in [Seen -> Words]
      BY <1>2, <1>3, SeenWords
    <3>2. regs[31] = a + 2
      BY <2>2, <3>1 DEF Written
    <3>. QED BY <1>2, <1>11, <3>1, <3>2 DEF Retaken, Value
  <2>. QED BY <1>1, <1>2, <1>3, <1>7, <2>3, <2>4, <2>5 DEF Stepped
<1>. QED BY <1>2, <1>8, <1>9, <1>10, <1>11

(* The branch before a delay slot, again.                                  *)
LEMMA BranchAgain ==
  ASSUME NEW p \in Programs, NEW c, NEW m, At(p, c, m), NEW n, NEW j,
         c.pc = n - 1, c.npc = n, InSlot(p, n, j, RegsOf(c, m)), NEW e, e = run(c)
  PROVE  Outcome(e, c, m, n, j, RegsOf(c, m), m, c.exl)
<1>1. PICK a \in TextOf(p) : /\ a = n - 1 /\ n = a + 1 /\ a = c.pc /\ a \in Nat /\ a + 1 < Handler
                             /\ p[a].op \in Branches /\ j = Target(p, a)
  BY TextIns DEF InSlot
<1>2. PICK i \in Instructions :
        /\ i = c.ins /\ i = p[a] /\ i.s # 26 /\ i.t # 26 /\ Ready(c, m, i.op)
        /\ i.op \in {"beq", "beql", "jal"}
  BY <1>1, TextIns DEF At, Branches
<1>3. PICK rg : rg = RegsOf(c, m)
  OBVIOUS
<1>4. Retaken(p, a, rg) /\ (j = IF i.op = "jal" THEN i.imm ELSE a + 1 + i.imm) /\ i.imm \in Int
  BY <1>1, <1>2, <1>3 DEF InSlot, Target, Instructions
<1>5. CASE i.op \in {"beq", "beql"}
  <2>1. c.gp[i.s] = c.gp[i.t]
    BY <1>2, <1>3, <1>4, <1>5, Operand DEF Retaken, Instructions
  <2>2. j = c.npc + i.imm
    BY <1>1, <1>4, <1>5
  <2>. QED BY <1>2, <1>5, <2>1, <2>2, RunBeq
<1>6. CASE i.op = "jal"
  <2>1. a + 2 \in Words
    BY <1>1, Constants DEF Words
  <2>2. 31 \in Seen /\ rg \in [Seen -> Words]
    BY <1>2, <1>3, SeenWords
  <2>3. Value(rg, 31) = a + 2
    BY <1>2, <1>4, <1>6 DEF Retaken
  <2>4. Written(rg, 31, a + 2) = rg
    BY <2>2, <2>3 DEF Written, Value
  <2>5. Outcome(e, c, m, c.npc, i.imm, Written(rg, 31, a + 2), m, c.exl)
    BY <1>1, <1>2, <1>3, <1>6, <2>1, RunJal
  <2>. QED BY <1>1, <1>3, <1>4, <1>6, <2>4, <2>5
<1>. QED BY <1>2, <1>5, <1>6

(* An instruction of the handler: the program sees nothing.                *)
LEMMA HandlerStep ==
  ASSUME NEW p \in Programs, NEW c, NEW m, At(p, c, m),
         p[c.pc] \in Instructions, KeepsState(p[c.pc]), NEW e, e = run(c)
  PROVE  Stepped(e, c, m, c.npc, c.npc + 1, RegsOf(c, m), m)
<1>1. PICK i \in Instructions : i = c.ins /\ KeepsState(i) /\ Ready(c, m, i.op)
  BY DEF At
<1>2. PICK rg : rg = RegsOf(c, m)
  OBVIOUS
<1>3. \A w : Written(rg, 26, w) = rg
  BY DEF Written, Seen
<1>4. /\ c.gp[0] = 0 /\ Value(rg, 0) = 0 /\ i.imm \in Int
      /\ Signed(0) = 0
  BY <1>1, Constants DEF Ready, Value, Seen, Instructions, Signed
<1>5. CASE i.op \in {"nop", "mtc0", "di"}
  BY <1>1, <1>2, <1>5, RunControl DEF Stepped, Does
<1>6. CASE i.op = "mul"
  BY <1>1, <1>2, <1>3, <1>6, RunMul DEF KeepsState, Stepped, Does
<1>7. CASE i.op = "lw"
  BY <1>1, <1>2, <1>3, <1>4, <1>7, RunLw DEF KeepsState, Stepped, Does
<1>8. CASE i.op = "addi"
  BY <1>1, <1>2, <1>3, <1>4, <1>8, RunAddi DEF KeepsState, Stepped, Does, Fit
<1>. QED BY <1>1, <1>5, <1>6, <1>7, <1>8 DEF KeepsState

-----------------------------------------------------------------------------
(* What the sequential processor sees of processor c and due d.            *)

PcOf(c, d)  == IF d = NoDue THEN c.pc ELSE d[1]
NpcOf(c, d) == IF d = NoDue THEN c.npc ELSE d[2]
ExlOf(c, d) == c.exl /\ d = NoDue
EpcOf(c, d) == IF ExlOf(c, d) THEN c.epc ELSE NoEpc

LEMMA Views ==
  /\ SeenGp = RegsOf(iss, mem) /\ SeenMem = StoreOf(iss, mem)
  /\ MipsPc = PcOf(iss, due) /\ MipsNpc = NpcOf(iss, due)
  /\ SeenExl = ExlOf(iss, due) /\ MipsEpc = EpcOf(iss, due)
  /\ SeenGp' = RegsOf(iss', mem') /\ SeenMem' = StoreOf(iss', mem')
  /\ MipsPc' = PcOf(iss', due') /\ MipsNpc' = NpcOf(iss', due')
  /\ SeenExl' = ExlOf(iss', due') /\ MipsEpc' = EpcOf(iss', due')
BY DEF SeenGp, SeenMem, MipsPc, MipsNpc, SeenExl, MipsEpc, RegsOf, StoreOf, Seen, PcOf, NpcOf,
       ExlOf, EpcOf

(* A cycle that the sequential processor does not see.                     *)
LEMMA Stutters ==
  ASSUME RegsOf(iss', mem') = SeenGp, StoreOf(iss', mem') = SeenMem, program' = program,
         PcOf(iss', due') = MipsPc, NpcOf(iss', due') = MipsNpc,
         ExlOf(iss', due') = SeenExl, EpcOf(iss', due') = MipsEpc
  PROVE  UNCHANGED Mips!vars
<1>1. /\ SeenGp' = SeenGp /\ SeenMem' = SeenMem /\ MipsPc' = MipsPc /\ MipsNpc' = MipsNpc
      /\ SeenExl' = SeenExl /\ MipsEpc' = MipsEpc
  BY Views
<1>. QED BY <1>1 DEF Mips!vars, MipsPc, MipsNpc, MipsEpc

(* A cycle that executes an instruction.                                   *)
LEMMA Moves ==
  ASSUME NEW n, NEW j,
         Does(program[MipsPc], MipsPc, MipsNpc, SeenGp, SeenMem, n, j,
              RegsOf(iss', mem'), StoreOf(iss', mem')),
         program' = program, PcOf(iss', due') = n, NpcOf(iss', due') = j,
         ExlOf(iss', due') = SeenExl, EpcOf(iss', due') = MipsEpc
  PROVE  Mips!Next
<1>1. PICK regs, store : regs = RegsOf(iss', mem') /\ store = StoreOf(iss', mem')
  OBVIOUS
<1>2. GoesTo(regs, store, n, j) /\ SameLevel
  BY <1>1, Views DEF GoesTo, SameLevel
<1>. QED BY <1>1, <1>2, MipsDoes DEF MipsIns

LEMMA InvNext ==
  ASSUME IssInv, program' = program, iss' \in Cpus, iss'.gp[0] = 0, Posted(iss'),
         mem' \in Memories, Place(program, iss', RegsOf(iss', mem'), due')
  PROVE  IssInv'
<1>1. SeenGp' = RegsOf(iss', mem')
  BY Views
<1>. QED BY <1>1 DEF IssInv

(* Wherever the simulator is, there is an instruction.                     *)
LEMMA PlaceFacts ==
  ASSUME NEW p \in Programs, NEW c, NEW rg, NEW d, Place(p, c, rg, d)
  PROVE  /\ c.pc \in DOMAIN p /\ p[c.pc] \in Instructions
         /\ d = NoDue \/ d \in (DOMAIN p) \X (DOMAIN p)
<1>1. CASE InProgram(p, c, rg, d)
  BY <1>1, FlowFacts DEF InProgram
<1>2. CASE InTrap(p, c, d)
  BY <1>2, HandlerFacts DEF InTrap
<1>3. CASE \E n, j : d = <<n, j>> /\ Flow(p, n, j, rg) /\ (InIrq(p, c, n, j) \/ OnBranch(c, n, j))
  <2>1. PICK n, j : /\ d = <<n, j>> /\ Flow(p, n, j, rg)
                    /\ InIrq(p, c, n, j) \/ OnBranch(c, n, j)
    BY <1>3
  <2>2. d \in (DOMAIN p) \X (DOMAIN p)
    <3>1. Flow(p, n, j, rg)
      BY <2>1
    <3>2. n \in DOMAIN p /\ j \in DOMAIN p
      BY <3>1, FlowFacts
    <3>. QED BY <2>1, <3>2
  <2>3. CASE InIrq(p, c, n, j)
    BY <2>2, <2>3, HandlerFacts DEF InIrq
  <2>4. CASE OnBranch(c, n, j)
    <3>1. c.pc = Restart(n, j)
      BY <2>4 DEF OnBranch, Restart
    <3>2. c.pc \in TextOf(p)
      BY <2>1, <3>1, FlowFacts
    <3>. QED BY <2>2, <3>2, TextIns
  <2>. QED BY <2>1, <2>3, <2>4
<1>. QED BY <1>1, <1>2, <1>3 DEF Place

(* An interrupt, taken after e, or after e has been backed out of.         *)
InterruptedAt(d, k, c, m, n, j, regs, store) ==
  /\ d \in Cpus /\ d.gp[0] = 0 /\ Posted(d)
  /\ d.pc = Handler /\ d.npc = Handler + 1 /\ d.exl = TRUE
  /\ d.epc = Restart(k.next, k.jump)
  /\ \/ /\ RegsOf(d, m) = RegsOf(c, m) /\ StoreOf(d, m) = m
        /\ k.next = c.pc /\ k.jump = c.npc
     \/ /\ RegsOf(d, m) = regs /\ StoreOf(d, m) = store
        /\ k.next = n /\ k.jump = j

LEMMA InterruptSeen ==
  ASSUME NEW c, NEW m, NEW op, Ready(c, m, op), NEW e, NEW n, NEW j, NEW regs, NEW store,
         n \in Int, j \in Int,
         Outcome(e, c, m, n, j, regs, store, FALSE), e.cpu.ie,
         n # c.pc \/ (n = c.pc /\ j = c.npc),
         NEW k, k = BackOut(e), NEW d, d = handle_exception(k)
  PROVE  InterruptedAt(d, k, c, m, n, j, regs, store)
<1>1. /\ e.cpu \in Cpus /\ Posted(e.cpu) /\ e.cpu.gp[0] = 0 /\ ~e.cpu.exl
      /\ e.cpu.pc = c.pc /\ e.cpu.npc = c.npc /\ e.next = n /\ e.jump = j
      /\ c.pc \in Int /\ c.npc \in Int
      /\ RegsOf(e.cpu, m) = regs /\ StoreOf(e.cpu, m) = store
  BY DEF Outcome, ZeroKept, Ready, Cpus
<1>2. CASE e.cpu.dreq.valid
  <2>1. PICK g : g = [e.cpu EXCEPT !.dreq = NoReq]
    OBVIOUS
  <2>2. NoReq \in Reqs /\ ~NoReq.valid /\ ~NoReq.read
    BY Constants DEF NoReq, Reqs
  <2>3. /\ g \in Cpus /\ Posted(g) /\ g.gp = c.gp /\ g.gp[0] = 0 /\ ~g.exl /\ g.dreq = NoReq
        /\ g.pc = c.pc /\ g.npc = c.npc
    BY <1>1, <1>2, <2>1, <2>2 DEF Cpus, Posted, Outcome
  <2>4. k.cpu = g /\ k.next = c.pc /\ k.jump = c.npc /\ k.resume = c.pc
    BY <1>1, <1>2, <2>1 DEF BackOut
  <2>5. /\ d \in Cpus /\ d.gp[0] = 0 /\ Posted(d)
        /\ RegsOf(d, m) = RegsOf(g, m) /\ StoreOf(d, m) = StoreOf(g, m)
        /\ d.pc = Handler /\ d.npc = Handler + 1 /\ d.exl = TRUE
        /\ d.epc = Restart(c.pc, c.npc)
    <3>1. /\ k.cpu \in Cpus /\ Posted(k.cpu) /\ k.cpu.gp[0] = 0
          /\ k.next \in Int /\ k.jump \in Int /\ k.resume \in Int
      BY <1>1, <2>3, <2>4
    <3>2. /\ d \in Cpus /\ d.gp[0] = 0 /\ Posted(d)
          /\ RegsOf(d, m) = RegsOf(k.cpu, m) /\ StoreOf(d, m) = StoreOf(k.cpu, m)
          /\ d.pc = Handler /\ d.npc = Handler + 1 /\ d.exl = TRUE
          /\ d.epc = EpcAfter(k)
      BY <3>1, ExceptSeen
    <3>. QED BY <2>3, <2>4, <3>2 DEF EpcAfter
  <2>6. RegsOf(g, m) = RegsOf(c, m) /\ StoreOf(g, m) = m
    BY <2>2, <2>3, SeenReady DEF RegsOf, StoreOf
  <2>. QED BY <2>4, <2>5, <2>6 DEF InterruptedAt
<1>3. CASE ~e.cpu.dreq.valid
  <2>1. k.cpu = e.cpu /\ k.next = n /\ k.jump = j /\ k.resume = n
    BY <1>1, <1>3 DEF BackOut
  <2>2. /\ d \in Cpus /\ d.gp[0] = 0 /\ Posted(d)
        /\ RegsOf(d, m) = regs /\ StoreOf(d, m) = store
        /\ d.pc = Handler /\ d.npc = Handler + 1 /\ d.exl = TRUE
        /\ d.epc = IF n = c.pc THEN Restart(n, c.npc)
                   ELSE IF n + 1 # j THEN n - 1 ELSE n
    <3>1. /\ k.cpu \in Cpus /\ Posted(k.cpu) /\ k.cpu.gp[0] = 0
          /\ k.next \in Int /\ k.jump \in Int /\ k.resume \in Int
      BY <1>1, <2>1
    <3>2. /\ d \in Cpus /\ d.gp[0] = 0 /\ Posted(d)
          /\ RegsOf(d, m) = RegsOf(k.cpu, m) /\ StoreOf(d, m) = StoreOf(k.cpu, m)
          /\ d.pc = Handler /\ d.npc = Handler + 1 /\ d.exl = TRUE
          /\ d.epc = EpcAfter(k)
      BY <3>1, ExceptSeen
    <3>. QED BY <1>1, <2>1, <3>2 DEF EpcAfter
  <2>3. d.epc = Restart(n, j)
    BY <2>2 DEF Restart
  <2>. QED BY <2>1, <2>2, <2>3 DEF InterruptedAt
<1>. QED BY <1>2, <1>3

-----------------------------------------------------------------------------
(* Cycles, by what they do.                                                *)

Unseen == UNCHANGED Mips!vars

LEMMA HandlerStart ==
  ASSUME NEW p \in Programs
  PROVE  InHandler(p, Handler, Handler + 1) /\ Handler \in DOMAIN p
<1>1. LastOf(p) \in Nat /\ Handler \in Nat /\ Handler <= LastOf(p)
  BY TextFacts, Constants
<1>2. InHandler(p, Handler, Handler + 1)
  BY <1>1 DEF InHandler
<1>. QED BY <1>2, HandlerFacts

(* A stall, or a cycle without an instruction.                             *)
LEMMA Rests ==
  ASSUME IssInv, iss' \in Cpus, iss'.gp[0] = 0, Posted(iss'), mem' \in Memories,
         RegsOf(iss', mem') = SeenGp, StoreOf(iss', mem') = SeenMem,
         iss'.pc = iss.pc, iss'.npc = iss.npc, iss'.exl = iss.exl, iss'.epc = iss.epc,
         due' = due, program' = program
  PROVE  IssInv' /\ Unseen
<1>1. Place(program, iss', SeenGp, due)
  BY DEF IssInv, Place, InProgram, InTrap, InIrq, OnBranch
<1>2. IssInv'
  BY <1>1, InvNext
<1>3. /\ PcOf(iss', due') = MipsPc /\ NpcOf(iss', due') = MipsNpc
      /\ ExlOf(iss', due') = SeenExl /\ EpcOf(iss', due') = MipsEpc
  BY Views DEF PcOf, NpcOf, ExlOf, EpcOf
<1>. QED BY <1>2, <1>3, Stutters DEF Unseen

(* Processor c with memory m, its responses taken, executes an instruction. *)
Executing(c, m, e) ==
  /\ At(program, c, m) /\ Control(c, iss)
  /\ RegsOf(c, m) = SeenGp /\ m = SeenMem
  /\ mem' = m /\ program' = program /\ e = run(c)

(* An interrupt of a processor that is at a and b.                         *)
LEMMA Interrupted ==
  ASSUME IssInv, NEW n, NEW j, due' = <<n, j>>, program' = program, mem' \in Memories,
         iss' \in Cpus, iss'.gp[0] = 0, Posted(iss'),
         iss'.pc = Handler, iss'.npc = Handler + 1, iss'.exl = TRUE, iss'.epc = Restart(n, j),
         Flow(program, n, j, RegsOf(iss', mem'))
  PROVE  IssInv'
<1>1. InIrq(program, iss', n, j)
  BY HandlerStart DEF InIrq, IssInv
<1>2. Place(program, iss', RegsOf(iss', mem'), due')
  BY <1>1 DEF Place
<1>. QED BY <1>2, InvNext

(* An instruction of the program.                                          *)
LEMMA ProgramCycle ==
  ASSUME IssInv, NEW c, NEW m, NEW e, NEW dOk, Executing(c, m, e),
         InProgram(program, iss, SeenGp, due),
         Except(e) \/ Interrupt(e, dOk) \/ Complete(e, dOk)
  PROVE  IssInv' /\ (Mips!Next \/ Unseen)
<1>1. PICK p \in Programs : p = program
  BY DEF IssInv
<1>2. PICK rg : rg = RegsOf(c, m)
  OBVIOUS
<1>3. /\ At(p, c, m) /\ c.pc = iss.pc /\ c.npc = iss.npc /\ c.exl = FALSE /\ iss.exl = FALSE
      /\ rg = SeenGp /\ m = SeenMem /\ mem' = m /\ program' = p /\ e = run(c)
      /\ Ready(c, m, p[c.pc].op) /\ c.ins = p[c.pc]
      /\ due = NoDue /\ Flow(p, c.pc, c.npc, rg)
      /\ c \in Cpus /\ c.gp[0] = 0 /\ Posted(c) /\ m \in Memories
  BY <1>1, <1>2 DEF Executing, InProgram, Control, At, Ready, Cpus, Posted
<1>4. /\ MipsPc = c.pc /\ MipsNpc = c.npc /\ SeenExl = FALSE /\ MipsEpc = NoEpc
  BY <1>3, Views DEF PcOf, NpcOf, ExlOf, EpcOf
<1>5. \/ Trapped(e, c) /\ Traps(c.ins, rg)
      \/ \E n, j, regs, store : /\ Stepped(e, c, m, n, j, regs, store)
                                /\ Flow(p, n, j, regs) /\ n # c.pc
  <2>1. CASE p[c.pc].op \in Branches
    <3>1. c.pc \in TextOf(p) /\ c.npc = c.pc + 1
      BY <1>3, <2>1, FlowFacts
    <3>. QED BY <1>3, <2>1, <3>1, BranchStep
  <2>2. CASE p[c.pc].op \notin Branches
    <3>1. /\ p[c.pc] \in Instructions /\ p[c.pc].s # 26 /\ p[c.pc].t # 26 /\ c.npc # c.pc
          /\ c.pc \in DOMAIN p
      BY <1>3, FlowFacts
    <3>2. p[c.pc].op \in {"addi", "mul"} => p[c.pc].t # 0
      BY <3>1, IssAssumption
    <3>3. \A regs : Flow(p, c.npc, c.npc + 1, regs)
      BY <1>3, <2>2, Straight
    <3>. QED BY <1>2, <1>3, <2>2, <3>1, <3>2, <3>3, PlainStep
  <2>. QED BY <2>1, <2>2
<1>6. CASE Trapped(e, c) /\ Traps(c.ins, rg)
  <2>1. iss' = handle_exception(e) /\ due' = NoDue
    BY <1>3, <1>6 DEF Trapped, Except, Interrupt, Complete
  <2>2. /\ e.cpu \in Cpus /\ Posted(e.cpu) /\ e.cpu.gp[0] = 0 /\ e.cpu = c
        /\ e.resume \in Int /\ e.resume = c.pc
    BY <1>3, <1>6 DEF Trapped, Cpus
  <2>3. /\ iss' \in Cpus /\ iss'.gp[0] = 0 /\ Posted(iss')
        /\ RegsOf(iss', m) = RegsOf(e.cpu, m) /\ StoreOf(iss', m) = StoreOf(e.cpu, m)
        /\ iss'.pc = Handler /\ iss'.npc = Handler + 1 /\ iss'.exl = TRUE
        /\ iss'.epc = EpcAfter(e)
    BY <2>1, <2>2, ExceptSeen
  <2>4. /\ RegsOf(iss', mem') = SeenGp /\ StoreOf(iss', mem') = SeenMem
        /\ iss'.epc = Restart(c.pc, c.npc)
    BY <1>2, <1>3, <2>2, <2>3, SeenReady DEF EpcAfter
  <2>5. Place(p, iss', RegsOf(iss', mem'), due')
    <3>1. Restart(c.pc, c.npc) \in TextOf(p)
      BY <1>3, FlowFacts
    <3>. QED BY <2>1, <2>3, <2>4, <3>1, HandlerStart DEF Place, InTrap
  <2>6. IssInv'
    BY <1>1, <1>3, <2>3, <2>5, InvNext
  <2>7. /\ PcOf(iss', due') = Handler /\ NpcOf(iss', due') = Handler + 1
        /\ ExlOf(iss', due') = TRUE /\ EpcOf(iss', due') = Restart(MipsPc, MipsNpc)
    BY <1>4, <2>1, <2>3, <2>4 DEF PcOf, NpcOf, ExlOf, EpcOf
  <2>8. GoesTo(SeenGp, SeenMem, Handler, Handler + 1)
    BY <1>1, <1>3, <2>4, <2>7, Views DEF GoesTo
  <2>9. Traps(MipsIns, SeenGp)
    BY <1>1, <1>3, <1>4, <1>6 DEF MipsIns
  <2>10. Mips!Next
    BY <1>4, <2>7, <2>8, <2>9, Views, MipsTrap DEF Traps, MipsS
  <2>. QED BY <2>6, <2>10
<1>7. ASSUME NEW n, NEW j, NEW regs, NEW store, Stepped(e, c, m, n, j, regs, store),
             Flow(p, n, j, regs), n # c.pc
      PROVE  IssInv' /\ (Mips!Next \/ Unseen)
  <2>1. /\ Outcome(e, c, m, n, j, regs, store, FALSE) /\ n \in Int /\ j \in Int
        /\ e.exc = "none" /\ e.next = n /\ e.jump = j
        /\ RegsOf(e.cpu, m) = regs /\ StoreOf(e.cpu, m) = store
        /\ e.cpu \in Cpus /\ Posted(e.cpu) /\ e.cpu.exl = FALSE
    BY <1>3, <1>7, FlowFacts DEF Stepped, Outcome
  <2>2. Does(program[MipsPc], MipsPc, MipsNpc, SeenGp, SeenMem, n, j, regs, store)
    BY <1>1, <1>2, <1>3, <1>4, <1>7 DEF Stepped
  <2>3. CASE Complete(e, dOk)
    <3>1. iss' = Commit(e) /\ due' = NoDue
      BY <1>3, <2>3 DEF Complete, Resumed
    <3>2. /\ iss' \in Cpus /\ iss'.gp[0] = 0 /\ Posted(iss')
          /\ RegsOf(iss', m) = regs /\ StoreOf(iss', m) = store
          /\ iss'.pc = n /\ iss'.npc = j /\ iss'.exl = FALSE
      BY <2>1, <3>1, CommitSeen
    <3>3. Place(p, iss', RegsOf(iss', mem'), due')
      BY <1>3, <1>7, <3>1, <3>2 DEF Place, InProgram
    <3>4. IssInv'
      BY <1>1, <1>3, <3>2, <3>3, InvNext
    <3>5. /\ PcOf(iss', due') = n /\ NpcOf(iss', due') = j
          /\ ExlOf(iss', due') = SeenExl /\ EpcOf(iss', due') = MipsEpc
      BY <1>4, <3>1, <3>2 DEF PcOf, NpcOf, ExlOf, EpcOf
    <3>. QED BY <1>1, <1>3, <2>2, <3>2, <3>4, <3>5, Moves
  <2>4. CASE Interrupt(e, dOk)
    <3>1. PICK k : /\ k = BackOut(e) /\ iss' = handle_exception(k) /\ due' = <<k.next, k.jump>>
                   /\ e.cpu.ie
      BY <1>3, <2>4 DEF Interrupt, TakesIrq, check_irq_state
    <3>2. /\ iss' \in Cpus /\ iss'.gp[0] = 0 /\ Posted(iss')
          /\ iss'.pc = Handler /\ iss'.npc = Handler + 1 /\ iss'.exl = TRUE
          /\ iss'.epc = Restart(k.next, k.jump)
          /\ \/ /\ RegsOf(iss', m) = rg /\ StoreOf(iss', m) = m
                /\ k.next = c.pc /\ k.jump = c.npc
             \/ /\ RegsOf(iss', m) = regs /\ StoreOf(iss', m) = store
                /\ k.next = n /\ k.jump = j
      <4>1. InterruptedAt(iss', k, c, m, n, j, regs, store)
        BY <1>3, <1>7, <2>1, <3>1, InterruptSeen
      <4>. QED BY <1>2, <4>1 DEF InterruptedAt
    <3>3. Flow(p, k.next, k.jump, RegsOf(iss', mem'))
      BY <1>3, <1>7, <3>2
    <3>4. IssInv'
      BY <1>1, <1>3, <3>1, <3>2, <3>3, Interrupted
    <3>5. /\ PcOf(iss', due') = k.next /\ NpcOf(iss', due') = k.jump
          /\ ExlOf(iss', due') = SeenExl /\ EpcOf(iss', due') = MipsEpc
      BY <1>4, <3>1 DEF PcOf, NpcOf, ExlOf, EpcOf, NoDue
    <3>6. CASE RegsOf(iss', m) = rg /\ StoreOf(iss', m) = m /\ k.next = c.pc /\ k.jump = c.npc
      BY <1>1, <1>3, <1>4, <3>4, <3>5, <3>6, Stutters DEF Unseen
    <3>7. CASE RegsOf(iss', m) = regs /\ StoreOf(iss', m) = store /\ k.next = n /\ k.jump = j
      BY <1>1, <1>3, <2>2, <3>4, <3>5, <3>7, Moves
    <3>. QED BY <3>2, <3>6, <3>7
  <2>. QED BY <2>1, <2>3, <2>4 DEF Except
<1>. QED BY <1>5, <1>6, <1>7

(* The handler returns.                                                    *)
LEMMA EretStep ==
  ASSUME NEW p \in Programs, NEW c, NEW m, At(p, c, m), p[c.pc].op = "eret", c.exl = TRUE,
         NEW e, e = run(c)
  PROVE  Outcome(e, c, m, c.epc, c.epc + 1, RegsOf(c, m), m, FALSE)
BY RunEret DEF At

(* An instruction completes.                                               *)
CompletedAt(d, m, n, j, regs, store, exl, epc) ==
  /\ d \in Cpus /\ d.gp[0] = 0 /\ Posted(d)
  /\ RegsOf(d, m) = regs /\ StoreOf(d, m) = store
  /\ d.pc = n /\ d.npc = j /\ d.exl = exl /\ d.epc = epc

LEMMA CompleteSeen ==
  ASSUME NEW c, NEW m, NEW e, NEW n \in Int, NEW j \in Int, NEW regs, NEW store, NEW exl,
         Outcome(e, c, m, n, j, regs, store, exl)
  PROVE  CompletedAt(Commit(e), m, n, j, regs, store, exl, c.epc)
<1>1. /\ e.cpu \in Cpus /\ Posted(e.cpu) /\ e.next = n /\ e.jump = j
      /\ RegsOf(e.cpu, m) = regs /\ StoreOf(e.cpu, m) = store
      /\ e.cpu.exl = exl /\ e.cpu.epc = c.epc
  BY DEF Outcome
<1>2. PICK d : d = Commit(e)
  OBVIOUS
<1>3. /\ d \in Cpus /\ d.gp[0] = 0 /\ Posted(d)
      /\ RegsOf(d, m) = RegsOf(e.cpu, m) /\ StoreOf(d, m) = StoreOf(e.cpu, m)
      /\ d.pc = e.next /\ d.npc = e.jump /\ d.exl = e.cpu.exl /\ d.epc = e.cpu.epc
  BY <1>1, <1>2, CommitSeen
<1>. QED BY <1>1, <1>2, <1>3 DEF CompletedAt

(* Without interrupts, an instruction that does not trap completes.        *)
LEMMA MustComplete ==
  ASSUME NEW e, NEW dOk, e.exc = "none", iss.exl = TRUE,
         Except(e) \/ Interrupt(e, dOk) \/ Complete(e, dOk)
  PROVE  iss' = Commit(e) /\ due' = Resumed(iss')
BY DEF Except, Interrupt, Complete, TakesIrq, check_irq_state

(* An instruction of the handler of a trap.                                *)
LEMMA TrapCycle ==
  ASSUME IssInv, NEW c, NEW m, NEW e, NEW dOk, Executing(c, m, e),
         InTrap(program, iss, due),
         Except(e) \/ Interrupt(e, dOk) \/ Complete(e, dOk)
  PROVE  IssInv' /\ (Mips!Next \/ Unseen)
<1>1. PICK p \in Programs : p = program
  BY DEF IssInv
<1>2. PICK rg : rg = RegsOf(c, m)
  OBVIOUS
<1>3. /\ At(p, c, m) /\ c.pc = iss.pc /\ c.npc = iss.npc /\ c.exl = TRUE /\ iss.exl = TRUE
      /\ c.epc = iss.epc
      /\ rg = SeenGp /\ m = SeenMem /\ mem' = m /\ program' = p /\ e = run(c)
      /\ c.ins = p[c.pc] /\ due = NoDue /\ InHandler(p, c.pc, c.npc) /\ c.epc \in TextOf(p)
      /\ m \in Memories
  BY <1>1, <1>2 DEF Executing, InTrap, Control, At, Ready, Cpus
<1>4. /\ MipsPc = c.pc /\ MipsNpc = c.npc /\ SeenExl = TRUE /\ MipsEpc = c.epc
  BY <1>3, Views DEF PcOf, NpcOf, ExlOf, EpcOf
<1>5. c.pc \in Nat /\ c.npc = c.pc + 1 /\ p[c.pc] \in Instructions /\ c.epc \in Nat
  BY <1>3, HandlerFacts, TextIns
<1>6. Resumed(iss') = NoDue
  BY <1>3 DEF Resumed
<1>7. CASE p[c.pc].op = "eret"
  <2>1. Outcome(e, c, m, c.epc, c.epc + 1, rg, m, FALSE)
    BY <1>2, <1>3, <1>7, EretStep
  <2>2. iss' = Commit(e) /\ due' = NoDue
    BY <1>3, <1>6, <2>1, MustComplete DEF Outcome
  <2>3. CompletedAt(iss', m, c.epc, c.epc + 1, rg, m, FALSE, c.epc)
    <3>1. c.epc \in Int /\ c.epc + 1 \in Int
      BY <1>5
    <3>2. CompletedAt(Commit(e), m, c.epc, c.epc + 1, rg, m, FALSE, c.epc)
      BY <2>1, <3>1, CompleteSeen, Zenon
    <3>. QED BY <2>2, <3>2
  <2>4. Place(p, iss', RegsOf(iss', mem'), due')
    BY <1>3, <2>2, <2>3 DEF CompletedAt, Place, InProgram, Flow
  <2>5. IssInv'
    BY <1>1, <1>3, <2>3, <2>4, InvNext DEF CompletedAt
  <2>6. /\ PcOf(iss', due') = c.epc /\ NpcOf(iss', due') = c.epc + 1
        /\ ExlOf(iss', due') = FALSE /\ EpcOf(iss', due') = NoEpc
    BY <2>2, <2>3 DEF CompletedAt, PcOf, NpcOf, ExlOf, EpcOf
  <2>7. GoesTo(SeenGp, SeenMem, MipsEpc, MipsEpc + 1) /\ ~SeenExl' /\ MipsEpc' = NoEpc
    BY <1>1, <1>3, <1>4, <2>3, <2>6, Views DEF CompletedAt, GoesTo
  <2>8. Mips!Next
    BY <1>1, <1>3, <1>4, <1>7, <2>7, MipsEret DEF MipsIns
  <2>. QED BY <2>5, <2>8
<1>8. CASE p[c.pc].op # "eret"
  <2>1. KeepsState(p[c.pc]) /\ InHandler(p, c.npc, c.npc + 1)
    <3>1. KeepsState(p[c.pc]) /\ InHandler(p, c.pc + 1, c.pc + 2)
      BY <1>3, <1>8, HandlerFacts
    <3>2. c.npc + 1 = c.pc + 2
      BY <1>5
    <3>. QED BY <1>5, <3>1, <3>2
  <2>2. Stepped(e, c, m, c.npc, c.npc + 1, rg, m)
    BY <1>2, <1>3, <1>5, <2>1, HandlerStep
  <2>3. Outcome(e, c, m, c.npc, c.npc + 1, rg, m, TRUE)
    BY <1>3, <2>2 DEF Stepped
  <2>4. iss' = Commit(e) /\ due' = NoDue
    BY <1>3, <1>6, <2>3, MustComplete DEF Outcome
  <2>5. CompletedAt(iss', m, c.npc, c.npc + 1, rg, m, TRUE, c.epc)
    <3>1. c.npc \in Int /\ c.npc + 1 \in Int
      BY <1>5
    <3>2. CompletedAt(Commit(e), m, c.npc, c.npc + 1, rg, m, TRUE, c.epc)
      BY <2>3, <3>1, CompleteSeen, Zenon
    <3>. QED BY <2>4, <3>2
  <2>6. Place(p, iss', RegsOf(iss', mem'), due')
    BY <1>3, <2>1, <2>4, <2>5 DEF CompletedAt, Place, InTrap
  <2>7. IssInv'
    BY <1>1, <1>3, <2>5, <2>6, InvNext DEF CompletedAt
  <2>8. /\ PcOf(iss', due') = c.npc /\ NpcOf(iss', due') = c.npc + 1
        /\ ExlOf(iss', due') = SeenExl /\ EpcOf(iss', due') = MipsEpc
    BY <1>4, <2>4, <2>5 DEF CompletedAt, PcOf, NpcOf, ExlOf, EpcOf
  <2>9. Does(program[MipsPc], MipsPc, MipsNpc, SeenGp, SeenMem, c.npc, c.npc + 1,
             RegsOf(iss', mem'), StoreOf(iss', mem'))
    BY <1>1, <1>2, <1>3, <1>4, <2>2, <2>5 DEF Stepped, CompletedAt
  <2>. QED BY <1>1, <1>3, <2>7, <2>8, <2>9, Moves
<1>. QED BY <1>7, <1>8

(* An instruction of the handler of an interrupt.                          *)
LEMMA IrqCycle ==
  ASSUME IssInv, NEW c, NEW m, NEW e, NEW dOk, Executing(c, m, e),
         NEW n, NEW j, due = <<n, j>>, Flow(program, n, j, SeenGp), InIrq(program, iss, n, j),
         Except(e) \/ Interrupt(e, dOk) \/ Complete(e, dOk)
  PROVE  IssInv' /\ Unseen
<1>1. PICK p \in Programs : p = program
  BY DEF IssInv
<1>2. PICK rg : rg = RegsOf(c, m)
  OBVIOUS
<1>3. /\ At(p, c, m) /\ c.pc = iss.pc /\ c.npc = iss.npc /\ c.exl = TRUE /\ iss.exl = TRUE
      /\ c.epc = iss.epc
      /\ rg = SeenGp /\ m = SeenMem /\ mem' = m /\ program' = p /\ e = run(c)
      /\ c.ins = p[c.pc] /\ InHandler(p, c.pc, c.npc) /\ c.epc = Restart(n, j)
      /\ m \in Memories /\ Flow(p, n, j, rg)
  BY <1>1, <1>2 DEF Executing, InIrq, Control, At, Ready, Cpus
<1>4. /\ MipsPc = n /\ MipsNpc = j /\ SeenExl = FALSE /\ MipsEpc = NoEpc /\ due # NoDue
  BY Views DEF PcOf, NpcOf, ExlOf, EpcOf, NoDue
<1>5. /\ c.pc \in Nat /\ c.npc = c.pc + 1 /\ p[c.pc] \in Instructions
      /\ n \in Int /\ j \in Int /\ c.epc \in Int
  BY <1>3, HandlerFacts, FlowFacts, TextIns DEF Restart
<1>6. CASE p[c.pc].op = "eret"
  <2>1. Outcome(e, c, m, c.epc, c.epc + 1, rg, m, FALSE)
    BY <1>2, <1>3, <1>6, EretStep
  <2>2. iss' = Commit(e) /\ due' = Resumed(iss')
    BY <1>3, <2>1, MustComplete DEF Outcome
  <2>3. CompletedAt(iss', m, c.epc, c.epc + 1, rg, m, FALSE, c.epc)
    <3>1. c.epc \in Int /\ c.epc + 1 \in Int
      BY <1>5
    <3>2. CompletedAt(Commit(e), m, c.epc, c.epc + 1, rg, m, FALSE, c.epc)
      BY <2>1, <3>1, CompleteSeen, Zenon
    <3>. QED BY <2>2, <3>2
  <2>4. CASE j = n + 1
    <3>1. c.epc = n /\ iss'.pc = n /\ iss'.npc = j /\ iss'.exl = FALSE
      BY <1>3, <2>3, <2>4 DEF Restart, CompletedAt
    <3>2. due' = NoDue
      BY <1>4, <2>2, <3>1 DEF Resumed
    <3>3. Place(p, iss', RegsOf(iss', mem'), due')
      BY <1>3, <2>3, <3>1, <3>2 DEF CompletedAt, Place, InProgram
    <3>4. IssInv'
      BY <1>1, <1>3, <2>3, <3>3, InvNext DEF CompletedAt
    <3>5. /\ PcOf(iss', due') = n /\ NpcOf(iss', due') = j
          /\ ExlOf(iss', due') = FALSE /\ EpcOf(iss', due') = NoEpc
      BY <3>1, <3>2 DEF PcOf, NpcOf, ExlOf, EpcOf
    <3>. QED BY <1>1, <1>3, <1>4, <2>3, <3>4, <3>5, Stutters DEF CompletedAt, Unseen
  <2>5. CASE j # n + 1
    <3>1. c.epc = n - 1 /\ iss'.pc = n - 1 /\ iss'.npc = n /\ iss'.exl = FALSE
      BY <1>3, <1>5, <2>3, <2>5 DEF Restart, CompletedAt
    <3>2. due' = <<n, j>>
      <4>1. <<iss'.pc, iss'.npc>> # due
        BY <1>5, <3>1
      <4>. QED BY <2>2, <4>1 DEF Resumed
    <3>3. Place(p, iss', RegsOf(iss', mem'), due')
      BY <1>3, <2>3, <2>5, <3>1, <3>2 DEF CompletedAt, Place, OnBranch
    <3>4. IssInv'
      BY <1>1, <1>3, <2>3, <3>3, InvNext DEF CompletedAt
    <3>5. /\ PcOf(iss', due') = n /\ NpcOf(iss', due') = j
          /\ ExlOf(iss', due') = FALSE /\ EpcOf(iss', due') = NoEpc
      BY <3>2 DEF PcOf, NpcOf, ExlOf, EpcOf, NoDue
    <3>. QED BY <1>1, <1>3, <1>4, <2>3, <3>4, <3>5, Stutters DEF CompletedAt, Unseen
  <2>. QED BY <2>4, <2>5
<1>7. CASE p[c.pc].op # "eret"
  <2>1. KeepsState(p[c.pc]) /\ InHandler(p, c.npc, c.npc + 1)
    <3>1. KeepsState(p[c.pc]) /\ InHandler(p, c.pc + 1, c.pc + 2)
      BY <1>3, <1>7, HandlerFacts
    <3>2. c.npc + 1 = c.pc + 2
      BY <1>5
    <3>. QED BY <1>5, <3>1, <3>2
  <2>2. Outcome(e, c, m, c.npc, c.npc + 1, rg, m, TRUE)
    <3>1. Stepped(e, c, m, c.npc, c.npc + 1, rg, m)
      BY <1>2, <1>3, <1>5, <2>1, HandlerStep
    <3>. QED BY <1>3, <3>1 DEF Stepped
  <2>3. iss' = Commit(e) /\ due' = Resumed(iss')
    BY <1>3, <2>2, MustComplete DEF Outcome
  <2>4. CompletedAt(iss', m, c.npc, c.npc + 1, rg, m, TRUE, c.epc)
    <3>1. c.npc \in Int /\ c.npc + 1 \in Int
      BY <1>5
    <3>2. CompletedAt(Commit(e), m, c.npc, c.npc + 1, rg, m, TRUE, c.epc)
      BY <2>2, <3>1, CompleteSeen, Zenon
    <3>. QED BY <2>3, <3>2
  <2>5. due' = <<n, j>>
    BY <2>3, <2>4 DEF Resumed, CompletedAt
  <2>6. Place(p, iss', RegsOf(iss', mem'), due')
    BY <1>3, <2>1, <2>4, <2>5 DEF CompletedAt, Place, InIrq
  <2>7. IssInv'
    BY <1>1, <1>3, <2>4, <2>6, InvNext DEF CompletedAt
  <2>8. /\ PcOf(iss', due') = n /\ NpcOf(iss', due') = j
        /\ ExlOf(iss', due') = FALSE /\ EpcOf(iss', due') = NoEpc
    BY <2>5 DEF PcOf, NpcOf, ExlOf, EpcOf, NoDue
  <2>. QED BY <1>1, <1>3, <1>4, <2>4, <2>7, <2>8, Stutters DEF CompletedAt, Unseen
<1>. QED BY <1>6, <1>7

(* The branch before a delay slot, executed again after an interrupt.      *)
LEMMA BranchCycle ==
  ASSUME IssInv, NEW c, NEW m, NEW e, NEW dOk, Executing(c, m, e),
         NEW n, NEW j, due = <<n, j>>, Flow(program, n, j, SeenGp), OnBranch(iss, n, j),
         Except(e) \/ Interrupt(e, dOk) \/ Complete(e, dOk)
  PROVE  IssInv' /\ Unseen
<1>1. PICK p \in Programs : p = program
  BY DEF IssInv
<1>2. PICK rg : rg = RegsOf(c, m)
  OBVIOUS
<1>3. /\ At(p, c, m) /\ c.pc = iss.pc /\ c.npc = iss.npc /\ c.exl = FALSE /\ iss.exl = FALSE
      /\ rg = SeenGp /\ m = SeenMem /\ mem' = m /\ program' = p /\ e = run(c)
      /\ c.pc = n - 1 /\ c.npc = n /\ j # n + 1
      /\ m \in Memories /\ Flow(p, n, j, rg)
  BY <1>1, <1>2 DEF Executing, OnBranch, Control, At, Ready, Cpus
<1>4. /\ MipsPc = n /\ MipsNpc = j /\ SeenExl = FALSE /\ MipsEpc = NoEpc /\ due # NoDue
  BY Views DEF PcOf, NpcOf, ExlOf, EpcOf, NoDue
<1>5. n \in Int /\ j \in Int /\ n # c.pc
  BY <1>3, FlowFacts
<1>6. Outcome(e, c, m, n, j, rg, m, FALSE)
  <2>1. InSlot(p, n, j, rg)
    BY <1>3 DEF Flow
  <2>. QED BY <1>2, <1>3, <2>1, BranchAgain
<1>7. CASE Complete(e, dOk)
  <2>1. iss' = Commit(e) /\ due' = Resumed(iss')
    BY <1>7 DEF Complete
  <2>2. CompletedAt(iss', m, n, j, rg, m, FALSE, c.epc)
    BY <1>5, <1>6, <2>1, CompleteSeen
  <2>3. due' = NoDue
    BY <2>1, <2>2 DEF Resumed, CompletedAt
  <2>4. Place(p, iss', RegsOf(iss', mem'), due')
    BY <1>3, <2>2, <2>3 DEF CompletedAt, Place, InProgram
  <2>5. IssInv'
    BY <1>1, <1>3, <2>2, <2>4, InvNext DEF CompletedAt
  <2>6. /\ PcOf(iss', due') = n /\ NpcOf(iss', due') = j
        /\ ExlOf(iss', due') = FALSE /\ EpcOf(iss', due') = NoEpc
    BY <2>2, <2>3 DEF CompletedAt, PcOf, NpcOf, ExlOf, EpcOf
  <2>. QED BY <1>1, <1>3, <1>4, <2>2, <2>5, <2>6, Stutters DEF CompletedAt, Unseen
<1>8. CASE Interrupt(e, dOk)
  <2>1. PICK k : /\ k = BackOut(e) /\ iss' = handle_exception(k) /\ due' = <<n, j>>
                 /\ e.cpu.ie
    BY <1>4, <1>8 DEF Interrupt, TakesIrq, check_irq_state
  <2>2. InterruptedAt(iss', k, c, m, n, j, rg, m)
    BY <1>3, <1>5, <1>6, <2>1, InterruptSeen DEF At
  <2>3. /\ iss' \in Cpus /\ iss'.gp[0] = 0 /\ Posted(iss')
        /\ iss'.pc = Handler /\ iss'.npc = Handler + 1 /\ iss'.exl = TRUE
        /\ iss'.epc = Restart(k.next, k.jump)
        /\ RegsOf(iss', m) = rg /\ StoreOf(iss', m) = m
        /\ (k.next = c.pc /\ k.jump = c.npc) \/ (k.next = n /\ k.jump = j)
    BY <1>2, <2>2 DEF InterruptedAt
  <2>4. iss'.epc = Restart(n, j)
    BY <1>3, <1>5, <2>3 DEF Restart
  <2>5. IssInv'
    BY <1>1, <1>3, <2>1, <2>3, <2>4, Interrupted
  <2>6. /\ PcOf(iss', due') = n /\ NpcOf(iss', due') = j
        /\ ExlOf(iss', due') = FALSE /\ EpcOf(iss', due') = NoEpc
    BY <2>1 DEF PcOf, NpcOf, ExlOf, EpcOf, NoDue
  <2>. QED BY <1>1, <1>3, <1>4, <2>3, <2>5, <2>6, Stutters DEF Unseen
<1>. QED BY <1>6, <1>7, <1>8 DEF Except, Outcome

(* Processor c with memory m, its responses taken, has no instruction.     *)
Waiting(c, m) ==
  /\ c \in Cpus /\ c.gp[0] = 0 /\ Posted(c) /\ m \in Memories /\ Control(c, iss)
  /\ RegsOf(c, m) = SeenGp /\ StoreOf(c, m) = SeenMem
  /\ mem' = m /\ program' = program

(* A cycle without an instruction.                                         *)
LEMMA IdleCycle ==
  ASSUME IssInv, NEW c, NEW m, NEW dOk, Waiting(c, m),
         DreqOk(dOk) => ~c.dreq.valid /\ ~c.dreq.read, NEW e, e = Idle(c),
         Interrupt(e, dOk) \/ Complete(e, dOk)
  PROVE  IssInv' /\ Unseen
<1>1. /\ e.cpu = c /\ e.next = c.pc /\ e.jump = c.npc /\ e.resume = c.pc /\ e.exc = "none"
      /\ c.pc \in Int /\ c.npc \in Int
  BY DEF Idle, Waiting, Cpus
<1>2. /\ c \in Cpus /\ c.gp[0] = 0 /\ Posted(c) /\ m \in Memories
      /\ c.pc = iss.pc /\ c.npc = iss.npc /\ c.exl = iss.exl /\ c.epc = iss.epc
      /\ RegsOf(c, m) = SeenGp /\ StoreOf(c, m) = SeenMem /\ mem' = m /\ program' = program
  BY DEF Waiting, Control
<1>3. CASE Complete(e, dOk)
  <2>1. iss' = Commit(e) /\ due' = Resumed(iss')
    BY <1>3 DEF Complete
  <2>2. /\ iss' \in Cpus /\ iss'.gp[0] = 0 /\ Posted(iss')
        /\ RegsOf(iss', m) = RegsOf(c, m) /\ StoreOf(iss', m) = StoreOf(c, m)
        /\ iss'.pc = c.pc /\ iss'.npc = c.npc /\ iss'.exl = c.exl /\ iss'.epc = c.epc
    <3>1. e.cpu \in Cpus /\ Posted(e.cpu) /\ e.next \in Int /\ e.jump \in Int
      BY <1>1, <1>2
    <3>2. /\ iss' \in Cpus /\ iss'.gp[0] = 0 /\ Posted(iss')
          /\ RegsOf(iss', m) = RegsOf(e.cpu, m) /\ StoreOf(iss', m) = StoreOf(e.cpu, m)
          /\ iss'.pc = e.next /\ iss'.npc = e.jump /\ iss'.exl = e.cpu.exl /\ iss'.epc = e.cpu.epc
      BY <2>1, <3>1, CommitSeen
    <3>. QED BY <1>1, <3>2
  <2>3. due' = due
    <3>1. CASE due = NoDue \/ iss.exl
      BY <1>2, <2>1, <2>2, <3>1 DEF Resumed
    <3>2. CASE \E n, j : /\ due = <<n, j>> /\ Flow(program, n, j, SeenGp) /\ OnBranch(iss, n, j)
      <4>1. PICK n, j : due = <<n, j>> /\ Flow(program, n, j, SeenGp) /\ OnBranch(iss, n, j)
        BY <3>2
      <4>2. program \in Programs
        BY DEF IssInv
      <4>3. iss.pc = n - 1 /\ n \in Int
        BY <4>1, <4>2, FlowFacts DEF OnBranch
      <4>4. <<iss'.pc, iss'.npc>> # due
        BY <1>2, <2>2, <4>1, <4>3
      <4>. QED BY <2>1, <4>4 DEF Resumed
    <3>. QED BY <3>1, <3>2 DEF IssInv, Place, InProgram, InTrap, InIrq
  <2>. QED BY <1>2, <2>2, <2>3, Rests
<1>4. CASE Interrupt(e, dOk)
  <2>1. DreqOk(dOk) /\ iss.exl = FALSE /\ e.cpu.ie /\ ~c.dreq.valid /\ ~c.dreq.read
    BY <1>2, <1>4 DEF Interrupt, TakesIrq, check_irq_state, Cpus
  <2>2. Ready(c, m, c.ins.op)
    BY <1>2, <2>1 DEF Ready
  <2>3. StoreOf(c, m) = m /\ m = SeenMem
    BY <1>2, <2>1 DEF StoreOf
  <2>4. Outcome(e, c, m, c.pc, c.npc, RegsOf(c, m), m, FALSE)
    <3>1. Outcome(e, c, m, e.next, e.jump, RegsOf(c, m), m, c.exl)
      BY <1>1, <2>2, Quiet
    <3>. QED BY <1>1, <1>2, <2>1, <3>1
  <2>5. PICK k : /\ k = BackOut(e) /\ iss' = handle_exception(k)
                 /\ due' = IF due = NoDue THEN <<k.next, k.jump>> ELSE due
    BY <1>4 DEF Interrupt
  <2>6. InterruptedAt(iss', k, c, m, c.pc, c.npc, RegsOf(c, m), m)
    BY <1>1, <2>1, <2>2, <2>4, <2>5, InterruptSeen
  <2>7. /\ iss' \in Cpus /\ iss'.gp[0] = 0 /\ Posted(iss')
        /\ iss'.pc = Handler /\ iss'.npc = Handler + 1 /\ iss'.exl = TRUE
        /\ iss'.epc = Restart(c.pc, c.npc) /\ k.next = c.pc /\ k.jump = c.npc
        /\ RegsOf(iss', m) = SeenGp /\ StoreOf(iss', m) = SeenMem
    BY <1>2, <2>3, <2>6 DEF InterruptedAt
  <2>8. PICK n, j : /\ due' = <<n, j>> /\ n = MipsPc /\ j = MipsNpc /\ SeenExl = FALSE
                    /\ Flow(program, n, j, SeenGp) /\ Restart(c.pc, c.npc) = Restart(n, j)
    <3>1. CASE InProgram(program, iss, SeenGp, due)
      BY <1>2, <2>5, <2>7, <3>1, Views DEF InProgram, PcOf, NpcOf, ExlOf
    <3>2. CASE \E n, j : due = <<n, j>> /\ Flow(program, n, j, SeenGp) /\ OnBranch(iss, n, j)
      <4>1. PICK n, j : due = <<n, j>> /\ Flow(program, n, j, SeenGp) /\ OnBranch(iss, n, j)
        BY <3>2
      <4>2. n \in Int /\ program \in Programs
        BY <4>1, FlowFacts DEF IssInv
      <4>3. Restart(c.pc, c.npc) = Restart(n, j)
        BY <1>2, <4>1, <4>2 DEF OnBranch, Restart
      <4>4. due' = <<n, j>> /\ n = MipsPc /\ j = MipsNpc /\ SeenExl = FALSE
        BY <2>5, <4>1, Views DEF PcOf, NpcOf, ExlOf, NoDue
      <4>. QED BY <4>1, <4>3, <4>4
    <3>. QED BY <2>1, <3>1, <3>2 DEF IssInv, Place, InTrap, InIrq
  <2>9. IssInv'
    BY <1>2, <2>7, <2>8, Interrupted
  <2>10. /\ PcOf(iss', due') = MipsPc /\ NpcOf(iss', due') = MipsNpc
         /\ ExlOf(iss', due') = SeenExl /\ EpcOf(iss', due') = MipsEpc
    BY <2>8, Views DEF PcOf, NpcOf, ExlOf, EpcOf, NoDue
  <2>. QED BY <1>2, <2>7, <2>9, <2>10, Stutters DEF Unseen
<1>. QED BY <1>3, <1>4

-----------------------------------------------------------------------------
LEMMA IssInit == Init => IssInv /\ Mips!Init
<1>. SUFFICES ASSUME Init PROVE IssInv /\ Mips!Init
  OBVIOUS
<1>1. PICK p \in Programs : p = program
  BY DEF Init
<1>2. /\ 0 \in TextOf(p) /\ 0 \in DOMAIN p
      /\ Handler \in DOMAIN p
  BY TextFacts, TextIns, HandlerStart
<1>3. NoReq \in Reqs /\ Nop \in Instructions /\ NoEpc \in Int /\ ~NoReq.valid /\ ~NoReq.read
  BY Constants DEF NoReq, Nop, NoEpc, Reqs, Instructions
<1>4. /\ iss \in Cpus /\ iss.gp = InitGp /\ iss.gp[0] = 0 /\ iss.pc = 0 /\ iss.npc = 1
      /\ iss.exl = FALSE /\ iss.dreq = NoReq
      /\ mem = InitMem /\ mem \in Memories /\ due = NoDue
  <2>1. InitGp \in [DOMAIN InitGp -> Words] /\ InitGp[0] = 0 /\ InitMem \in Memories
    BY IssAssumption DEF Memories
  <2>2. PICK ip \in BOOLEAN :
          iss = [gp |-> InitGp, pc |-> 0, npc |-> 1, dreq |-> NoReq, delay |-> 0, ins |-> Nop,
                 exl |-> FALSE, ie |-> TRUE, ip |-> ip, epc |-> NoEpc]
    BY DEF Init
  <2>3. iss \in Cpus
    BY <1>3, <2>1, <2>2 DEF Cpus
  <2>. QED BY <2>1, <2>2, <2>3 DEF Init
<1>5. Posted(iss)
  BY <1>3, <1>4 DEF Posted
<1>6. Place(p, iss, SeenGp, due)
  BY <1>2, <1>4 DEF Place, InProgram, Flow
<1>7. IssInv
  BY <1>1, <1>4, <1>5, <1>6 DEF IssInv
<1>8. /\ SeenGp = [x \in Seen |-> InitGp[x]] /\ SeenMem = InitMem
      /\ MipsPc = 0 /\ MipsNpc = 1 /\ SeenExl = FALSE /\ MipsEpc = NoEpc
  BY <1>3, <1>4 DEF SeenGp, SeenMem, Seen, MipsPc, MipsNpc, SeenExl, MipsEpc
<1>9. Mips!Init
  BY <1>1, <1>2, <1>8 DEF Mips!Init, Mips!Seen, Seen, Mips!NoEpc, NoEpc, MipsPc, MipsNpc, MipsEpc
<1>. QED BY <1>7, <1>9

(* Every call of executeNCycles is an instruction of the sequential        *)
(* processor, or nothing.                                                  *)
LEMMA IssNext == IssInv /\ [Next]_vars => IssInv' /\ (Mips!Next \/ Unseen)
<1>. SUFFICES ASSUME IssInv, [Next]_vars PROVE IssInv' /\ (Mips!Next \/ Unseen)
  OBVIOUS
<1>1. CASE UNCHANGED vars
  BY <1>1, Views, Rests DEF vars, IssInv
<1>2. ASSUME NEW iOk \in BOOLEAN, NEW dOk \in BOOLEAN, Cycle(iOk, dOk)
      PROVE  IssInv' /\ (Mips!Next \/ Unseen)
  <2>1. PICK c, m : c = Loaded(iOk, dOk) /\ m = Stored(dOk)
    OBVIOUS
  <2>2. mem' = m /\ program' = program
    BY <1>2, <2>1 DEF Cycle
  <2>3. iss.pc \in DOMAIN program
    BY PlaceFacts DEF IssInv
  <2>4. /\ c \in Cpus /\ c.gp[0] = 0 /\ Posted(c) /\ m \in Memories
        /\ Control(c, iss)
        /\ RegsOf(c, m) = SeenGp /\ StoreOf(c, m) = SeenMem
        /\ iOk => c.ins = program[c.pc]
        /\ DreqOk(dOk) => ~c.dreq.valid /\ ~c.dreq.read
    BY <2>1, <2>3, LoadStep
  <2>5. CASE Stall(iOk, dOk)
    <3>1. PICK n \in 0 .. 2 : iss' = [c EXCEPT !.delay = n]
      BY <2>1, <2>5 DEF Stall, IssInv, Cpus
    <3>2. /\ iss' \in Cpus /\ iss'.gp = c.gp /\ iss'.dreq = c.dreq
          /\ iss'.pc = c.pc /\ iss'.npc = c.npc /\ iss'.exl = c.exl /\ iss'.epc = c.epc
      BY <2>4, <3>1 DEF Cpus
    <3>3. Posted(iss') /\ RegsOf(iss', m) = SeenGp /\ StoreOf(iss', m) = SeenMem
      BY <2>4, <3>2 DEF Posted, RegsOf, StoreOf
    <3>4. due' = due
      BY <2>5 DEF Stall
    <3>. QED BY <2>2, <2>4, <3>2, <3>3, <3>4, Rests DEF Control
  <2>6. ASSUME NEW e, e = Executed(iOk, dOk), Except(e) \/ Interrupt(e, dOk) \/ Complete(e, dOk)
        PROVE  IssInv' /\ (Mips!Next \/ Unseen)
    <3>1. CASE DreqOk(dOk) /\ iOk
      <4>1. e = run(c)
        BY <2>1, <2>6, <3>1 DEF Executed
      <4>2. m = SeenMem
        BY <2>4, <3>1 DEF StoreOf
      <4>3. Executing(c, m, e)
        BY <2>2, <2>4, <3>1, <4>1, <4>2 DEF Executing, At, Ready
      <4>4. CASE InProgram(program, iss, SeenGp, due)
        BY <2>6, <4>3, <4>4, ProgramCycle
      <4>5. CASE InTrap(program, iss, due)
        BY <2>6, <4>3, <4>5, TrapCycle
      <4>6. ASSUME NEW n, NEW j, due = <<n, j>>, Flow(program, n, j, SeenGp),
                   InIrq(program, iss, n, j) \/ OnBranch(iss, n, j)
            PROVE  IssInv' /\ Unseen
        BY <2>6, <4>3, <4>6, IrqCycle, BranchCycle
      <4>. QED BY <4>4, <4>5, <4>6 DEF IssInv, Place
    <3>2. CASE ~(DreqOk(dOk) /\ iOk)
      <4>1. e = Idle(c)
        BY <2>1, <2>6, <3>2 DEF Executed
      <4>2. Waiting(c, m)
        BY <2>2, <2>4 DEF Waiting
      <4>3. Interrupt(e, dOk) \/ Complete(e, dOk)
        BY <2>6, <4>1 DEF Except, Idle
      <4>. QED BY <2>4, <4>1, <4>2, <4>3, IdleCycle
    <3>. QED BY <3>1, <3>2
  <2>. QED BY <1>2, <2>5, <2>6 DEF Cycle
<1>. QED BY <1>1, <1>2 DEF Next

LEMMA IssType == IssInv => TypeOK
<1>. SUFFICES ASSUME IssInv PROVE TypeOK
  OBVIOUS
<1>1. /\ iss.pc \in DOMAIN program
      /\ due = NoDue \/ due \in (DOMAIN program) \X (DOMAIN program)
  BY PlaceFacts DEF IssInv
<1>2. /\ iss.gp \in [DOMAIN InitGp -> Words] /\ iss.delay \in 0 .. 2
      /\ {iss.exl, iss.ie, iss.ip, iss.dreq.valid} \subseteq BOOLEAN
  BY DEF IssInv, Cpus, Reqs
<1>3. mem \in [DOMAIN InitMem -> Words] /\ (iss.dreq.valid => iss.dreq.addr \in DOMAIN mem)
  BY DEF IssInv, Memories, Posted
<1>. QED BY <1>1, <1>2, <1>3 DEF TypeOK

LEMMA Invariance == Spec => []IssInv
<1>1. IssInv /\ [Next]_vars => IssInv'
  BY IssNext
<1>. QED BY IssInit, <1>1, PTL DEF Spec

(* The program counter stays in the text, every posted request is aligned  *)
(* and in the memory, and where to go on after an interrupt is in the text. *)
THEOREM TypeCorrect == Spec => []TypeOK
BY Invariance, IssType, PTL

(* The simulator is the sequential processor: whatever the order of the    *)
(* responses, the stalls and the interrupts, every instruction has its     *)
(* effect exactly once and in program order.                               *)
THEOREM Refinement == Spec => ImplementsIsa
<1>1. IssInv /\ [Next]_vars => [Mips!Next]_(Mips!vars)
  BY IssNext DEF Unseen
<1>. QED BY IssInit, Invariance, <1>1, PTL DEF Spec, ImplementsIsa, Mips!Spec
=============================================================================
