-------------------------------- MODULE SPM --------------------------------
(***************************************************************************)
(* The scratch pad memory of the simulated SoC: several bus ports in front *)
(* of several memory banks (hardware/scratch_pad_memory.{h,cpp} and        *)
(* hardware/arbitrated_mem.{h,cpp}).                                       *)
(*                                                                         *)
(* Each port owns a one-place buffer (pl_buffer).  An initiator calls      *)
(* nb_transport_fw, which decodes the bank, fills the buffer, rewrites the *)
(* address of the payload to an offset in that bank and notifies the bank. *)
(* Each bank is a SystemC thread (memory_process): it sleeps on its event, *)
(* then, at the end of every delta cycle, takes the buffered request of    *)
(* the port with the lowest priority value, accesses its storage, waits    *)
(* for the latency of the technology, restores the bus address and calls   *)
(* the initiator back, until no request is left.                           *)
(*                                                                         *)
(* Delta cycles are kept, because the arbitration relies on them: Delta    *)
(* ends an evaluation phase, in which the processes run in any order, and  *)
(* a bank in wait(SC_ZERO_TIME) runs in the next one.                      *)
(*                                                                         *)
(* The unit of address is the word: initiators only build word-aligned     *)
(* accesses (Mips32Iss::do_mem_access masks the two low bits).  A word is  *)
(* a function from byte lanes to bytes, so that byte enables are kept.     *)
(* Latencies are abstracted to "some time": a bank may stay in its access  *)
(* while any other process runs.                                           *)
(***************************************************************************)
EXTENDS Integers

CONSTANTS
  NbPorts,     (* number of ports (spm_ports)                             *)
  NbBanks,     (* number of banks (spm_banks)                             *)
  Sizes,       (* size of each bank, in words (spm_sizes)                 *)
  Base,        (* first word address of each bank: the running b_offset   *)
  Prio,        (* priority of each port, lowest value first (spm_prio)    *)
  Lanes,       (* byte lanes of a word                                    *)
  Bytes,       (* values of a byte                                        *)
  ZeroByte,    (* the byte a fresh payload buffer holds (new int(0))      *)
  Requests     (* for each port, the requests its initiator may send      *)

Ports == 0 .. NbPorts - 1
Banks == 0 .. NbBanks - 1
Word  == [Lanes -> Bytes]

(* What an initiator asks, the payload that carries it, a port buffer.     *)
Request == [cmd : {"READ", "WRITE"}, addr : Nat, be : SUBSET Lanes, data : Word]
Payload == [cmd : {"READ", "WRITE"}, addr : Nat, be : SUBSET Lanes, data : Word,
            rsp : {"NONE", "INCOMPLETE", "OK", "ADDRESS_ERROR"}]
Buffer  == [full : BOOLEAN, dest_bank : Banks, bus_addr : Nat]

ASSUME SPMAssumption ==
  /\ NbPorts \in Nat \ {0}
  /\ NbBanks \in Nat \ {0}
  /\ Sizes \in [Banks -> Nat \ {0}]
  /\ Base \in [Banks -> Nat]
  /\ Base[0] = 0
  /\ \A b \in Banks : b + 1 \in Banks => Base[b + 1] = Base[b] + Sizes[b]
  /\ Prio \in [Ports -> Nat]
  /\ ZeroByte \in Bytes
  /\ DOMAIN Requests = Ports
  /\ \A p \in Ports : Requests[p] \subseteq Request

(* The storage of the banks: cell <<b, o>> is word o of bank b. *)
Cells == UNION {{b} \X (0 .. Sizes[b] - 1) : b \in Banks}

ZeroWord == [l \in Lanes |-> ZeroByte]

(* Mutant: the lanes that are not enabled are dropped. *)
MergeDropping(dst, src, be) == [l \in be |-> src[l]]

(* Copy the enabled lanes of src over dst: the byte-enable loops of        *)
(* trans_read_data and trans_write_data.                                   *)
Merge(dst, src, be) == [l \in Lanes |-> IF l \in be THEN src[l] ELSE dst[l]]

VARIABLES
  buffers,     (* m_buffers: one pl_buffer per port                       *)
  pl,          (* the last transaction payload sent on each port          *)
  issued,      (* history: the request as the initiator of the port built *)
               (* it, before the memory rewrote its address               *)
  pc,          (* where the memory_process of each bank is                *)
  target,      (* the port each bank serves or last served                *)
  content,     (* m_content of all banks                                  *)
  aborted,     (* the simulator called abort()                            *)
  slept,       (* history: the banks asleep when the delta cycle began    *)
  rivals       (* history: for each bank, the ports whose requests came   *)
               (* in the delta cycle that woke it up                      *)

vars == <<buffers, pl, issued, pc, target, content, aborted, slept, rivals>>

(***************************************************************************)
(* An initiator has no transaction in flight on its port.  Every initiator *)
(* of the platform waits for the response of a port before it sends there  *)
(* again (run_sim of the wrapper, run_test_cases of the generator).        *)
(***************************************************************************)
Idle(p) == pl[p].rsp # "INCOMPLETE"

(* Every bank has reached its first wait(m_req_notif).  run_iss waits 1 ps *)
(* before its first request, so the initialisation phase is over by then.  *)
Booted == \A b \in Banks : pc[b] # "start"

(* The requests check_req shows to bank b. *)
Pending(b) == {p \in Ports : buffers[p].full /\ buffers[p].dest_bank = b}

(* The bank whose walk of nb_transport_fw stops at for word address a. *)
DecodesTo(a, b) ==
  /\ b = NbBanks - 1 \/ a <= Base[b] + Sizes[b] - 1
  /\ \A c \in Banks : c < b => a > Base[c] + Sizes[c] - 1

(* The bounds check that follows the walk. *)
InBank(a, b) == a - Base[b] <= Sizes[b]

Init ==
  /\ buffers = [p \in Ports |-> [full |-> FALSE, dest_bank |-> 0, bus_addr |-> 0]]
  /\ pl = [p \in Ports |-> [cmd |-> "READ", addr |-> 0, be |-> {},
                            data |-> ZeroWord, rsp |-> "NONE"]]
  /\ issued = [p \in Ports |-> [cmd |-> "READ", addr |-> 0, be |-> {}, data |-> ZeroWord]]
  /\ pc = [b \in Banks |-> "start"]
  /\ target = [b \in Banks |-> 0]
  /\ content = [c \in Cells |-> ZeroWord]
  /\ aborted = FALSE
  /\ slept = {}
  /\ rivals = [b \in Banks |-> {}]

(* memory_process runs up to its first wait(m_req_notif). *)
Boot(b) ==
  /\ pc[b] = "start"
  /\ pc' = [pc EXCEPT ![b] = "asleep"]
  /\ UNCHANGED <<buffers, pl, issued, target, content, aborted, slept, rivals>>

(***************************************************************************)
(* No process is left to run in this delta cycle: the kernel starts the    *)
(* next one, at once or after some time, and a bank that is past           *)
(* wait(SC_ZERO_TIME) looks at the buffers in it.                          *)
(***************************************************************************)
Delta ==
  /\ ~aborted /\ Booted /\ \A b \in Banks : pc[b] # "scan"
  /\ pc' = [b \in Banks |-> IF pc[b] = "zero" THEN "scan" ELSE pc[b]]
  /\ slept' = {b \in Banks : pc[b] = "asleep"}
  /\ UNCHANGED <<buffers, pl, issued, target, content, aborted, rivals>>

(* Mutant: the bank looks at the buffers as soon as it is notified.        *)
NotifyAtOnce(b) == pc' = IF pc[b] = "asleep" THEN [pc EXCEPT ![b] = "scan"] ELSE pc

(* Immediate notification: it wakes the bank up, into wait(SC_ZERO_TIME),  *)
(* only if it is asleep; otherwise it is lost.                             *)
Notify(b) == pc' = IF pc[b] = "asleep" THEN [pc EXCEPT ![b] = "zero"] ELSE pc

(***************************************************************************)
(* nb_transport_fw.  Send: the address is accepted, set_req fills the      *)
(* buffer (a full buffer aborts the simulation), the payload gets its      *)
(* offset in the bank, and the bank is notified.  Reject: the address is   *)
(* outside the memory; the initiators abort on any status but ACCEPTED.    *)
(***************************************************************************)
Send(p, r, b) ==
  /\ ~aborted /\ Booted /\ Idle(p)
  /\ DecodesTo(r.addr, b) /\ InBank(r.addr, b)
  /\ issued' = [issued EXCEPT ![p] = r]
  /\ aborted' = buffers[p].full
  /\ buffers' = IF buffers[p].full THEN buffers
                ELSE [buffers EXCEPT ![p] =
                        [full |-> TRUE, dest_bank |-> b, bus_addr |-> r.addr]]
  /\ pl' = [pl EXCEPT ![p] = [cmd |-> r.cmd, addr |-> r.addr - Base[b], be |-> r.be,
                              data |-> r.data, rsp |-> "INCOMPLETE"]]
  /\ Notify(b)
  /\ rivals' = [c \in Banks |-> IF c = b /\ b \in slept THEN rivals[c] \cup {p}
                                ELSE rivals[c] \ {p}]
  /\ UNCHANGED <<target, content, slept>>

Reject(p, r, b) ==
  /\ ~aborted /\ Booted /\ Idle(p)
  /\ DecodesTo(r.addr, b) /\ ~InBank(r.addr, b)
  /\ issued' = [issued EXCEPT ![p] = r]
  /\ pl' = [pl EXCEPT ![p] = [cmd |-> r.cmd, addr |-> r.addr, be |-> r.be,
                              data |-> r.data, rsp |-> "ADDRESS_ERROR"]]
  /\ aborted' = TRUE
  /\ UNCHANGED <<buffers, pc, target, content, slept, rivals>>

(***************************************************************************)
(* memory_process, after wait(SC_ZERO_TIME).  Sleep: no buffer holds a     *)
(* request for this bank.                                                  *)
(***************************************************************************)
Sleep(b) ==
  /\ ~aborted /\ pc[b] = "scan" /\ Pending(b) = {}
  /\ pc' = [pc EXCEPT ![b] = "asleep"]
  /\ rivals' = [rivals EXCEPT ![b] = {}]
  /\ UNCHANGED <<buffers, pl, issued, target, content, aborted, slept>>

(* The port the scan of the buffers elects: the strictly lowest priority   *)
(* value, the lowest port among equals.                                    *)
Elected(t, b) ==
  /\ t \in Pending(b)
  /\ \A q \in Pending(b) : Prio[t] < Prio[q] \/ (Prio[t] = Prio[q] /\ t <= q)

(***************************************************************************)
(* Serve: get_req empties the buffer and the data moves at once, before    *)
(* the latency.  An offset outside the bank reads anything and writes      *)
(* outside of the storage.                                                 *)
(***************************************************************************)
ReadData(t, b) ==
  /\ pl[t].cmd = "READ"
  /\ \E w \in IF <<b, pl[t].addr>> \in Cells THEN {content[<<b, pl[t].addr>>]} ELSE Word :
       pl' = [pl EXCEPT ![t].data = Merge(@, w, pl[t].be)]
  /\ UNCHANGED content

(* Mutant: byte enables are ignored by writes. *)
WriteWord(t, b) ==
  /\ pl[t].cmd = "WRITE"
  /\ content' = IF <<b, pl[t].addr>> \in Cells
                THEN [content EXCEPT ![<<b, pl[t].addr>>] = pl[t].data] ELSE content
  /\ UNCHANGED pl

WriteData(t, b) ==
  /\ pl[t].cmd = "WRITE"
  /\ content' = IF <<b, pl[t].addr>> \in Cells
                THEN [content EXCEPT ![<<b, pl[t].addr>>] = Merge(@, pl[t].data, pl[t].be)]
                ELSE content
  /\ UNCHANGED pl

(* Mutant: get_req leaves the buffer full. *)
ServeKeeping(b, t) ==
  /\ ~aborted /\ pc[b] = "scan" /\ Elected(t, b)
  /\ target' = [target EXCEPT ![b] = t]
  /\ pc' = [pc EXCEPT ![b] = "access"]
  /\ ReadData(t, b) \/ WriteData(t, b)
  /\ UNCHANGED <<buffers, issued, aborted, slept, rivals>>

Serve(b, t) ==
  /\ ~aborted /\ pc[b] = "scan" /\ Elected(t, b)
  /\ buffers' = [buffers EXCEPT ![t].full = FALSE]
  /\ target' = [target EXCEPT ![b] = t]
  /\ pc' = [pc EXCEPT ![b] = "access"]
  /\ ReadData(t, b) \/ WriteData(t, b)
  /\ UNCHANGED <<issued, aborted, slept, rivals>>

(* Mutant: the address of the payload stays the offset in the bank. *)
FinishWithOffset(b) ==
  /\ ~aborted /\ pc[b] = "access"
  /\ pl' = [pl EXCEPT ![target[b]].rsp = "OK"]
  /\ pc' = [pc EXCEPT ![b] = "zero"]
  /\ UNCHANGED <<buffers, issued, target, content, aborted, slept, rivals>>

(* Mutant: one request per notification, without the inner scan loop. *)
FinishThenWait(b) ==
  /\ ~aborted /\ pc[b] = "access"
  /\ pl' = [pl EXCEPT ![target[b]].rsp = "OK",
                      ![target[b]].addr = buffers[target[b]].bus_addr]
  /\ pc' = [pc EXCEPT ![b] = "asleep"]
  /\ UNCHANGED <<buffers, issued, target, content, aborted, slept, rivals>>

(***************************************************************************)
(* Finish: the latency has elapsed.  The status is set, the bus address is *)
(* read back from the buffer of the port, the initiator is called back and *)
(* the bank goes back to wait(SC_ZERO_TIME), to scan its ports again.      *)
(***************************************************************************)
Finish(b) ==
  /\ ~aborted /\ pc[b] = "access"
  /\ pl' = [pl EXCEPT ![target[b]].rsp = "OK",
                      ![target[b]].addr = buffers[target[b]].bus_addr]
  /\ pc' = [pc EXCEPT ![b] = "zero"]
  /\ UNCHANGED <<buffers, issued, target, content, aborted, slept, rivals>>

BankStep(b) == Boot(b) \/ Sleep(b) \/ (\E t \in Ports : Serve(b, t)) \/ Finish(b)

Next ==
  \/ \E p \in Ports, b \in Banks : \E r \in Requests[p] : Send(p, r, b) \/ Reject(p, r, b)
  \/ \E b \in Banks : BankStep(b)
  \/ Delta

Spec == Init /\ [][Next]_vars

(* A SystemC kernel runs every runnable process and lets time pass when    *)
(* none is: each bank takes its steps, and delta cycles end.  Nothing      *)
(* obliges an initiator.                                                   *)
FairSpec == Spec /\ WF_vars(Delta) /\ \A b \in Banks : WF_vars(BankStep(b))

-----------------------------------------------------------------------------
(***************************************************************************)
(* Properties                                                              *)
(***************************************************************************)
TypeOK ==
  /\ buffers \in [Ports -> Buffer]
  /\ pl \in [Ports -> Payload]
  /\ issued \in [Ports -> Request]
  /\ pc \in [Banks -> {"start", "asleep", "zero", "scan", "access"}]
  /\ target \in [Banks -> Ports]
  /\ content \in [Cells -> Word]
  /\ aborted \in BOOLEAN
  /\ slept \subseteq Banks
  /\ rivals \in [Banks -> SUBSET Ports]

(* Port p is being served by bank b. *)
InService(p, b) == pc[b] = "access" /\ target[b] = p

(***************************************************************************)
(* No wakeup is lost: m_req_notif is notified immediately, so a bank that  *)
(* is not waiting at that instant never sees the notification; the inner   *)
(* scan must make up for it.  A sleeping bank has no request in a buffer.  *)
(***************************************************************************)
NoLostWakeup == \A b \in Banks : pc[b] = "asleep" => Pending(b) = {}

(***************************************************************************)
(* A request is in exactly one place between nb_transport_fw and the       *)
(* response: in the buffer of its port or in service in exactly one bank.  *)
(* An idle port has nothing left behind in its buffer or in a bank, which  *)
(* is why set_req never finds a full buffer.                               *)
(***************************************************************************)
RequestInOnePlace ==
  \A p \in Ports :
    /\ buffers[p].full => ~Idle(p) /\ \A b \in Banks : ~InService(p, b)
    /\ \A b, c \in Banks : InService(p, b) /\ InService(p, c) => b = c
    /\ ~Idle(p) => buffers[p].full \/ \E b \in Banks : InService(p, b)
    /\ \A b \in Banks : InService(p, b) => ~Idle(p)

(***************************************************************************)
(* A response carries the bus address of the request it answers, although  *)
(* the address was rewritten for the bank and is taken back from a buffer  *)
(* that was emptied before the access: the wrapper and the bus match       *)
(* responses by that address.                                              *)
(***************************************************************************)
AddressRestored ==
  \A p \in Ports : pl[p].rsp = "OK" => pl[p].addr = issued[p].addr

(* No access leaves the storage of the bank that serves it. *)
AccessInBounds ==
  \A b \in Banks, p \in Ports : InService(p, b) => <<b, pl[p].addr>> \in Cells

(* The "buffer is not empty !" abort of nb_transport_fw is unreachable: the *)
(* simulator stops only on an address outside of the memory.               *)
AbortsOnlyOnBadAddress ==
  aborted => \E p \in Ports : pl[p].rsp = "ADDRESS_ERROR"

(***************************************************************************)
(* The order in which the kernel runs the processes of a delta cycle does  *)
(* not decide who is served: of the requests that reach a sleeping bank in *)
(* the same delta cycle, a better one never still waits when a worse one   *)
(* has left its buffer, whichever was sent first and woke the bank up and  *)
(* whatever came meanwhile.  TEST_02 of the generator sends such requests  *)
(* in one order, from one process.                                         *)
(***************************************************************************)
SameCycleByPriority ==
  \A b \in Banks : \A p, q \in rivals[b] :
    Prio[p] < Prio[q] /\ buffers[p].full => buffers[q].full

(***************************************************************************)
(* Starvation has one cause only: whatever the other ports do, a request   *)
(* is answered once the ports of better or equal priority stay quiet (so   *)
(* the port of the best priority always is), unless the simulation stops.  *)
(***************************************************************************)
ServedWhenOthersQuiet ==
  \A p \in Ports :
    <>[](\A q \in Ports \ {p} : Prio[q] <= Prio[p] => Idle(q)) => []<>(Idle(p) \/ aborted)

-----------------------------------------------------------------------------
(***************************************************************************)
(* The memory implements an atomic one.  Word a of the flat array is the   *)
(* cell of the bank that decodes a; a port is "performed" while a bank     *)
(* serves it.                                                              *)
(***************************************************************************)
Addrs == 0 .. Base[NbBanks - 1] + Sizes[NbBanks - 1] - 1

CellOf(a) == CHOOSE c \in Cells : DecodesTo(a, c[1]) /\ c[2] = a - Base[c[1]]

Atomic == INSTANCE AtomicMemory WITH
  mem    <- [a \in Addrs |-> content[CellOf(a)]],
  phase  <- [p \in Ports |-> IF Idle(p) THEN "idle"
                             ELSE IF buffers[p].full THEN "asked" ELSE "performed"],
  req    <- issued,
  answer <- [p \in Ports |-> pl[p].data]

(* Every access through any port behaves as one atomic access to a flat    *)
(* memory: interleaved services of several banks, the early data move and  *)
(* the rewritten addresses cannot be observed by an initiator.             *)
ImplementsAtomicMemory == Atomic!Spec
=============================================================================
