------------------------------- MODULE NbBus -------------------------------
(***************************************************************************)
(* The bus of the platform and what hangs on it: hardware/nb_bus.{h,cpp},  *)
(* hardware/memory.{h,cpp}, and the peripherals gpb.cpp, uart.cpp and      *)
(* helper.cpp, composed with the scratch pad memory.                       *)
(*                                                                         *)
(* The bus has one initiator, the wrapper's b_socket.  nb_transport_fw     *)
(* finds the target whose interval holds the address, starting with the    *)
(* interval of the previous access, makes the address relative to it and   *)
(* forwards the payload; nb_transport_bw adds the base of the responding   *)
(* target's interval again, because the wrapper recognises a bus response  *)
(* by its address and by nothing else.                                     *)
(*                                                                         *)
(* Every target but the scratch pad memory has the same thread: wait for   *)
(* the event of a payload event queue (peq_with_get), take one payload,    *)
(* serve it, call back.  Queueing a payload notifies the event at once; a  *)
(* thread that is not waiting at that instant misses it.                   *)
(*                                                                         *)
(* The scratch pad memory is used through what it promises: its bus port   *)
(* and the wrapper's two direct ports are ports of an AtomicMemory (SPM    *)
(* implements it).  Addresses are words, as in SPM.                        *)
(***************************************************************************)
EXTENDS Integers, Sequences, FiniteSets

CONSTANTS
  Memories,    (* targets of class Memory: reset, except, dense_mem        *)
  Inputs,      (* GPBuffers of direction BUFF_IN                           *)
  Outputs,     (* GPBuffers of direction BUFF_OUT                          *)
  Uarts,       (* the UART                                                 *)
  Helpers,     (* the helper                                               *)
  Spm,         (* the scratch pad memory                                   *)
  Base, Size,  (* Interval::addr and size() of each target                 *)
  Lanes, Byte, ZeroWord,  (* byte lanes of a word, what a lane holds, the  *)
               (* word of a fresh payload                                  *)
  File, EOF,   (* the words read from the data file of an input, and after *)
  MaxIo,       (* bound: accesses to peripherals                           *)
  Requests     (* what the wrapper may ask in each slot                    *)

Loggers == Outputs \cup Uarts \cup Helpers
Queued  == Memories \cup Inputs \cup Loggers
Targets == Queued \cup {Spm}

(* The payloads that can be in flight: a fetch by i_socket or by the bus,  *)
(* a data access by d_socket, or by the bus to a memory or a peripheral.   *)
Slots    == {"i", "d", "fetch", "data", "io"}
SpmPorts == {"i", "d", "data"}
BusSlots == {"fetch", "data", "io"}
MemSlots == {"i", "d", "fetch", "data"}

(* run_sim has one fetch and one data access outstanding at most.          *)
Rivals(s) == IF s \in {"i", "fetch"} THEN {"i", "fetch"} ELSE {"d", "data", "io"}

Last(t)  == Base[t] + Size[t] - 1
In(t, a) == Base[t] <= a /\ a <= Last(t)

Word    == [Lanes -> Byte]
Request == [cmd : {"READ", "WRITE"}, addr : Nat, be : SUBSET Lanes, data : Word]
Payload == [addr : Nat, data : Word, rsp : {"NONE", "INCOMPLETE", "OK", "ADDRESS_ERROR"}]

ASSUME NbBusAssumption ==
  (* A target is of one class. *)
  /\ Spm \notin Queued /\ Memories \cap Inputs = {} /\ Loggers \cap (Memories \cup Inputs) = {}
  /\ Outputs \cap (Uarts \cup Helpers) = {} /\ Uarts \cap Helpers = {}
  /\ Base \in [Targets -> Nat] /\ Base[Spm] = 0
  /\ Size \in [Targets -> Nat \ {0}]
  /\ \A t, u \in Targets : t # u => Last(t) < Base[u] \/ Last(u) < Base[t]
  /\ ZeroWord \in Word /\ File \in Seq(Word) /\ EOF \in Word
  /\ Requests \in [Slots -> SUBSET Request]
  (* Peripherals have a slot of their own; code is never fetched from the  *)
  (* scratch pad memory through the bus; the direct ports only reach it.   *)
  /\ \A r \in Requests["io"] : \A t \in Memories \cup {Spm} : ~In(t, r.addr)
  /\ \A r \in Requests["data"] \cup Requests["fetch"] :
       \A t \in Queued \ Memories : ~In(t, r.addr)
  /\ \A r \in Requests["fetch"] : ~In(Spm, r.addr)
  /\ \A r \in Requests["i"] \cup Requests["d"] : In(Spm, r.addr)

VARIABLES
  previous,    (* the target of the interval the last access resolved to   *)
  issued,      (* history: the request of each slot as the wrapper built it *)
  pl,          (* the payload of each slot: addr, data, and rsp, OK when    *)
               (* the wrapper has been called back                         *)
  peq,         (* m_peq of each target: the slots queued in it             *)
  pc,          (* the thread of each target: "asleep" in wait(event),      *)
               (* "woken", or "access" while it waits in an access         *)
  serving,     (* the payload each target serves or last served            *)
  storage,     (* the words of the memories, by bus address                *)
  fileRead,    (* position in the data file of each input                  *)
  written,     (* the words the outputs, the UART and the helper took, in  *)
               (* order, each with the target that took it                 *)
  spmMem, spmPhase, spmReq, spmAnswer,   (* the scratch pad memory         *)
  aborted,     (* the wrapper called abort(): no target at this address    *)
  asked, got   (* history: the words the program gave to the peripherals,  *)
               (* each with the target, and those each input answered it   *)

spmVars == <<spmMem, spmPhase, spmReq, spmAnswer>>
devVars == <<fileRead, written>>
hisVars == <<asked, got>>
vars == <<previous, issued, pl, peq, pc, serving, storage, devVars, spmVars,
          aborted, hisVars>>

(* The scratch pad memory, at addresses relative to its interval.          *)
SpmMemory == INSTANCE AtomicMemory WITH
  Ports <- SpmPorts, Addrs <- 0 .. Size[Spm] - 1,
  mem <- spmMem, phase <- spmPhase, req <- spmReq, answer <- spmAnswer

Idle(s) == pl[s].rsp # "INCOMPLETE"
Free(s) == ~aborted /\ \A q \in Rivals(s) : Idle(q)

Words == UNION {Base[t] .. Last(t) : t \in Memories}

Init ==
  /\ previous \in {t \in Targets : \A u \in Targets : Base[u] <= Base[t]}
  /\ issued = [s \in Slots |-> [cmd |-> "READ", addr |-> 0, be |-> {}, data |-> ZeroWord]]
  /\ pl = [s \in Slots |-> [addr |-> 0, data |-> ZeroWord, rsp |-> "NONE"]]
  /\ peq = [t \in Queued |-> << >>]
  /\ pc = [t \in Queued |-> "asleep"]
  /\ serving = [t \in Queued |-> "fetch"]
  /\ storage = [a \in Words |-> ZeroWord]
  /\ fileRead = [t \in Inputs |-> 0]
  /\ written = << >>
  /\ SpmMemory!Init
  /\ aborted = FALSE
  /\ asked = << >>
  /\ got = [t \in Inputs |-> << >>]

-----------------------------------------------------------------------------
(***************************************************************************)
(* resolve.  Intervals are sorted by decreasing base, so lower_bound finds *)
(* the one with the highest base not above the address.                    *)
(***************************************************************************)
LowerBound(a) ==
  {t \in Targets : Base[t] <= a /\ \A u \in Targets : Base[u] <= a => Base[u] <= Base[t]}

(* The second resolve, which does not look at the previous interval.       *)
Lookup(a) == {t \in LowerBound(a) : a <= Last(t)}

(* Mutant: an interval ends one word too late. *)
ResolveLate(a) ==
  IF Base[previous] <= a /\ a <= Base[previous] + Size[previous]
  THEN {previous} ELSE Lookup(a)

resolve(a) == IF In(previous, a) THEN {previous} ELSE Lookup(a)

Build(s, r) == issued' = [issued EXCEPT ![s] = r]

(* Mutant: only memories have a sensitive thread. *)
NotifyMemoriesOnly(t) ==
  pc' = [pc EXCEPT ![t] = IF @ = "asleep" /\ t \in Memories THEN "woken" ELSE @]

(* A notification wakes a thread only while it waits for its event.        *)
Notify(t) == pc' = [pc EXCEPT ![t] = IF @ = "asleep" THEN "woken" ELSE @]

(* The words inputs have answered, one by one, for the bound MaxIo.         *)
Answers == {p \in Inputs \X (1 .. MaxIo) : p[2] <= Len(got[p[1]])}

(***************************************************************************)
(* nb_transport_fw.  Forward: the bus resolves the address, the payload    *)
(* gets its offset and the target queues it (a payload of 4 bytes is never *)
(* a burst error).  The helper writes its registers in the call itself.    *)
(***************************************************************************)
Forward(s, r, t) ==
  /\ s \in BusSlots /\ Free(s) /\ t \in resolve(r.addr) \cap Queued
  /\ s = "io" => Len(asked) + Cardinality(Answers) < MaxIo
  /\ previous' = t
  /\ Build(s, r)
  /\ pl' = [pl EXCEPT ![s] = [addr |-> r.addr - Base[t], data |-> r.data,
                              rsp |-> "INCOMPLETE"]]
  /\ peq' = [peq EXCEPT ![t] = Append(@, s)]
  /\ Notify(t)
  /\ written' = IF t \in Helpers /\ r.cmd = "WRITE"
                THEN Append(written, <<t, r.data>>) ELSE written
  /\ asked' = IF t \in Loggers /\ r.cmd = "WRITE"
              THEN Append(asked, <<t, r.data>>) ELSE asked
  /\ UNCHANGED <<serving, storage, fileRead, spmVars, aborted, got>>

(* The same to the bus port of the scratch pad memory.                     *)
ForwardToSpm(s, r) ==
  /\ s \in BusSlots /\ Free(s) /\ Spm \in resolve(r.addr)
  /\ previous' = Spm
  /\ Build(s, r)
  /\ pl' = [pl EXCEPT ![s] = [addr |-> r.addr - Base[Spm], data |-> r.data,
                              rsp |-> "INCOMPLETE"]]
  /\ SpmMemory!Ask(s, [r EXCEPT !.addr = @ - Base[Spm]])
  /\ UNCHANGED <<peq, pc, serving, storage, devVars, aborted, hisVars>>

(* No interval holds the address: the wrapper aborts on the status.        *)
Unresolved(s, r) ==
  /\ s \in BusSlots /\ Free(s) /\ resolve(r.addr) = {}
  /\ Build(s, r)
  /\ pl' = [pl EXCEPT ![s] = [addr |-> r.addr, data |-> r.data, rsp |-> "ADDRESS_ERROR"]]
  /\ aborted' = TRUE
  /\ UNCHANGED <<previous, peq, pc, serving, storage, devVars, spmVars, hisVars>>

(* i_socket and d_socket are bound to ports of the scratch pad memory.     *)
Direct(s, r) ==
  /\ s \in SpmPorts \ BusSlots /\ Free(s)
  /\ Build(s, r)
  /\ pl' = [pl EXCEPT ![s] = [addr |-> r.addr, data |-> r.data, rsp |-> "INCOMPLETE"]]
  /\ SpmMemory!Ask(s, r)
  /\ UNCHANGED <<previous, peq, pc, serving, storage, devVars, aborted, hisVars>>

-----------------------------------------------------------------------------
(***************************************************************************)
(* nb_transport_bw of the bus, called by target t with payload s: the      *)
(* address becomes a bus address again and the wrapper queues the response. *)
(***************************************************************************)
(* Mutants: the base is taken from the interval of the last request; the   *)
(* offset of the forward path is computed a second time.                   *)
AnsweredFromCache(p, s, t) == [p EXCEPT ![s].rsp = "OK", ![s].addr = @ + Base[previous]]
AnsweredSubtract(p, s, t)  == [p EXCEPT ![s].rsp = "OK", ![s].addr = @ - Base[t]]

Answered(p, s, t) == [p EXCEPT ![s].rsp = "OK", ![s].addr = @ + Base[t]]

(* Mutant: the byte enables are ignored. *)
OverlayAll(old, new, lanes) == new

Overlay(old, new, lanes) == [l \in Lanes |-> IF l \in lanes THEN new[l] ELSE old[l]]

(* Mutant: the payload stays in the queue. *)
TakeKeeping(t) ==
  /\ ~aborted /\ pc[t] = "woken"
  /\ serving' = [serving EXCEPT ![t] = Head(peq[t])]
  /\ UNCHANGED <<peq, previous, issued, spmVars, aborted, asked>>

(* The thread of t is woken and takes the first payload of its queue.      *)
Take(t) ==
  /\ ~aborted /\ pc[t] = "woken"
  /\ serving' = [serving EXCEPT ![t] = Head(peq[t])]
  /\ peq' = [peq EXCEPT ![t] = Tail(@)]
  /\ UNCHANGED <<previous, issued, spmVars, aborted, asked>>

(***************************************************************************)
(* memory_process: trans_read_data or trans_write_data moves the enabled   *)
(* lanes, then waits for the latency (at least a delta cycle).             *)
(***************************************************************************)
Serve(t) ==
  /\ t \in Memories /\ Take(t)
  /\ LET s == Head(peq[t])
         a == pl[s].addr + Base[t]
     IN \/ /\ issued[s].cmd = "READ"
           /\ pl' = [pl EXCEPT ![s].data = Overlay(@, storage[a], issued[s].be)]
           /\ UNCHANGED storage
        \/ /\ issued[s].cmd = "WRITE"
           /\ storage' = [storage EXCEPT ![a] = Overlay(@, pl[s].data, issued[s].be)]
           /\ UNCHANGED pl
  /\ pc' = [pc EXCEPT ![t] = "access"]
  /\ UNCHANGED <<devVars, got>>

(* UART::write prints and waits for a delta cycle.                         *)
PutChar(t) ==
  /\ t \in Uarts /\ Take(t)
  /\ LET s == Head(peq[t])
     IN /\ issued[s].cmd = "WRITE"
        /\ written' = Append(written, <<t, pl[s].data>>)
  /\ pc' = [pc EXCEPT ![t] = "access"]
  /\ UNCHANGED <<pl, storage, fileRead, got>>

(* The access is over: the response goes back and the thread waits again,  *)
(* whether or not its queue holds another payload.                         *)
Respond(t) ==
  /\ ~aborted /\ pc[t] = "access"
  /\ pl' = Answered(pl, serving[t], t)
  /\ pc' = [pc EXCEPT ![t] = "asleep"]
  /\ UNCHANGED <<previous, issued, peq, serving, storage, devVars, spmVars,
                 aborted, hisVars>>

(* Mutant: at the end of the file the buffer starts again.                 *)
NextWordLooping(t) == IF fileRead[t] < Len(File) THEN File[fileRead[t] + 1] ELSE File[1]

(* GPBuffer::read: the next word of the file, EOF for ever behind its end. *)
NextWord(t) == IF fileRead[t] < Len(File) THEN File[fileRead[t] + 1] ELSE EOF

(***************************************************************************)
(* GPBuffer::process and Helper::process do not wait in an access.  An     *)
(* access in the wrong direction has no effect and is answered OK, and so  *)
(* is a read of the UART.                                                  *)
(***************************************************************************)
Read(t) ==
  /\ t \in Inputs /\ Take(t)
  /\ LET s == Head(peq[t])
     IN IF issued[s].cmd = "READ"
        THEN /\ fileRead' = [fileRead EXCEPT ![t] = IF @ < Len(File) THEN @ + 1 ELSE @]
             /\ pl' = Answered([pl EXCEPT ![s].data = NextWord(t)], s, t)
             /\ got' = [got EXCEPT ![t] = Append(@, NextWord(t))]
        ELSE pl' = Answered(pl, s, t) /\ UNCHANGED <<fileRead, got>>
  /\ pc' = [pc EXCEPT ![t] = "asleep"]
  /\ UNCHANGED <<storage, written>>

Write(t) ==
  /\ t \in Loggers /\ Take(t)
  /\ LET s == Head(peq[t])
     IN /\ t \in Uarts => issued[s].cmd # "WRITE"
        /\ pl' = Answered(pl, s, t)
        /\ written' = IF t \in Outputs /\ issued[s].cmd = "WRITE"
                      THEN Append(written, <<t, pl[s].data>>) ELSE written
  /\ pc' = [pc EXCEPT ![t] = "asleep"]
  /\ UNCHANGED <<storage, fileRead, got>>

(* The banks of the scratch pad memory. *)
SpmPerform(s) ==
  /\ ~aborted /\ SpmMemory!Perform(s)
  /\ pl' = [pl EXCEPT ![s].data = spmAnswer'[s]]
  /\ UNCHANGED <<previous, issued, peq, pc, serving, storage, devVars, aborted, hisVars>>

SpmRespond(s) ==
  /\ ~aborted /\ SpmMemory!Respond(s)
  /\ pl' = IF s \in BusSlots THEN Answered(pl, s, Spm) ELSE [pl EXCEPT ![s].rsp = "OK"]
  /\ UNCHANGED <<previous, issued, peq, pc, serving, storage, devVars, aborted, hisVars>>

Thread(t)  == Serve(t) \/ PutChar(t) \/ Respond(t) \/ Read(t) \/ Write(t)
SpmStep(s) == SpmPerform(s) \/ SpmRespond(s)

Next ==
  \/ \E s \in Slots : \E r \in Requests[s] :
       \/ \E t \in Queued : Forward(s, r, t)
       \/ ForwardToSpm(s, r)
       \/ Unresolved(s, r)
       \/ Direct(s, r)
  \/ \E t \in Queued : Thread(t)
  \/ \E s \in SpmPorts : SpmStep(s)

Spec == Init /\ [][Next]_vars

(* The kernel runs every runnable thread.  The bus port has the lowest     *)
(* priority value of the scratch pad memory, so it is always served (SPM,  *)
(* ServedWhenOthersQuiet); the other two ports are promised nothing here.  *)
FairSpec ==
  Spec /\ (\A t \in Queued : WF_vars(Thread(t))) /\ WF_vars(SpmStep("data"))

-----------------------------------------------------------------------------
(***************************************************************************)
(* Properties                                                              *)
(***************************************************************************)
(* Every variable has its type: addresses are bus or offset addresses, a   *)
(* queue holds slots of the bus, a file position never leaves the file.    *)
TypeOK ==
  /\ previous \in Targets
  /\ issued \in [Slots -> Request]
  /\ pl \in [Slots -> Payload]
  /\ peq \in [Queued -> Seq(BusSlots)]
  /\ pc \in [Queued -> {"asleep", "woken", "access"}]
  /\ serving \in [Queued -> BusSlots]
  /\ storage \in [Words -> Word]
  /\ fileRead \in [Inputs -> 0 .. Len(File)]
  /\ written \in Seq(Loggers \X Word)
  /\ spmMem \in [0 .. Size[Spm] - 1 -> Word]
  /\ spmPhase \in [SpmPorts -> {"idle", "asked", "performed"}]
  /\ spmReq \in [SpmPorts -> Request] /\ spmAnswer \in [SpmPorts -> Word]
  /\ aborted \in BOOLEAN
  /\ asked \in Seq(Loggers \X Word) /\ got \in [Inputs -> Seq(Word)]

(***************************************************************************)
(* Where an address leads does not depend on what was accessed before:     *)
(* the shortcut through the previous interval and the search agree.        *)
(***************************************************************************)
ResolutionHistoryFree ==
  \A a \in UNION {Base[t] .. Last(t) + 1 : t \in Targets} : resolve(a) = Lookup(a)

(***************************************************************************)
(* A response carries the address of its request, although the bus and the *)
(* target rewrote it and other accesses moved the previous interval since. *)
(* nb_transport_bw_b of the wrapper depends on it ("it forces the          *)
(* interconnects to reconstruct original @ on bw path").                   *)
(***************************************************************************)
AddressRestored == \A s \in Slots : pl[s].rsp = "OK" => pl[s].addr = issued[s].addr

(***************************************************************************)
(* A payload is in one place until it is answered: in one queue once, or   *)
(* in service by one thread, or in the scratch pad memory.  A woken thread *)
(* finds a payload: get_next_transaction never returns NULL to it.  Behind *)
(* a sleeping thread at most one payload is left.                          *)
(***************************************************************************)
Places(s) ==
  {p \in Queued \X (1 .. 2) : p[2] <= Len(peq[p[1]]) /\ peq[p[1]][p[2]] = s}
    \cup {<<t, 0>> : t \in {u \in Queued : pc[u] = "access" /\ serving[u] = s}}
    \cup {<<Spm, 0>> : x \in {p \in SpmPorts : p = s /\ spmPhase[p] # "idle"}}

OnePlace ==
  /\ \A s \in Slots : IF Idle(s) THEN Places(s) = {} ELSE Cardinality(Places(s)) = 1
  /\ \A t \in Queued : /\ pc[t] = "woken" => peq[t] # << >>
                       /\ pc[t] = "asleep" => Len(peq[t]) <= 1

(* A fetch and a data access are in flight to one memory of the bus: the   *)
(* second may be queued while the thread is not in wait(), and no later    *)
(* step of memory_process looks into the queue again.                      *)
Shared == \E t \in Memories : {"fetch", "data"} \subseteq
            {s \in BusSlots : ~Idle(s) /\ In(t, issued[s].addr)}

(***************************************************************************)
(* As long as no fetch and data access are in flight to one memory of the  *)
(* bus together, every access over the bus is answered, or the simulation  *)
(* stops on an address without a target.                                   *)
(***************************************************************************)
AnsweredUnlessShared ==
  [](~Shared) => \A s \in BusSlots : ~Idle(s) ~> (Idle(s) \/ aborted)

(***************************************************************************)
(* Peripherals see the accesses of the program in its order, also across   *)
(* targets: what they took is what the program wrote, up to one word on    *)
(* its way; what an input answered is its file from the start, then EOF.   *)
(***************************************************************************)
DevicesInOrder ==
  /\ Len(written) <= Len(asked) /\ written = SubSeq(asked, 1, Len(written))
  /\ Len(asked) <= Len(written) + (IF Idle("io") THEN 0 ELSE 1)
  /\ \A t \in Inputs : \A k \in 1 .. Len(got[t]) :
       got[t][k] = IF k <= Len(File) THEN File[k] ELSE EOF

-----------------------------------------------------------------------------
(***************************************************************************)
(* What the wrapper is promised: the memories behind all its sockets are   *)
(* one atomic memory over bus addresses.                                   *)
(***************************************************************************)
PhaseOf(s) ==
  IF Idle(s) THEN "idle"
  ELSE IF s \in SpmPorts /\ spmPhase[s] # "idle" THEN spmPhase[s]
  ELSE IF \E t \in Memories : pc[t] = "access" /\ serving[t] = s THEN "performed"
  ELSE "asked"

Atomic == INSTANCE AtomicMemory WITH
  Ports  <- MemSlots,
  Addrs  <- Words \cup (0 .. Size[Spm] - 1),
  mem    <- [a \in Words \cup (0 .. Size[Spm] - 1) |->
               IF a \in Words THEN storage[a] ELSE spmMem[a]],
  phase  <- [s \in MemSlots |-> PhaseOf(s)],
  req    <- [s \in MemSlots |-> issued[s]],
  answer <- [s \in MemSlots |-> pl[s].data]

(***************************************************************************)
(* Direct ports, bus, offsets, queues and latencies cannot be observed: an *)
(* access takes effect at one instant on one flat memory.                  *)
(***************************************************************************)
ImplementsAtomicMemory == Atomic!Spec
=============================================================================
