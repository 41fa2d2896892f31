---------------------------- MODULE SPM_proofs ----------------------------
(***************************************************************************)
(* Proofs about the scratch pad memory, for any number of ports and banks, *)
(* any sizes, any priorities and any requests.                             *)
(*                                                                         *)
(* The inductive invariant is SPMInv.  NoLostWakeup is not inductive by    *)
(* itself: a sender must know that its port is idle and hence has nothing  *)
(* in service, and AddressRestored needs that a port in service still has  *)
(* the bus address of its own request in its (empty) buffer.  Both follow  *)
(* from where a request can be (RequestInOnePlace) and from AddressKept.   *)
(***************************************************************************)
EXTENDS SPM, WellFoundedInduction, TLAPS

(* While a request waits or is served, its buffer holds its bus address.   *)
AddressKept ==
  \A p \in Ports : ~Idle(p) => buffers[p].bus_addr = issued[p].addr

(* No request reaches a bank that is not booted.                           *)
BootQuiet ==
  \A b \in Banks : pc[b] = "start" => Pending(b) = {}

SPMInv ==
  /\ TypeOK
  /\ RequestInOnePlace
  /\ NoLostWakeup
  /\ BootQuiet
  /\ AddressKept
  /\ AddressRestored
  /\ AbortsOnlyOnBadAddress

-----------------------------------------------------------------------------
LEMMA BankZero == 0 \in Banks /\ 0 \in Ports
BY SPMAssumption DEF Banks, Ports

LEMMA ZeroWordType == ZeroWord \in Word
BY SPMAssumption DEF ZeroWord, Word

(* Merging lanes of two words gives a word. *)
LEMMA MergeType ==
  ASSUME NEW v \in Word, NEW w \in Word, NEW be
  PROVE  Merge(v, w, be) \in Word
BY DEF Merge, Word

(* The walk of nb_transport_fw stops at a bank that starts at or below the *)
(* address: the offset in the bank is not negative.                        *)
LEMMA OffsetNat ==
  ASSUME NEW a \in Nat, NEW b \in Banks, DecodesTo(a, b)
  PROVE  a - Base[b] \in Nat
<1>1. CASE b = 0
  BY <1>1, SPMAssumption
<1>2. CASE b # 0
  <2>1. b - 1 \in Banks /\ (b - 1) + 1 = b
    BY <1>2, SPMAssumption DEF Banks
  <2>2. a > Base[b - 1] + Sizes[b - 1] - 1
    BY <2>1, SPMAssumption DEF DecodesTo, Banks
  <2>3. Base[b] = Base[b - 1] + Sizes[b - 1]
    BY <2>1, SPMAssumption
  <2>4. Base[b] \in Nat /\ Base[b - 1] \in Nat /\ Sizes[b - 1] \in Nat
    BY <2>1, SPMAssumption
  <2>. QED BY <2>2, <2>3, <2>4
<1>. QED BY <1>1, <1>2

LEMMA InitTypeOK == Init => TypeOK
<1>. SUFFICES ASSUME Init PROVE TypeOK
  OBVIOUS
<1>1. buffers \in [Ports -> Buffer]
  BY BankZero DEF Init, Buffer
<1>2. [cmd |-> "READ", addr |-> 0, be |-> {}, data |-> ZeroWord] \in Request
  BY ZeroWordType DEF Request
<1>3. [cmd |-> "READ", addr |-> 0, be |-> {}, data |-> ZeroWord, rsp |-> "NONE"] \in Payload
  BY ZeroWordType DEF Payload
<1>. QED BY <1>1, <1>2, <1>3, BankZero, ZeroWordType DEF Init, TypeOK

(* Merging into the data of a payload, or answering it, gives a payload.   *)
LEMMA PayloadData ==
  ASSUME NEW v \in Payload, NEW w \in Word
  PROVE  [v EXCEPT !.data = w] \in Payload
BY DEF Payload

LEMMA PayloadAnswer ==
  ASSUME NEW v \in Payload, NEW a \in Nat
  PROVE  [v EXCEPT !.rsp = "OK", !.addr = a] \in Payload
BY DEF Payload

(* A request of a port is well typed, and so is the payload Send makes.    *)
LEMMA RequestType ==
  ASSUME NEW p \in Ports, NEW r \in Requests[p]
  PROVE  /\ r \in Request
         /\ r.addr \in Nat /\ r.cmd \in {"READ", "WRITE"}
         /\ r.be \in SUBSET Lanes /\ r.data \in Word
BY SPMAssumption DEF Request

(* One step per action: what it assigns keeps its type. *)
LEMMA NextTypeOK == TypeOK /\ [Next]_vars => TypeOK'
<1>. SUFFICES ASSUME TypeOK, [Next]_vars PROVE TypeOK'
  OBVIOUS
<1>1. ASSUME NEW p \in Ports, NEW b \in Banks, NEW r \in Requests[p], Send(p, r, b)
      PROVE TypeOK'
  <2>1. r.addr - Base[b] \in Nat
    BY <1>1, RequestType, OffsetNat DEF Send
  <2>2. [cmd |-> r.cmd, addr |-> r.addr - Base[b], be |-> r.be,
         data |-> r.data, rsp |-> "INCOMPLETE"] \in Payload
    BY <2>1, RequestType DEF Payload
  <2>3. [full |-> TRUE, dest_bank |-> b, bus_addr |-> r.addr] \in Buffer
    BY RequestType DEF Buffer
  <2>4. aborted' \in BOOLEAN
    BY <1>1 DEF Send, TypeOK, Buffer
  <2>5. pc' \in [Banks -> {"start", "asleep", "zero", "scan", "access"}]
    BY <1>1 DEF Send, Notify, TypeOK
  <2>. QED BY <1>1, <2>2, <2>3, <2>4, <2>5, RequestType DEF Send, TypeOK
<1>2. ASSUME NEW p \in Ports, NEW b \in Banks, NEW r \in Requests[p], Reject(p, r, b)
      PROVE TypeOK'
  <2>1. [cmd |-> r.cmd, addr |-> r.addr, be |-> r.be,
         data |-> r.data, rsp |-> "ADDRESS_ERROR"] \in Payload
    BY RequestType DEF Payload
  <2>. QED BY <1>2, <2>1, RequestType DEF Reject, TypeOK
<1>3. ASSUME NEW b \in Banks, Boot(b) PROVE TypeOK'
  BY <1>3 DEF Boot, TypeOK
<1>4. ASSUME NEW b \in Banks, Sleep(b) PROVE TypeOK'
  BY <1>4 DEF Sleep, TypeOK
<1>5. ASSUME NEW b \in Banks, NEW t \in Ports, Serve(b, t) PROVE TypeOK'
  <2>1. pl[t].be \in SUBSET Lanes /\ pl[t].data \in Word
    BY DEF TypeOK, Payload
  <2>2. pl' \in [Ports -> Payload] /\ content' \in [Cells -> Word]
    <3>1. CASE ReadData(t, b)
      <4>1. PICK w \in IF <<b, pl[t].addr>> \in Cells THEN {content[<<b, pl[t].addr>>]} ELSE Word :
               pl' = [pl EXCEPT ![t].data = Merge(pl[t].data, w, pl[t].be)]
        BY <3>1 DEF ReadData
      <4>2. w \in Word
        BY <4>1 DEF TypeOK
      <4>3. Merge(pl[t].data, w, pl[t].be) \in Word
        BY <2>1, <4>2, MergeType
      <4>4. [pl[t] EXCEPT !.data = Merge(pl[t].data, w, pl[t].be)] \in Payload
        BY <4>3, PayloadData DEF TypeOK
      <4>. QED BY <3>1, <4>1, <4>4 DEF ReadData, TypeOK
    <3>2. CASE WriteData(t, b)
      <4>1. ASSUME <<b, pl[t].addr>> \in Cells
            PROVE  Merge(content[<<b, pl[t].addr>>], pl[t].data, pl[t].be) \in Word
        BY <4>1, <2>1, MergeType DEF TypeOK
      <4>. QED BY <3>2, <4>1 DEF WriteData, TypeOK
    <3>. QED BY <1>5, <3>1, <3>2 DEF Serve
  <2>3. buffers' \in [Ports -> Buffer]
    <3>1. [buffers[t] EXCEPT !.full = FALSE] \in Buffer
      BY DEF TypeOK, Buffer
    <3>. QED BY <1>5, <3>1 DEF Serve, TypeOK
  <2>. QED BY <1>5, <2>2, <2>3 DEF Serve, TypeOK
<1>6. ASSUME NEW b \in Banks, Finish(b) PROVE TypeOK'
  <2>1. target[b] \in Ports /\ buffers[target[b]].bus_addr \in Nat
    BY DEF TypeOK, Buffer
  <2>2. [pl[target[b]] EXCEPT !.rsp = "OK", !.addr = buffers[target[b]].bus_addr] \in Payload
    BY <2>1, PayloadAnswer DEF TypeOK
  <2>3. pl' = [pl EXCEPT ![target[b]] =
                 [pl[target[b]] EXCEPT !.rsp = "OK", !.addr = buffers[target[b]].bus_addr]]
    BY <1>6, <2>1 DEF Finish, TypeOK
  <2>. QED BY <1>6, <2>2, <2>3 DEF Finish, TypeOK
<1>7. CASE Delta
  BY <1>7 DEF Delta, TypeOK
<1>8. CASE UNCHANGED vars
  BY <1>8 DEF vars, TypeOK
<1>. QED BY <1>1, <1>2, <1>3, <1>4, <1>5, <1>6, <1>7, <1>8 DEF Next, BankStep

(* The state of the memory keeps its types in every reachable state. *)
THEOREM TypeCorrect == Spec => []TypeOK
<1>. QED BY InitTypeOK, NextTypeOK, PTL DEF Spec

-----------------------------------------------------------------------------
LEMMA InitSPMInv == Init => SPMInv
<1>. SUFFICES ASSUME Init PROVE SPMInv
  OBVIOUS
<1>1. /\ \A p \in Ports : ~buffers[p].full /\ pl[p].rsp = "NONE"
      /\ \A b \in Banks : pc[b] = "start"
      /\ ~aborted
  BY DEF Init
<1>2. RequestInOnePlace
  BY <1>1 DEF RequestInOnePlace, Idle, InService
<1>3. NoLostWakeup /\ BootQuiet
  BY <1>1 DEF NoLostWakeup, BootQuiet, Pending
<1>4. AddressKept /\ AddressRestored /\ AbortsOnlyOnBadAddress
  BY <1>1 DEF AddressKept, AddressRestored, AbortsOnlyOnBadAddress, Idle
<1>. QED BY <1>2, <1>3, <1>4, InitTypeOK DEF SPMInv

(* nb_transport_fw accepts a request: it joins an empty buffer, since its  *)
(* port was idle, and the bank it is for is not asleep afterwards.         *)
LEMMA SendInv ==
  ASSUME SPMInv, TypeOK', NEW p \in Ports, NEW b \in Banks, NEW r \in Requests[p],
         Send(p, r, b)
  PROVE  SPMInv'
<1>1. ~buffers[p].full /\ \A c \in Banks : ~InService(p, c)
  BY DEF SPMInv, Send, RequestInOnePlace
<1>2. /\ buffers'[p].full /\ buffers'[p].dest_bank = b /\ buffers'[p].bus_addr = r.addr
      /\ \A q \in Ports : q # p => buffers'[q] = buffers[q]
  BY <1>1 DEF Send, SPMInv, TypeOK
<1>3. /\ pl'[p].rsp = "INCOMPLETE"
      /\ \A q \in Ports : q # p => pl'[q] = pl[q]
  BY DEF Send, SPMInv, TypeOK
<1>4. /\ issued'[p] = r
      /\ \A q \in Ports : q # p => issued'[q] = issued[q]
  BY DEF Send, SPMInv, TypeOK
<1>5. /\ pc'[b] # "asleep"
      /\ \A c \in Banks : pc[c] # "start" /\ pc'[c] # "start"
      /\ \A c \in Banks : c # b => pc'[c] = pc[c]
      /\ \A c \in Banks : pc'[c] = "access" <=> pc[c] = "access"
      /\ target' = target
  BY DEF Send, Notify, SPMInv, TypeOK, Booted
<1>6. RequestInOnePlace'
  BY <1>1, <1>2, <1>3, <1>5 DEF SPMInv, RequestInOnePlace, Idle, InService
<1>7. NoLostWakeup' /\ BootQuiet'
  BY <1>2, <1>5 DEF SPMInv, NoLostWakeup, BootQuiet, Pending
<1>8. AddressKept' /\ AddressRestored'
  BY <1>2, <1>3, <1>4 DEF SPMInv, AddressKept, AddressRestored, Idle
<1>9. AbortsOnlyOnBadAddress'
  BY <1>1 DEF Send, AbortsOnlyOnBadAddress
<1>. QED BY <1>6, <1>7, <1>8, <1>9 DEF SPMInv

(* A bank takes the elected request out of its buffer. *)
LEMMA ServeInv ==
  ASSUME SPMInv, TypeOK', NEW b \in Banks, NEW t \in Ports, Serve(b, t)
  PROVE  SPMInv'
<1>1. /\ buffers[t].full /\ buffers[t].dest_bank = b /\ pc[b] = "scan"
  BY DEF Serve, Elected, Pending
<1>2. ~Idle(t) /\ \A c \in Banks : ~InService(t, c)
  BY <1>1 DEF SPMInv, RequestInOnePlace
<1>3. /\ ~buffers'[t].full
      /\ \A q \in Ports : q # t => buffers'[q] = buffers[q]
      /\ \A q \in Ports : buffers'[q].bus_addr = buffers[q].bus_addr
  BY DEF Serve, SPMInv, TypeOK, Buffer
<1>4. /\ \A q \in Ports : q # t => pl'[q] = pl[q]
      /\ \A q \in Ports : pl'[q].rsp = pl[q].rsp
  <2>1. CASE ReadData(t, b)
    BY <2>1 DEF ReadData, SPMInv, TypeOK, Payload
  <2>2. CASE WriteData(t, b)
    BY <2>2 DEF WriteData
  <2>. QED BY <2>1, <2>2 DEF Serve
<1>5. /\ pc'[b] = "access" /\ target'[b] = t
      /\ \A c \in Banks : c # b => pc'[c] = pc[c] /\ target'[c] = target[c]
      /\ issued' = issued /\ ~aborted'
  BY DEF Serve, SPMInv, TypeOK
<1>6. RequestInOnePlace'
  BY <1>1, <1>2, <1>3, <1>4, <1>5 DEF SPMInv, RequestInOnePlace, Idle, InService
<1>7. NoLostWakeup' /\ BootQuiet'
  BY <1>3, <1>5 DEF SPMInv, NoLostWakeup, BootQuiet, Pending
<1>8. AddressKept' /\ AddressRestored'
  <2>1. AddressKept'
    BY <1>3, <1>4, <1>5 DEF SPMInv, AddressKept, Idle
  <2>2. AddressRestored'
    BY <1>2, <1>4, <1>5 DEF SPMInv, AddressRestored, Idle
  <2>. QED BY <2>1, <2>2
<1>9. AbortsOnlyOnBadAddress'
  BY <1>5 DEF AbortsOnlyOnBadAddress
<1>. QED BY <1>6, <1>7, <1>8, <1>9 DEF SPMInv

(* The response: the port becomes idle, with its own bus address back.     *)
LEMMA FinishInv ==
  ASSUME SPMInv, TypeOK', NEW b \in Banks, Finish(b)
  PROVE  SPMInv'
<1> DEFINE t == target[b]
<1>1. t \in Ports /\ pc[b] = "access" /\ InService(t, b)
  BY DEF Finish, SPMInv, TypeOK, InService
<1>2. ~Idle(t) /\ ~buffers[t].full /\ \A c \in Banks : InService(t, c) => c = b
  BY <1>1 DEF SPMInv, RequestInOnePlace
<1>3. /\ pl'[t].rsp = "OK" /\ pl'[t].addr = buffers[t].bus_addr
      /\ \A q \in Ports : q # t => pl'[q] = pl[q]
  BY <1>1 DEF Finish, SPMInv, TypeOK, Payload
<1>4. /\ pc'[b] = "zero"
      /\ \A c \in Banks : c # b => pc'[c] = pc[c]
      /\ buffers' = buffers /\ target' = target /\ issued' = issued /\ ~aborted'
  BY DEF Finish, SPMInv, TypeOK
<1>5. RequestInOnePlace'
  BY <1>1, <1>2, <1>3, <1>4 DEF SPMInv, RequestInOnePlace, Idle, InService
<1>6. NoLostWakeup' /\ BootQuiet'
  BY <1>4 DEF SPMInv, NoLostWakeup, BootQuiet, Pending
<1>7. AddressKept' /\ AddressRestored'
  BY <1>2, <1>3, <1>4 DEF SPMInv, AddressKept, AddressRestored, Idle
<1>8. AbortsOnlyOnBadAddress'
  BY <1>4 DEF AbortsOnlyOnBadAddress
<1>. QED BY <1>5, <1>6, <1>7, <1>8 DEF SPMInv

(* Every step keeps the inductive invariant. *)
LEMMA NextSPMInv == SPMInv /\ [Next]_vars => SPMInv'
<1>. SUFFICES ASSUME SPMInv, [Next]_vars PROVE SPMInv'
  OBVIOUS
<1>0. TypeOK'
  BY NextTypeOK DEF SPMInv
<1>1. ASSUME NEW p \in Ports, NEW b \in Banks, NEW r \in Requests[p], Send(p, r, b)
      PROVE SPMInv'
  BY <1>0, <1>1, SendInv
<1>2. ASSUME NEW p \in Ports, NEW b \in Banks, NEW r \in Requests[p], Reject(p, r, b)
      PROVE SPMInv'
  <2>1. ~buffers[p].full /\ \A c \in Banks : ~InService(p, c)
    BY <1>2 DEF SPMInv, Reject, RequestInOnePlace
  <2>2. /\ pl'[p].rsp = "ADDRESS_ERROR"
        /\ \A q \in Ports : q # p => pl'[q] = pl[q] /\ issued'[q] = issued[q]
        /\ buffers' = buffers /\ pc' = pc /\ target' = target
    BY <1>2 DEF Reject, SPMInv, TypeOK
  <2>3. RequestInOnePlace'
    BY <2>1, <2>2 DEF SPMInv, RequestInOnePlace, Idle, InService
  <2>4. NoLostWakeup' /\ BootQuiet'
    BY <2>2 DEF SPMInv, NoLostWakeup, BootQuiet, Pending
  <2>5. AddressKept' /\ AddressRestored' /\ AbortsOnlyOnBadAddress'
    BY <2>2 DEF SPMInv, AddressKept, AddressRestored, AbortsOnlyOnBadAddress, Idle
  <2>. QED BY <1>0, <2>3, <2>4, <2>5 DEF SPMInv
<1>3. ASSUME NEW b \in Banks, Boot(b) \/ Sleep(b) PROVE SPMInv'
  <2>1. Pending(b) = {} /\ pc[b] # "access"
    BY <1>3 DEF Boot, Sleep, SPMInv, BootQuiet
  <2>2. /\ pc'[b] = "asleep"
        /\ \A c \in Banks : c # b => pc'[c] = pc[c]
        /\ UNCHANGED <<buffers, pl, issued, target, aborted>>
    BY <1>3 DEF Boot, Sleep, SPMInv, TypeOK
  <2>3. RequestInOnePlace'
    BY <2>1, <2>2 DEF SPMInv, RequestInOnePlace, Idle, InService
  <2>4. NoLostWakeup' /\ BootQuiet'
    BY <2>1, <2>2 DEF SPMInv, NoLostWakeup, BootQuiet, Pending
  <2>5. AddressKept' /\ AddressRestored' /\ AbortsOnlyOnBadAddress'
    BY <2>2 DEF SPMInv, AddressKept, AddressRestored, AbortsOnlyOnBadAddress, Idle
  <2>. QED BY <1>0, <2>3, <2>4, <2>5 DEF SPMInv
<1>4. ASSUME NEW b \in Banks, NEW t \in Ports, Serve(b, t) PROVE SPMInv'
  BY <1>0, <1>4, ServeInv
<1>5. ASSUME NEW b \in Banks, Finish(b) PROVE SPMInv'
  BY <1>0, <1>5, FinishInv
<1>6. CASE Delta
  <2>1. /\ \A c \in Banks : pc[c] # "start" /\ pc'[c] # "start"
        /\ \A c \in Banks : pc'[c] = "access" <=> pc[c] = "access"
        /\ \A c \in Banks : pc'[c] = "asleep" <=> pc[c] = "asleep"
        /\ UNCHANGED <<buffers, pl, issued, target, aborted>>
    BY <1>6 DEF Delta, Booted, SPMInv, TypeOK
  <2>2. RequestInOnePlace'
    BY <2>1 DEF SPMInv, RequestInOnePlace, Idle, InService
  <2>3. NoLostWakeup' /\ BootQuiet'
    BY <2>1 DEF SPMInv, NoLostWakeup, BootQuiet, Pending
  <2>4. AddressKept' /\ AddressRestored' /\ AbortsOnlyOnBadAddress'
    BY <2>1 DEF SPMInv, AddressKept, AddressRestored, AbortsOnlyOnBadAddress, Idle
  <2>. QED BY <1>0, <2>2, <2>3, <2>4 DEF SPMInv
<1>7. CASE UNCHANGED vars
  BY <1>7 DEF vars, SPMInv, TypeOK, RequestInOnePlace, NoLostWakeup, BootQuiet, AddressKept,
              AddressRestored, AbortsOnlyOnBadAddress, Idle, InService, Pending
<1>. QED BY <1>1, <1>2, <1>3, <1>4, <1>5, <1>6, <1>7 DEF Next, BankStep

LEMMA SPMInvariant == Spec => []SPMInv
<1>. QED BY InitSPMInv, NextSPMInv, PTL DEF Spec

(* Between nb_transport_fw and the response a request is in exactly one    *)
(* place, so the one-place buffers of the ports never overflow.            *)
THEOREM OnePlace == Spec => []RequestInOnePlace
<1>1. SPMInv => RequestInOnePlace
  BY DEF SPMInv
<1>. QED BY <1>1, SPMInvariant, PTL

(* Immediate notification never leaves a request to a sleeping bank.       *)
THEOREM WakeupKept == Spec => []NoLostWakeup
<1>1. SPMInv => NoLostWakeup
  BY DEF SPMInv
<1>. QED BY <1>1, SPMInvariant, PTL

(* Every response carries the bus address of its request. *)
THEOREM ResponseAddress == Spec => []AddressRestored
<1>1. SPMInv => AddressRestored
  BY DEF SPMInv
<1>. QED BY <1>1, SPMInvariant, PTL

(* The only abort the memory can meet is that of an address out of range.  *)
THEOREM NoOverflowAbort == Spec => []AbortsOnlyOnBadAddress
<1>1. SPMInv => AbortsOnlyOnBadAddress
  BY DEF SPMInv
<1>. QED BY <1>1, SPMInvariant, PTL

-----------------------------------------------------------------------------
(***************************************************************************)
(* Order in a delta cycle.  A bank woken up in this cycle still is in its  *)
(* wait(SC_ZERO_TIME) with all its rivals in their buffers (WokenWaits): a *)
(* bank falls asleep without rivals (NoOldRivals).  A rival that waits     *)
(* later on waits for this bank (RivalsHere), so that the election         *)
(* compares it with the port that is served.                               *)
(***************************************************************************)
WokenWaits ==
  \A b \in slept : pc[b] \in {"asleep", "zero"} /\ \A p \in rivals[b] : buffers[p].full

NoOldRivals ==
  \A b \in Banks : pc[b] \in {"start", "asleep"} => rivals[b] = {}

RivalsHere ==
  \A b \in Banks : \A p \in rivals[b] : buffers[p].full => buffers[p].dest_bank = b

CycleInv == WokenWaits /\ NoOldRivals /\ RivalsHere /\ SameCycleByPriority

(* A request that reaches a bank in the cycle that wakes it up joins       *)
(* rivals that all wait; any other request leaves the rivals.              *)
LEMMA SendCycle ==
  ASSUME SPMInv, CycleInv, NEW p \in Ports, NEW b \in Banks, NEW r \in Requests[p],
         Send(p, r, b)
  PROVE  CycleInv'
<1>1. ~buffers[p].full
  BY DEF SPMInv, Send, RequestInOnePlace
<1>2. /\ buffers'[p].full /\ buffers'[p].dest_bank = b
      /\ \A q \in Ports : q # p => buffers'[q] = buffers[q]
  BY <1>1 DEF Send, SPMInv, TypeOK
<1>3. /\ b \in slept => rivals'[b] = rivals[b] \cup {p}
      /\ b \notin slept => rivals'[b] = rivals[b] \ {p}
      /\ \A c \in Banks : c # b => rivals'[c] = rivals[c] \ {p}
      /\ UNCHANGED slept
  BY DEF Send
<1>4. /\ pc[b] # "start" /\ pc'[b] # "start" /\ pc'[b] # "asleep"
      /\ pc[b] = "asleep" => pc'[b] = "zero"
      /\ pc[b] # "asleep" => pc'[b] = pc[b]
      /\ \A c \in Banks : c # b => pc'[c] = pc[c]
  BY DEF Send, Notify, Booted, SPMInv, TypeOK
<1>5. \A c \in Banks : rivals[c] \subseteq Ports
  BY DEF SPMInv, TypeOK
<1>6. slept \subseteq Banks
  BY DEF SPMInv, TypeOK
<1>7. WokenWaits'
  <2>. SUFFICES ASSUME NEW c \in slept
                PROVE  pc'[c] \in {"asleep", "zero"} /\ \A q \in rivals'[c] : buffers'[q].full
    BY <1>3 DEF WokenWaits
  <2>1. pc[c] \in {"asleep", "zero"} /\ \A q \in rivals[c] : buffers[q].full
    BY DEF CycleInv, WokenWaits
  <2>2. CASE c = b
    BY <1>2, <1>3, <1>4, <1>5, <1>6, <2>1, <2>2
  <2>3. CASE c # b
    BY <1>2, <1>3, <1>4, <1>5, <1>6, <2>1, <2>3
  <2>. QED BY <2>2, <2>3
<1>8. NoOldRivals'
  BY <1>3, <1>4 DEF CycleInv, NoOldRivals
<1>9. RivalsHere'
  BY <1>2, <1>3, <1>5 DEF CycleInv, RivalsHere
<1>10. SameCycleByPriority'
  <2>. SUFFICES ASSUME NEW c \in Banks, NEW x \in rivals'[c], NEW y \in rivals'[c],
                       Prio[x] < Prio[y], buffers'[x].full
                PROVE  buffers'[y].full
    BY DEF SameCycleByPriority
  <2>1. CASE c \in slept
    BY <1>3, <1>7, <2>1 DEF WokenWaits
  <2>2. CASE c \notin slept
    <3>1. x \in rivals[c] /\ y \in rivals[c] /\ x # p /\ y # p
      BY <1>3, <2>2
    <3>2. buffers'[x] = buffers[x] /\ buffers'[y] = buffers[y]
      BY <1>2, <1>5, <3>1
    <3>. QED BY <3>1, <3>2 DEF CycleInv, SameCycleByPriority
  <2>. QED BY <2>1, <2>2
<1>. QED BY <1>7, <1>8, <1>9, <1>10 DEF CycleInv

(* The elected port is no worse than any rival that still waits.           *)
LEMMA ServeCycle ==
  ASSUME SPMInv, CycleInv, NEW b \in Banks, NEW t \in Ports, Serve(b, t)
  PROVE  CycleInv'
<1>1. /\ pc[b] = "scan" /\ buffers[t].full /\ buffers[t].dest_bank = b
      /\ UNCHANGED <<slept, rivals>>
  BY DEF Serve, Elected, Pending
<1>2. /\ ~buffers'[t].full
      /\ \A q \in Ports : buffers'[q].dest_bank = buffers[q].dest_bank
      /\ \A q \in Ports : q # t => buffers'[q] = buffers[q]
  BY DEF Serve, SPMInv, TypeOK, Buffer
<1>3. pc'[b] = "access" /\ \A c \in Banks : c # b => pc'[c] = pc[c]
  BY DEF Serve, SPMInv, TypeOK
<1>4. b \notin slept
  BY <1>1 DEF CycleInv, WokenWaits
<1>5. slept \subseteq Banks /\ \A c \in Banks : rivals[c] \subseteq Ports
  BY DEF SPMInv, TypeOK
<1>6. \A c \in Banks : c # b => t \notin rivals[c]
  BY <1>1 DEF CycleInv, RivalsHere
<1>7. WokenWaits'
  BY <1>1, <1>2, <1>3, <1>4, <1>5, <1>6 DEF CycleInv, WokenWaits
<1>8. NoOldRivals'
  BY <1>1, <1>3 DEF CycleInv, NoOldRivals
<1>9. RivalsHere'
  BY <1>1, <1>2, <1>5 DEF CycleInv, RivalsHere
<1>10. SameCycleByPriority'
  <2>. SUFFICES ASSUME NEW c \in Banks, NEW x \in rivals[c], NEW y \in rivals[c],
                       Prio[x] < Prio[y], buffers'[x].full
                PROVE  buffers'[y].full
    BY <1>1 DEF SameCycleByPriority
  <2>1. x \in Ports /\ y \in Ports /\ x # t /\ buffers[x].full
    BY <1>2, <1>5
  <2>2. buffers[y].full
    BY <2>1 DEF CycleInv, SameCycleByPriority
  <2>3. ASSUME y = t PROVE FALSE
    <3>1. x \in Pending(b)
      BY <1>6, <2>1, <2>3 DEF CycleInv, RivalsHere, Pending
    <3>2. Prio[t] <= Prio[x] /\ Prio[x] < Prio[t]
      <4>1. Prio[t] \in Nat /\ Prio[x] \in Nat
        BY <2>1, SPMAssumption
      <4>. QED BY <2>3, <3>1, <4>1 DEF Serve, Elected
    <3>. QED BY <2>1, <3>2, SPMAssumption
  <2>. QED BY <1>2, <2>1, <2>2, <2>3
<1>. QED BY <1>7, <1>8, <1>9, <1>10 DEF CycleInv

LEMMA NextCycle == SPMInv /\ CycleInv /\ [Next]_vars => CycleInv'
<1>. SUFFICES ASSUME SPMInv, CycleInv, [Next]_vars PROVE CycleInv'
  OBVIOUS
<1>0. slept \subseteq Banks
  BY DEF SPMInv, TypeOK
<1>1. ASSUME NEW p \in Ports, NEW b \in Banks, NEW r \in Requests[p], Send(p, r, b)
      PROVE CycleInv'
  BY <1>1, SendCycle
<1>2. ASSUME NEW p \in Ports, NEW b \in Banks, NEW r \in Requests[p], Reject(p, r, b)
      PROVE CycleInv'
  BY <1>2 DEF Reject, CycleInv, WokenWaits, NoOldRivals, RivalsHere, SameCycleByPriority
<1>3. ASSUME NEW b \in Banks, Boot(b) \/ Sleep(b) PROVE CycleInv'
  <2>1. /\ pc[b] \in {"start", "scan"} /\ pc'[b] = "asleep" /\ rivals'[b] = {}
        /\ \A c \in Banks : c # b => pc'[c] = pc[c] /\ rivals'[c] = rivals[c]
        /\ UNCHANGED <<buffers, slept>>
    BY <1>3 DEF Boot, Sleep, SPMInv, TypeOK, CycleInv, NoOldRivals
  <2>2. b \notin slept
    BY <2>1 DEF CycleInv, WokenWaits
  <2>. QED BY <1>0, <2>1, <2>2
           DEF CycleInv, WokenWaits, NoOldRivals, RivalsHere, SameCycleByPriority
<1>4. ASSUME NEW b \in Banks, NEW t \in Ports, Serve(b, t) PROVE CycleInv'
  BY <1>4, ServeCycle
<1>5. ASSUME NEW b \in Banks, Finish(b) PROVE CycleInv'
  <2>1. /\ pc[b] = "access" /\ pc'[b] = "zero"
        /\ \A c \in Banks : c # b => pc'[c] = pc[c]
        /\ UNCHANGED <<buffers, slept, rivals>>
    BY <1>5 DEF Finish, SPMInv, TypeOK
  <2>2. b \notin slept
    BY <2>1 DEF CycleInv, WokenWaits
  <2>. QED BY <1>0, <2>1, <2>2
           DEF CycleInv, WokenWaits, NoOldRivals, RivalsHere, SameCycleByPriority
<1>6. CASE Delta
  <2>1. /\ \A c \in Banks : pc'[c] \in {"start", "asleep"} => pc[c] = pc'[c]
        /\ \A c \in slept' : c \in Banks /\ pc[c] = "asleep" /\ pc'[c] = "asleep"
        /\ UNCHANGED <<buffers, rivals>>
    BY <1>6 DEF Delta, SPMInv, TypeOK
  <2>. QED BY <2>1 DEF CycleInv, WokenWaits, NoOldRivals, RivalsHere, SameCycleByPriority
<1>7. CASE UNCHANGED vars
  BY <1>7 DEF vars, CycleInv, WokenWaits, NoOldRivals, RivalsHere, SameCycleByPriority
<1>. QED BY <1>1, <1>2, <1>3, <1>4, <1>5, <1>6, <1>7 DEF Next, BankStep

(* Of the requests that reach a sleeping bank in one delta cycle, none is  *)
(* served while a better one still waits, whatever the order in which the  *)
(* kernel runs the processes of the cycle.                                 *)
THEOREM CycleOrder == Spec => []SameCycleByPriority
<1>1. Init => CycleInv
  BY DEF Init, CycleInv, WokenWaits, NoOldRivals, RivalsHere, SameCycleByPriority
<1>2. SPMInv /\ CycleInv /\ [Next]_vars => CycleInv'
  BY NextCycle
<1>3. CycleInv => SameCycleByPriority
  BY DEF CycleInv
<1>. QED BY <1>1, <1>2, <1>3, SPMInvariant, PTL DEF Spec

(***************************************************************************)
(* When every initiator asks for words of the memory only, no access       *)
(* leaves a bank: the walk of nb_transport_fw and the subtraction of the   *)
(* running offset agree with the sizes of the banks.                       *)
(***************************************************************************)
RequestsInside == \A p \in Ports : \A r \in Requests[p] : r.addr \in Addrs

DecodedInBounds ==
  \A p \in Ports : buffers[p].full => <<buffers[p].dest_bank, pl[p].addr>> \in Cells

BoundsInv == DecodedInBounds /\ AccessInBounds

LEMMA DecodedCell ==
  ASSUME NEW a \in Addrs, NEW b \in Banks, DecodesTo(a, b)
  PROVE  <<b, a - Base[b]>> \in Cells
<1>1. /\ Base[b] \in Nat /\ Sizes[b] \in Nat /\ Base[NbBanks - 1] \in Nat
      /\ Sizes[NbBanks - 1] \in Nat /\ NbBanks - 1 \in Banks
  BY SPMAssumption DEF Banks
<1>2. a \in Nat /\ a <= Base[NbBanks - 1] + Sizes[NbBanks - 1] - 1
  BY <1>1 DEF Addrs
<1>3. a - Base[b] \in Nat
  BY <1>2, OffsetNat
<1>4. a <= Base[b] + Sizes[b] - 1
  BY <1>2 DEF DecodesTo
<1>5. a - Base[b] \in 0 .. Sizes[b] - 1
  BY <1>1, <1>2, <1>3, <1>4
<1>. QED BY <1>5 DEF Cells

LEMMA NextBounds == RequestsInside /\ SPMInv /\ BoundsInv /\ [Next]_vars => BoundsInv'
<1>. SUFFICES ASSUME RequestsInside, SPMInv, BoundsInv, [Next]_vars PROVE BoundsInv'
  OBVIOUS
<1>1. ASSUME NEW p \in Ports, NEW b \in Banks, NEW r \in Requests[p], Send(p, r, b)
      PROVE BoundsInv'
  <2>1. <<b, r.addr - Base[b]>> \in Cells
    BY <1>1, DecodedCell DEF Send, RequestsInside
  <2>2. ~buffers[p].full /\ \A c \in Banks : ~InService(p, c)
    BY <1>1 DEF SPMInv, Send, RequestInOnePlace
  <2>3. /\ buffers'[p].dest_bank = b /\ pl'[p].addr = r.addr - Base[b]
        /\ \A q \in Ports : q # p => buffers'[q] = buffers[q] /\ pl'[q] = pl[q]
        /\ \A c \in Banks : (pc'[c] = "access" <=> pc[c] = "access") /\ target'[c] = target[c]
    BY <1>1, <2>2 DEF Send, Notify, SPMInv, TypeOK
  <2>4. DecodedInBounds'
    BY <2>1, <2>3 DEF BoundsInv, DecodedInBounds
  <2>5. AccessInBounds'
    BY <2>2, <2>3 DEF BoundsInv, AccessInBounds, InService
  <2>. QED BY <2>4, <2>5 DEF BoundsInv
<1>2. ASSUME NEW p \in Ports, NEW b \in Banks, NEW r \in Requests[p], Reject(p, r, b)
      PROVE BoundsInv'
  <2>1. ~buffers[p].full /\ \A c \in Banks : ~InService(p, c)
    BY <1>2 DEF SPMInv, Reject, RequestInOnePlace
  <2>2. /\ \A q \in Ports : q # p => pl'[q] = pl[q]
        /\ UNCHANGED <<buffers, pc, target>>
    BY <1>2 DEF Reject, SPMInv, TypeOK
  <2>. QED BY <2>1, <2>2 DEF BoundsInv, DecodedInBounds, AccessInBounds, InService
<1>3. ASSUME NEW b \in Banks, Boot(b) \/ Sleep(b) PROVE BoundsInv'
  <2>1. /\ \A c \in Banks : pc'[c] = "access" => pc[c] = "access"
        /\ UNCHANGED <<buffers, pl, target>>
    BY <1>3 DEF Boot, Sleep, SPMInv, TypeOK
  <2>. QED BY <2>1 DEF BoundsInv, DecodedInBounds, AccessInBounds, InService
<1>4. ASSUME NEW b \in Banks, NEW t \in Ports, Serve(b, t) PROVE BoundsInv'
  <2>1. buffers[t].full /\ buffers[t].dest_bank = b
    BY <1>4 DEF Serve, Elected, Pending
  <2>2. \A q \in Ports : pl'[q].addr = pl[q].addr
    <3>1. CASE ReadData(t, b)
      BY <3>1 DEF ReadData, SPMInv, TypeOK, Payload
    <3>2. CASE WriteData(t, b)
      BY <3>2 DEF WriteData
    <3>. QED BY <1>4, <3>1, <3>2 DEF Serve
  <2>3. /\ \A q \in Ports : buffers'[q].dest_bank = buffers[q].dest_bank
        /\ \A q \in Ports : buffers'[q].full => buffers[q].full
        /\ target'[b] = t
        /\ \A c \in Banks : c # b => pc'[c] = pc[c] /\ target'[c] = target[c]
    BY <1>4 DEF Serve, SPMInv, TypeOK, Buffer
  <2>4. DecodedInBounds'
    BY <2>2, <2>3 DEF BoundsInv, DecodedInBounds
  <2>5. AccessInBounds'
    BY <2>1, <2>2, <2>3 DEF BoundsInv, DecodedInBounds, AccessInBounds, InService
  <2>. QED BY <2>4, <2>5 DEF BoundsInv
<1>5. ASSUME NEW b \in Banks, Finish(b) PROVE BoundsInv'
  <2> DEFINE t == target[b]
  <2>1. t \in Ports /\ pc[b] = "access" /\ InService(t, b)
    BY <1>5 DEF Finish, SPMInv, TypeOK, InService
  <2>2. ~buffers[t].full /\ \A c \in Banks : InService(t, c) => c = b
    BY <2>1 DEF SPMInv, RequestInOnePlace
  <2>3. /\ \A q \in Ports : q # t => pl'[q] = pl[q]
        /\ pc'[b] = "zero"
        /\ \A c \in Banks : c # b => pc'[c] = pc[c]
        /\ UNCHANGED <<buffers, target>>
    BY <1>5 DEF Finish, SPMInv, TypeOK
  <2>. QED BY <2>1, <2>2, <2>3 DEF BoundsInv, DecodedInBounds, AccessInBounds, InService
<1>6. CASE Delta
  <2>1. /\ \A c \in Banks : pc'[c] = "access" => pc[c] = "access"
        /\ UNCHANGED <<buffers, pl, target>>
    BY <1>6 DEF Delta, SPMInv, TypeOK
  <2>. QED BY <2>1 DEF BoundsInv, DecodedInBounds, AccessInBounds, InService
<1>7. CASE UNCHANGED vars
  BY <1>7 DEF vars, BoundsInv, DecodedInBounds, AccessInBounds, InService
<1>. QED BY <1>1, <1>2, <1>3, <1>4, <1>5, <1>6, <1>7 DEF Next, BankStep

(* No access leaves the storage of its bank if no initiator asks for one   *)
(* outside of the memory.                                                  *)
THEOREM InBounds == ASSUME RequestsInside PROVE Spec => []AccessInBounds
<1>1. Init => BoundsInv
  BY DEF Init, BoundsInv, DecodedInBounds, AccessInBounds, InService
<1>2. SPMInv /\ BoundsInv /\ [Next]_vars => BoundsInv'
  BY NextBounds
<1>3. BoundsInv => AccessInBounds
  BY DEF BoundsInv
<1>. QED BY <1>1, <1>2, <1>3, SPMInvariant, PTL DEF Spec

-----------------------------------------------------------------------------
(***************************************************************************)
(* The memory implements an atomic one, if nobody asks for the one address *)
(* that the bounds check lets through.  Each word of the flat array is one *)
(* cell, which needs that the banks leave no gap and do not overlap; the   *)
(* access of a bank is the access of the flat memory because the payload   *)
(* still is the request as it was issued, but for its address (Carried).   *)
(***************************************************************************)
NoEdgeRequest ==
  \A p \in Ports : \A r \in Requests[p] : r.addr # Base[NbBanks - 1] + Sizes[NbBanks - 1]

Carried ==
  \A p \in Ports : buffers[p].full =>
    /\ issued[p].addr \in Addrs
    /\ DecodesTo(issued[p].addr, buffers[p].dest_bank)
    /\ pl[p].addr = issued[p].addr - Base[buffers[p].dest_bank]
    /\ pl[p].cmd = issued[p].cmd /\ pl[p].be = issued[p].be /\ pl[p].data = issued[p].data

(* A set of naturals has a least element. *)
LEMMA Least ==
  ASSUME NEW S \in SUBSET Nat, S # {}
  PROVE  \E m \in S : \A k \in S : m <= k
<1> DEFINE R == OpToRel(<, Nat)
<1>1. IsWellFoundedOn(R, Nat)
  BY NatLessThanWellFounded, Zenon
<1>2. PICK m \in S : \A k \in S : ~ (<<k, m>> \in R)
  <2>. HIDE DEF R
  <2>. QED BY <1>1, WFMin, Zenon
<1>3. \A k \in S : ~ (k < m)
  BY <1>2, Zenon DEF OpToRel
<1>. QED BY <1>3

(* The numbers of the banks and their bounds are integers.                 *)
LEMMA BankNumbers ==
  /\ NbBanks - 1 \in Banks
  /\ \A b \in Banks : /\ b \in Nat /\ b <= NbBanks - 1
                      /\ Base[b] \in Nat /\ Sizes[b] \in Nat /\ Sizes[b] > 0
BY SPMAssumption DEF Banks

(* Every word of the memory is decoded by a bank: the first one that ends  *)
(* after it.                                                               *)
LEMMA SomeBank ==
  ASSUME NEW a \in Nat
  PROVE  \E b \in Banks : DecodesTo(a, b)
<1> DEFINE S == {b \in Banks : b = NbBanks - 1 \/ a <= Base[b] + Sizes[b] - 1}
<1>1. S \in SUBSET Nat /\ S # {}
  BY BankNumbers
<1>2. PICK b \in S : \A k \in S : b <= k
  <2>. HIDE DEF S
  <2>. QED BY <1>1, Least
<1>3. ASSUME NEW c \in Banks, c < b PROVE a > Base[c] + Sizes[c] - 1
  <2>1. c \notin S
    BY <1>1, <1>2, <1>3, BankNumbers
  <2>. QED BY <2>1, BankNumbers
<1>. QED BY <1>2, <1>3 DEF DecodesTo

(* ... and by one only.                                                    *)
LEMMA OneBank ==
  ASSUME NEW a \in Nat, NEW b \in Banks, NEW c \in Banks, DecodesTo(a, b), DecodesTo(a, c)
  PROVE  b = c
<1>1. ASSUME NEW d \in Banks, NEW e \in Banks, DecodesTo(a, d), DecodesTo(a, e), d < e
      PROVE  FALSE
  <2>1. a > Base[d] + Sizes[d] - 1 /\ d # NbBanks - 1
    BY <1>1, BankNumbers DEF DecodesTo
  <2>. QED BY <1>1, <2>1, BankNumbers DEF DecodesTo
<1>. QED BY <1>1, BankNumbers

(* What a bank decodes and the bounds check lets through is in the memory, *)
(* but for the address that follows it: no bank ends after the last one.   *)
LEMMA Inside ==
  ASSUME NEW a \in Nat, NEW b \in Banks, DecodesTo(a, b), InBank(a, b),
         a # Base[NbBanks - 1] + Sizes[NbBanks - 1]
  PROVE  a \in Addrs
<1> DEFINE last == NbBanks - 1
           Ends(c) == a <= Base[c] + Sizes[c] - 1
           S == {n \in Nat : \E c \in Banks : Ends(c) /\ n = last - c}
<1>1. Ends(b)
  BY BankNumbers DEF DecodesTo, InBank
<1>2. ASSUME NEW c \in Banks, Ends(c), c # last PROVE c + 1 \in Banks /\ a <= Base[c + 1] + Sizes[c + 1] - 1
  <2>1. c + 1 \in Banks
    BY <1>2, SPMAssumption DEF Banks
  <2>2. Base[c + 1] = Base[c] + Sizes[c]
    BY <2>1, SPMAssumption
  <2>3. /\ a <= Base[c] + Sizes[c] - 1
        /\ Base[c] \in Nat /\ Sizes[c] \in Nat /\ Sizes[c + 1] \in Nat
    BY <1>2, <2>1, BankNumbers
  <2>4. a <= Base[c + 1] + Sizes[c + 1] - 1
    BY <2>2, <2>3
  <2>. QED BY <2>1, <2>4
<1>3. Ends(last)
  <2>1. S \in SUBSET Nat /\ S # {}
    <3>1. last - b \in Nat
      BY BankNumbers
    <3>2. last - b \in S
      BY <1>1, <3>1
    <3>. QED BY <3>2
  <2>2. PICK n \in S : \A k \in S : n <= k
    <3>. HIDE DEF S
    <3>. QED BY <2>1, Least
  <2>3. PICK c \in Banks : Ends(c) /\ n = last - c
    BY <2>2
  <2>4. CASE c # last
    <3>1. c + 1 \in Banks /\ Ends(c + 1)
      BY <1>2, <2>3, <2>4
    <3>2. last - (c + 1) \in S /\ last - (c + 1) < n
      BY <2>3, <3>1, BankNumbers
    <3>. QED BY <2>1, <2>2, <3>2, BankNumbers
  <2>. QED BY <2>3, <2>4
<1>. QED BY <1>3, BankNumbers DEF Addrs

(* What the bounds check refuses is outside of the memory.                 *)
LEMMA Outside ==
  ASSUME NEW a \in Nat, NEW b \in Banks, DecodesTo(a, b), ~InBank(a, b)
  PROVE  a \notin Addrs
BY BankNumbers DEF DecodesTo, InBank, Addrs

LEMMA CellIs ==
  ASSUME NEW a \in Addrs, NEW b \in Banks, DecodesTo(a, b)
  PROVE  /\ CellOf(a) = <<b, a - Base[b]>>
         /\ CellOf(a) \in Cells
<1>1. <<b, a - Base[b]>> \in Cells
  BY DecodedCell
<1>2. a \in Nat
  BY BankNumbers DEF Addrs
<1> DEFINE P(c) == DecodesTo(a, c[1]) /\ c[2] = a - Base[c[1]]
<1>3. P(<<b, a - Base[b]>>)
  OBVIOUS
<1>4. CellOf(a) \in Cells /\ P(CellOf(a))
  <2>1. CellOf(a) = CHOOSE c \in Cells : P(c)
    BY DEF CellOf
  <2>. HIDE DEF P
  <2>. QED BY <1>1, <1>3, <2>1
<1>5. CellOf(a)[1] \in Banks /\ CellOf(a) = <<CellOf(a)[1], CellOf(a)[2]>>
  BY <1>4 DEF Cells
<1>6. CellOf(a)[1] = b
  BY <1>2, <1>4, <1>5, OneBank
<1>. QED BY <1>4, <1>5, <1>6

(* Two words of the memory are two cells.                                  *)
LEMMA CellsDiffer ==
  ASSUME NEW a \in Addrs, NEW d \in Addrs, CellOf(a) = CellOf(d)
  PROVE  a = d
<1>1. a \in Nat /\ d \in Nat
  BY BankNumbers DEF Addrs
<1>2. PICK b \in Banks : DecodesTo(a, b)
  BY <1>1, SomeBank
<1>3. PICK c \in Banks : DecodesTo(d, c)
  BY <1>1, SomeBank
<1>4. <<b, a - Base[b]>> = <<c, d - Base[c]>>
  BY <1>2, <1>3, CellIs
<1>5. b = c /\ a - Base[b] = d - Base[b]
  BY <1>4
<1>. QED BY <1>1, <1>5, BankNumbers

(* Every word of the memory has a cell.                                    *)
LEMMA CellIn ==
  ASSUME NEW a \in Addrs
  PROVE  CellOf(a) \in Cells
<1>1. a \in Nat
  BY BankNumbers DEF Addrs
<1>. QED BY <1>1, SomeBank, CellIs

(* The payload of a buffered request stays the request that was issued.    *)
LEMMA NextCarried ==
  ASSUME NoEdgeRequest, SPMInv, Carried, [Next]_vars
  PROVE  Carried'
<1>1. ASSUME NEW p \in Ports, NEW b \in Banks, NEW r \in Requests[p], Send(p, r, b)
      PROVE Carried'
  <2>1. r.addr \in Addrs
    BY <1>1, RequestType, Inside DEF Send, NoEdgeRequest
  <2>2. ~buffers[p].full
    BY <1>1 DEF SPMInv, Send, RequestInOnePlace
  <2>3. /\ buffers'[p].dest_bank = b /\ issued'[p] = r
        /\ pl'[p].addr = r.addr - Base[b] /\ pl'[p].cmd = r.cmd
        /\ pl'[p].be = r.be /\ pl'[p].data = r.data
        /\ \A q \in Ports : q # p => buffers'[q] = buffers[q] /\ pl'[q] = pl[q]
                                     /\ issued'[q] = issued[q]
    BY <1>1, <2>2 DEF Send, SPMInv, TypeOK
  <2>. QED BY <1>1, <2>1, <2>3 DEF Carried, Send, DecodesTo
<1>2. ASSUME NEW p \in Ports, NEW b \in Banks, NEW r \in Requests[p], Reject(p, r, b)
      PROVE Carried'
  <2>1. ~buffers[p].full
    BY <1>2 DEF SPMInv, Reject, RequestInOnePlace
  <2>2. /\ \A q \in Ports : q # p => pl'[q] = pl[q] /\ issued'[q] = issued[q]
        /\ UNCHANGED buffers
    BY <1>2 DEF Reject, SPMInv, TypeOK
  <2>. QED BY <2>1, <2>2 DEF Carried, DecodesTo
<1>3. ASSUME NEW b \in Banks, Boot(b) \/ Sleep(b) PROVE Carried'
  BY <1>3 DEF Boot, Sleep, Carried, DecodesTo
<1>4. ASSUME NEW b \in Banks, NEW t \in Ports, Serve(b, t) PROVE Carried'
  <2>1. \A q \in Ports : q # t => pl'[q] = pl[q]
    <3>1. CASE ReadData(t, b)
      BY <3>1 DEF ReadData, SPMInv, TypeOK
    <3>2. CASE WriteData(t, b)
      BY <3>2 DEF WriteData
    <3>. QED BY <1>4, <3>1, <3>2 DEF Serve
  <2>2. /\ ~buffers'[t].full
        /\ \A q \in Ports : q # t => buffers'[q] = buffers[q]
        /\ UNCHANGED issued
    BY <1>4 DEF Serve, SPMInv, TypeOK, Buffer
  <2>. QED BY <2>1, <2>2 DEF Carried, DecodesTo
<1>5. ASSUME NEW b \in Banks, Finish(b) PROVE Carried'
  <2> DEFINE t == target[b]
  <2>1. t \in Ports /\ InService(t, b)
    BY <1>5 DEF Finish, SPMInv, TypeOK, InService
  <2>2. ~buffers[t].full
    BY <2>1 DEF SPMInv, RequestInOnePlace
  <2>3. /\ \A q \in Ports : q # t => pl'[q] = pl[q]
        /\ UNCHANGED <<buffers, issued>>
    BY <1>5, <2>1 DEF Finish, SPMInv, TypeOK
  <2>. QED BY <2>2, <2>3 DEF Carried, DecodesTo
<1>6. CASE Delta
  BY <1>6 DEF Delta, Carried, DecodesTo
<1>7. CASE UNCHANGED vars
  BY <1>7 DEF vars, Carried, DecodesTo
<1>. QED BY <1>1, <1>2, <1>3, <1>4, <1>5, <1>6, <1>7 DEF Next, BankStep

-----------------------------------------------------------------------------
(* The flat memory as its refinement mapping gives it. *)
LEMMA InitAtomic == Init => Atomic!Init
<1>. SUFFICES ASSUME Init PROVE Atomic!Init
  OBVIOUS
<1>1. [a \in Addrs |-> content[CellOf(a)]] = [a \in Addrs |-> ZeroWord]
  BY CellIn DEF Init
<1>2. \A p \in Ports : pl[p].rsp = "NONE" /\ pl[p].data = ZeroWord
  BY DEF Init
<1>3. [p \in Ports |-> IF Idle(p) THEN "idle"
                       ELSE IF buffers[p].full THEN "asked" ELSE "performed"]
      = [p \in Ports |-> "idle"]
  BY <1>2 DEF Idle
<1>4. [p \in Ports |-> pl[p].data] = [p \in Ports |-> ZeroWord]
  BY <1>2
<1>. QED BY <1>1, <1>3, <1>4 DEF Atomic!Init, Init

(* What the state of a port is in the flat memory.                         *)
PhaseOf == [p \in Ports |-> IF Idle(p) THEN "idle"
                            ELSE IF buffers[p].full THEN "asked" ELSE "performed"]
AnswerOf == [p \in Ports |-> pl[p].data]
FlatMem  == [a \in Addrs |-> content[CellOf(a)]]

(* Reading or writing lanes is the same in the banks and in the array.     *)
LEMMA SameMerge ==
  ASSUME NEW v, NEW w, NEW be
  PROVE  Atomic!Overlay(v, w, be) = Merge(v, w, be)
BY DEF Atomic!Overlay, Merge

(* The service of a bank is the access of the flat memory.                 *)
LEMMA ServePerforms ==
  ASSUME SPMInv, Carried, NEW b \in Banks, NEW t \in Ports, Serve(b, t)
  PROVE  Atomic!Perform(t)
<1>1. buffers[t].full /\ buffers[t].dest_bank = b
  BY DEF Serve, Elected, Pending
<1>2. ~Idle(t)
  BY <1>1 DEF SPMInv, RequestInOnePlace
<1> DEFINE a == issued[t].addr
<1>3. /\ a \in Addrs /\ DecodesTo(a, b) /\ pl[t].addr = a - Base[b]
      /\ pl[t].cmd = issued[t].cmd /\ pl[t].be = issued[t].be /\ pl[t].data = issued[t].data
  BY <1>1 DEF Carried
<1>4. CellOf(a) = <<b, pl[t].addr>> /\ <<b, pl[t].addr>> \in Cells
  BY <1>3, CellIs
<1>5. /\ ~buffers'[t].full
      /\ \A q \in Ports : q # t => buffers'[q] = buffers[q]
      /\ UNCHANGED issued
  BY DEF Serve, SPMInv, TypeOK, Buffer
<1>6. /\ pl'[t].rsp = pl[t].rsp
      /\ \A q \in Ports : q # t => pl'[q] = pl[q]
  <2>1. CASE ReadData(t, b)
    BY <2>1 DEF ReadData, SPMInv, TypeOK, Payload
  <2>2. CASE WriteData(t, b)
    BY <2>2 DEF WriteData
  <2>. QED BY <2>1, <2>2 DEF Serve
<1>7. PhaseOf[t] = "asked" /\ PhaseOf' = [PhaseOf EXCEPT ![t] = "performed"]
  BY <1>1, <1>2, <1>5, <1>6 DEF PhaseOf, Idle
<1>8. \/ /\ issued[t].cmd = "READ"
         /\ AnswerOf' = [AnswerOf EXCEPT ![t] =
                           Atomic!Overlay(AnswerOf[t], FlatMem[a], issued[t].be)]
         /\ UNCHANGED FlatMem
      \/ /\ issued[t].cmd = "WRITE"
         /\ FlatMem' = [FlatMem EXCEPT ![a] =
                          Atomic!Overlay(FlatMem[a], issued[t].data, issued[t].be)]
         /\ UNCHANGED AnswerOf
  <2>1. CASE ReadData(t, b)
    <3>1. pl' = [pl EXCEPT ![t].data = Merge(pl[t].data, content[<<b, pl[t].addr>>], pl[t].be)]
      BY <1>4, <2>1 DEF ReadData
    <3>2. pl'[t].data = Merge(pl[t].data, content[CellOf(a)], issued[t].be)
      BY <1>3, <1>4, <3>1 DEF SPMInv, TypeOK, Payload
    <3>3. AnswerOf[t] = pl[t].data /\ FlatMem[a] = content[CellOf(a)]
      BY <1>3 DEF AnswerOf, FlatMem
    <3>4. AnswerOf' = [AnswerOf EXCEPT ![t] = pl'[t].data]
      BY <1>6 DEF AnswerOf
    <3>5. UNCHANGED FlatMem /\ issued[t].cmd = "READ"
      BY <1>3, <2>1 DEF FlatMem, ReadData
    <3>. QED BY <3>2, <3>3, <3>4, <3>5, SameMerge
  <2>2. CASE WriteData(t, b)
    <3>1. content' = [content EXCEPT ![CellOf(a)] =
                        Merge(content[CellOf(a)], issued[t].data, issued[t].be)]
      BY <1>3, <1>4, <2>2 DEF WriteData
    <3>2. content \in [Cells -> Word] /\ CellOf(a) \in Cells
      BY <1>4 DEF SPMInv, TypeOK
    <3>3. \A d \in Addrs : FlatMem'[d] =
             IF d = a THEN Merge(content[CellOf(a)], issued[t].data, issued[t].be)
             ELSE content[CellOf(d)]
      BY <1>3, <3>1, <3>2, CellsDiffer, CellIn DEF FlatMem
    <3>4. FlatMem' = [FlatMem EXCEPT ![a] =
                        Merge(content[CellOf(a)], issued[t].data, issued[t].be)]
      BY <3>3 DEF FlatMem
    <3>5. FlatMem[a] = content[CellOf(a)]
      BY <1>3 DEF FlatMem
    <3>6. UNCHANGED AnswerOf /\ issued[t].cmd = "WRITE"
      BY <1>3, <2>2 DEF AnswerOf, WriteData
    <3>. QED BY <3>4, <3>5, <3>6, SameMerge
  <2>. QED BY <2>1, <2>2 DEF Serve
<1>. QED BY <1>5, <1>7, <1>8 DEF Atomic!Perform, PhaseOf, AnswerOf, FlatMem

(* Each step of the banks and their ports is one of the flat memory or     *)
(* cannot be seen there.                                                   *)
LEMMA NextAtomic ==
  ASSUME NoEdgeRequest, SPMInv, Carried, [Next]_vars
  PROVE  [Atomic!Next]_(Atomic!vars)
<1>1. ASSUME NEW p \in Ports, NEW b \in Banks, NEW r \in Requests[p], Send(p, r, b)
      PROVE Atomic!Ask(p, r)
  <2>1. r.addr \in Addrs
    BY <1>1, RequestType, Inside DEF Send, NoEdgeRequest
  <2>2. ~buffers[p].full
    BY <1>1 DEF SPMInv, Send, RequestInOnePlace
  <2>3. /\ buffers'[p].full /\ pl'[p].rsp = "INCOMPLETE" /\ pl'[p].data = r.data
        /\ \A q \in Ports : q # p => buffers'[q] = buffers[q] /\ pl'[q] = pl[q]
        /\ issued' = [issued EXCEPT ![p] = r] /\ UNCHANGED content
    BY <1>1, <2>2 DEF Send, SPMInv, TypeOK
  <2>4. PhaseOf[p] = "idle" /\ PhaseOf' = [PhaseOf EXCEPT ![p] = "asked"]
    <3>1. Idle(p)
      BY <1>1 DEF Send
    <3>2. Idle(p)' = FALSE /\ \A q \in Ports : q # p => Idle(q)' = Idle(q)
      BY <2>3 DEF Idle
    <3>3. \A q \in Ports : PhaseOf'[q] = IF q = p THEN "asked" ELSE PhaseOf[q]
      BY <2>3, <3>2 DEF PhaseOf
    <3>. QED BY <3>1, <3>3 DEF PhaseOf
  <2>5. AnswerOf' = [AnswerOf EXCEPT ![p] = r.data] /\ UNCHANGED FlatMem
    BY <2>3 DEF AnswerOf, FlatMem
  <2>. QED BY <2>1, <2>3, <2>4, <2>5 DEF Atomic!Ask, PhaseOf, AnswerOf, FlatMem
<1>2. ASSUME NEW p \in Ports, NEW b \in Banks, NEW r \in Requests[p], Reject(p, r, b)
      PROVE Atomic!Refuse(p, r)
  <2>1. r.addr \notin Addrs
    BY <1>2, RequestType, Outside DEF Reject
  <2>2. /\ pl'[p].rsp = "ADDRESS_ERROR" /\ pl'[p].data = r.data
        /\ \A q \in Ports : q # p => pl'[q] = pl[q]
        /\ issued' = [issued EXCEPT ![p] = r] /\ UNCHANGED <<buffers, content>>
    BY <1>2 DEF Reject, SPMInv, TypeOK
  <2>3. PhaseOf[p] = "idle" /\ UNCHANGED PhaseOf
    BY <1>2, <2>2 DEF PhaseOf, Idle, Reject
  <2>4. AnswerOf' = [AnswerOf EXCEPT ![p] = r.data] /\ UNCHANGED FlatMem
    BY <2>2 DEF AnswerOf, FlatMem
  <2>. QED BY <2>1, <2>2, <2>3, <2>4 DEF Atomic!Refuse, PhaseOf, AnswerOf, FlatMem
<1>3. ASSUME NEW b \in Banks, Boot(b) \/ Sleep(b) PROVE UNCHANGED Atomic!vars
  <2>1. UNCHANGED <<buffers, pl, issued, content>>
    BY <1>3 DEF Boot, Sleep
  <2>2. UNCHANGED <<FlatMem, PhaseOf, AnswerOf, issued>>
    BY <2>1 DEF FlatMem, PhaseOf, AnswerOf, Idle
  <2>. QED BY <2>2 DEF Atomic!vars, FlatMem, PhaseOf, AnswerOf
<1>4. ASSUME NEW b \in Banks, NEW t \in Ports, Serve(b, t) PROVE Atomic!Perform(t)
  BY <1>4, ServePerforms
<1>5. ASSUME NEW b \in Banks, Finish(b) PROVE \E t \in Ports : Atomic!Respond(t)
  <2>1. PICK t \in Ports : t = target[b] /\ InService(t, b)
    BY <1>5 DEF Finish, SPMInv, TypeOK, InService
  <2>2. ~Idle(t) /\ ~buffers[t].full
    BY <2>1 DEF SPMInv, RequestInOnePlace
  <2>3. /\ pl'[t].rsp = "OK" /\ pl'[t].data = pl[t].data
        /\ \A q \in Ports : q # t => pl'[q] = pl[q]
        /\ UNCHANGED <<buffers, issued, content>>
    BY <1>5, <2>1 DEF Finish, SPMInv, TypeOK, Payload
  <2>4. PhaseOf[t] = "performed" /\ PhaseOf' = [PhaseOf EXCEPT ![t] = "idle"]
    BY <2>1, <2>2, <2>3 DEF PhaseOf, Idle
  <2>5. UNCHANGED <<AnswerOf, FlatMem>>
    BY <2>1, <2>3 DEF AnswerOf, FlatMem
  <2>. QED BY <2>3, <2>4, <2>5 DEF Atomic!Respond, PhaseOf, AnswerOf, FlatMem
<1>6. CASE Delta \/ UNCHANGED vars
  <2>1. UNCHANGED <<buffers, pl, issued, content>>
    BY <1>6 DEF Delta, vars
  <2>2. UNCHANGED <<FlatMem, PhaseOf, AnswerOf, issued>>
    BY <2>1 DEF FlatMem, PhaseOf, AnswerOf, Idle
  <2>. QED BY <2>2 DEF Atomic!vars, FlatMem, PhaseOf, AnswerOf
<1>7. (\E p \in Ports, b \in Banks : \E r \in Requests[p] : Send(p, r, b) \/ Reject(p, r, b))
        => Atomic!Next
  BY <1>1, <1>2, Zenon DEF Atomic!Next
<1>8. ASSUME NEW b \in Banks, BankStep(b) PROVE Atomic!Next \/ UNCHANGED Atomic!vars
  <2>1. CASE \E t \in Ports : Serve(b, t)
    <3>1. PICK t \in Ports : Atomic!Perform(t)
      BY <1>4, <2>1
    <3>. QED BY <3>1 DEF Atomic!Next
  <2>2. CASE Finish(b)
    <3>1. PICK t \in Ports : Atomic!Respond(t)
      BY <1>5, <2>2
    <3>. QED BY <3>1 DEF Atomic!Next
  <2>. QED BY <1>3, <1>8, <2>1, <2>2, Zenon DEF BankStep
<1>. QED BY <1>6, <1>7, <1>8, Zenon DEF Next

(* If nobody asks for the address just past the end, the memory cannot be  *)
(* told from a flat one whose accesses are atomic: interleaved banks,      *)
(* rewritten addresses and data moved before the latency do not show.      *)
THEOREM Refinement == ASSUME NoEdgeRequest PROVE Spec => ImplementsAtomicMemory
<1>1. Init => Carried
  BY DEF Init, Carried
<1>2. SPMInv /\ Carried /\ [Next]_vars => Carried'
  BY NextCarried
<1>3. SPMInv /\ Carried /\ [Next]_vars => [Atomic!Next]_(Atomic!vars)
  BY NextAtomic
<1>. QED BY <1>1, <1>2, <1>3, InitAtomic, SPMInvariant, PTL
         DEF Spec, ImplementsAtomicMemory, Atomic!Spec
=============================================================================
