------------------------------ MODULE Wrapper ------------------------------
(***************************************************************************)
(* The TLM wrapper of the MIPS32 instruction set simulator                 *)
(* (iss/mips32_wrapper.{h,cpp}).                                           *)
(*                                                                         *)
(* Two SystemC threads share i_req, d_req and two flags.  run_iss runs one *)
(* ISS cycle per platform cycle: it asks the ISS for its next fetch and    *)
(* data access, notifies run_sim, and hands the responses to the ISS once  *)
(* the flags say so.  run_sim turns the requests into TLM transactions and *)
(* waits for their responses in two payload event queues; the response of  *)
(* a store is not waited for with the request but before the next data     *)
(* access (write decoupling).  Both event kinds are immediate SystemC      *)
(* notifications: a thread that is not waiting at that instant misses it.  *)
(*                                                                         *)
(* The memory system is the environment: it performs each transaction at   *)
(* some instant after its request and answers at some later instant.       *)
(* The ISS is abstracted to what it may ask next; an instruction is named  *)
(* by the address it was read from.  Byte enables are left out.            *)
(***************************************************************************)
EXTENDS Naturals, Sequences, FiniteSets

CONSTANTS
  CodeAddrs,    (* fetch addresses served by i_socket                       *)
  BootAddrs,    (* fetch addresses served by b_socket (reset, exceptions)   *)
  DataAddrs,    (* data addresses served by d_socket                        *)
  BusAddrs,     (* data addresses served by b_socket                        *)
  Cell,         (* the storage word each data address designates            *)
  Values,       (* data words                                               *)
  Zero,         (* initial value of the storage                             *)
  Reset,        (* the first fetch address                                  *)
  NoAddr,       (* the 0xFFFFFFFF of a bus address that expects no response *)
  Doubles       (* kinds of data access the ISS makes without a fetch, by   *)
                (* its microcoded double-word FPU loads and stores          *)

FetchAddrs == CodeAddrs \cup BootAddrs
Access     == [type : {"read", "write"}, addr : DataAddrs \cup BusAddrs, val : Values]
Cells      == {Cell[a] : a \in DataAddrs \cup BusAddrs}

ASSUME WrapperAssumption ==
  /\ Reset \in BootAddrs
  /\ Zero \in Values
  /\ Doubles \subseteq {"read", "write"}
  /\ DOMAIN Cell = DataAddrs \cup BusAddrs
  /\ CodeAddrs \cap BootAddrs = {} /\ DataAddrs \cap BusAddrs = {}
  (* No program fetches a word of the bus while it accesses it as data.    *)
  /\ BootAddrs \cap BusAddrs = {}
  /\ NoAddr \notin FetchAddrs \cup DataAddrs \cup BusAddrs

VARIABLES
  iss,         (* the ISS: pc; dreq, its pending accesses (a sequence of    *)
               (* at most one); micro, whether a microcode step comes next  *)
  ireq,        (* i_req                                                     *)
  dreq,        (* d_req                                                     *)
  simI, simD,  (* sim_i_resp_rdy, sim_d_resp_rdy                            *)
  instrBuf,    (* i_resp_buf: the last instruction given to the ISS         *)
  dRespValid,  (* d_resp.valid                                              *)
  simPc,       (* where run_sim is                                          *)
  waitFor,     (* the queues whose event run_sim still waits for            *)
  writing,     (* data_write_in_progress                                    *)
  iPeq, dPeq,  (* m_i_peq, m_d_peq                                          *)
  busI, busR, busW,   (* bus_ireq_addr, bus_dreq_read_addr, bus_dreq_write_addr *)
  flight,      (* transactions in the memory system                         *)
  mem,         (* the storage behind the data addresses                     *)
  crashed,     (* abort(), failed assertion or NULL payload                 *)
  shadow,      (* history: the storage as the program order makes it        *)
  given        (* history: what the ISS was last given, and should have been *)

issVars == <<iss, ireq, instrBuf, dRespValid, given, shadow>>
simVars == <<simPc, waitFor, writing>>
vars == <<iss, ireq, dreq, simI, simD, instrBuf, dRespValid, simPc, waitFor, writing,
          iPeq, dPeq, busI, busR, busW, flight, mem, crashed, shadow, given>>

Branches == {"fetch_write", "fetch_read", "fetch", "data"}

Init ==
  /\ iss = [pc |-> Reset, dreq |-> <<>>, micro |-> FALSE]
  /\ ireq = [valid |-> FALSE, addr |-> NoAddr]
  /\ \E a \in DataAddrs \cup BusAddrs :
       dreq = [valid |-> FALSE, type |-> "read", addr |-> a, val |-> Zero]
  /\ simI = FALSE /\ simD = FALSE
  /\ instrBuf = NoAddr /\ dRespValid = FALSE
  /\ simPc = "idle" /\ waitFor = {} /\ writing = FALSE
  /\ iPeq = <<>> /\ dPeq = <<>>
  /\ busI = NoAddr /\ busR = NoAddr /\ busW = NoAddr
  /\ flight = {}
  /\ mem = [c \in Cells |-> Zero]
  /\ crashed = FALSE
  /\ shadow = mem
  /\ given = [pc |-> Reset, instr |-> Reset, val |-> Zero, want |-> Zero]

-----------------------------------------------------------------------------
(***************************************************************************)
(* executeNCycles: the ISS was given an instruction and, if it asked for   *)
(* data, a data response.  It may spend the cycle without running the      *)
(* instruction (a load-use hazard, a multi-cycle instruction): the data    *)
(* are taken and the same fetch comes again.  Otherwise it moves to        *)
(* another address, possibly with a data access; a double-word FPU access  *)
(* continues in microcode, which needs no fetch for its next step.         *)
(***************************************************************************)
Accesses(next) == {<<>>} \cup {<<a>> : a \in next}

Stall == iss' = [iss EXCEPT !.dreq = <<>>]

Run ==
  /\ ~iss.micro
  /\ \E pc \in FetchAddrs \ {iss.pc}, d \in Accesses(Access), micro \in BOOLEAN :
       /\ micro => d # <<>> /\ d[1].type \in Doubles
       /\ iss' = [pc |-> pc, dreq |-> d, micro |-> micro]

(* The second half of a double: do_mem_access again, then fetches resume.  *)
Microcode ==
  /\ iss.micro
  /\ \E a \in Access :
       /\ a.type = dreq.type
       /\ iss' = [iss EXCEPT !.dreq = <<a>>, !.micro = FALSE]

ExecuteCycle == (~iss.micro /\ Stall) \/ Run \/ Microcode

-----------------------------------------------------------------------------
(***************************************************************************)
(* run_iss.  No request is outstanding: getRequests.  A fetch of the same  *)
(* address as last time, without a data access, is not sent to the memory: *)
(* the ISS gets the last instruction again.                                *)
(***************************************************************************)
Quiet == ~ireq.valid /\ ~dreq.valid

Duplicate == ~iss.micro /\ iss.dreq = <<>> /\ iss.pc = ireq.addr

RefetchFromBuffer ==
  /\ ~crashed /\ Quiet /\ Duplicate
  /\ ireq' = [ireq EXCEPT !.valid = FALSE]
  /\ given' = [given EXCEPT !.pc = iss.pc, !.instr = instrBuf]
  /\ ExecuteCycle
  /\ UNCHANGED <<dreq, simI, simD, instrBuf, dRespValid, simVars, iPeq, dPeq,
                 busI, busR, busW, flight, mem, crashed, shadow>>

Request ==
  /\ ~crashed /\ Quiet /\ ~Duplicate
  /\ ireq' = [valid |-> ~iss.micro, addr |-> iss.pc]
  /\ dreq' = IF iss.dreq = <<>> THEN [dreq EXCEPT !.valid = FALSE]
             ELSE [valid |-> TRUE, type |-> iss.dreq[1].type,
                   addr |-> iss.dreq[1].addr, val |-> iss.dreq[1].val]
  /\ simI' = FALSE /\ simD' = FALSE /\ dRespValid' = FALSE
  /\ simPc' = IF simPc = "idle" THEN "notified" ELSE simPc
  /\ shadow' = IF iss.dreq # <<>> /\ iss.dreq[1].type = "write"
               THEN [shadow EXCEPT ![Cell[iss.dreq[1].addr]] = iss.dreq[1].val]
               ELSE shadow
  /\ UNCHANGED <<iss, instrBuf, waitFor, writing, iPeq, dPeq, busI, busR, busW,
                 flight, mem, crashed, given>>

(***************************************************************************)
(* The flags of all outstanding requests are set: the responses are popped *)
(* and given to the ISS, which runs a cycle.  process_resp on a NULL       *)
(* payload crashes.                                                        *)
(***************************************************************************)
Ready == (ireq.valid \/ dreq.valid) /\ (ireq.valid => simI) /\ (dreq.valid => simD)

PopsInstr == ireq.valid
PopsData  == dreq.valid /\ dreq.type = "read"

(* Mutant: i_resp_buf is only updated when there is no data request. *)
DeliverForgetting ==
  /\ ~crashed /\ Ready
  /\ iPeq' = IF PopsInstr THEN Tail(iPeq) ELSE iPeq
  /\ dPeq' = IF PopsData THEN Tail(dPeq) ELSE dPeq
  /\ instrBuf' = IF PopsInstr /\ ~dreq.valid THEN Head(iPeq).addr ELSE instrBuf
  /\ dRespValid' = dreq.valid
  /\ given' = [pc    |-> iss.pc,
               instr |-> IF PopsInstr THEN Head(iPeq).addr ELSE iss.pc,
               val   |-> IF PopsData THEN Head(dPeq).val ELSE Zero,
               want  |-> IF PopsData THEN shadow[Cell[dreq.addr]] ELSE Zero]
  /\ ireq' = [ireq EXCEPT !.valid = FALSE]
  /\ dreq' = [dreq EXCEPT !.valid = FALSE]
  /\ ExecuteCycle
  /\ UNCHANGED <<simI, simD, simVars, busI, busR, busW, flight, mem, shadow, crashed>>

Deliver ==
  /\ ~crashed /\ Ready
  /\ crashed' = ((PopsInstr /\ iPeq = <<>>) \/ (PopsData /\ dPeq = <<>>))
  /\ IF crashed'
     THEN UNCHANGED <<iss, ireq, dreq, iPeq, dPeq, instrBuf, dRespValid, given>>
     ELSE /\ iPeq' = IF PopsInstr THEN Tail(iPeq) ELSE iPeq
          /\ dPeq' = IF PopsData THEN Tail(dPeq) ELSE dPeq
          /\ instrBuf' = IF PopsInstr THEN Head(iPeq).addr ELSE instrBuf
          /\ dRespValid' = dreq.valid
          /\ given' = [pc    |-> iss.pc,
                       instr |-> IF PopsInstr THEN Head(iPeq).addr ELSE iss.pc,
                       val   |-> IF PopsData THEN Head(dPeq).val ELSE Zero,
                       want  |-> IF PopsData THEN shadow[Cell[dreq.addr]] ELSE Zero]
          /\ ireq' = [ireq EXCEPT !.valid = FALSE]
          /\ dreq' = [dreq EXCEPT !.valid = FALSE]
          /\ ExecuteCycle
  /\ UNCHANGED <<simI, simD, simVars, busI, busR, busW, flight, mem, shadow>>

-----------------------------------------------------------------------------
(***************************************************************************)
(* run_sim.  The transactions of the current requests.                     *)
(***************************************************************************)
FetchTransaction ==
  [op |-> "fetch", addr |-> ireq.addr, val |-> Zero, done |-> FALSE]
DataTransaction ==
  [op |-> dreq.type, addr |-> dreq.addr, val |-> dreq.val, done |-> FALSE]

(* Mutant: the address of a load is noted before its route is chosen. *)
NoteEarly ==
  /\ busR' = IF dreq.type = "read" THEN dreq.addr ELSE busR
  /\ busW' = IF dreq.type = "write" /\ dreq.addr \in BusAddrs THEN dreq.addr ELSE busW

(* request_fetch, request_read_data and request_write_data note the address *)
(* of what goes to the bus, to recognise the response.                      *)
NoteFetch == busI' = IF ireq.addr \in BootAddrs THEN ireq.addr ELSE busI
NoteData ==
  /\ busR' = IF dreq.type = "read" /\ dreq.addr \in BusAddrs THEN dreq.addr ELSE busR
  /\ busW' = IF dreq.type = "write" /\ dreq.addr \in BusAddrs THEN dreq.addr ELSE busW

(* Mutant: the queue of the fetches is not looked at before waiting. *)
AwaitBlindly ==
  /\ simPc' = CASE ireq.valid /\ dreq.valid /\ dreq.type = "write" -> "fetch_write"
                [] ireq.valid /\ dreq.valid /\ dreq.type = "read"  -> "fetch_read"
                [] ireq.valid /\ ~dreq.valid -> "fetch"
                [] ~ireq.valid -> "data"
  /\ waitFor' = (IF ireq.valid THEN {"i"} ELSE {}) \cup (IF dreq.valid /\ (dreq.type = "read" \/ ~ireq.valid) THEN {"d"} ELSE {})
  /\ simD' = (simD \/ (dreq.valid /\ dreq.type = "write"))

(* Mutant: only the fetch is waited for. *)
AwaitFetchOnly ==
  /\ simPc' = CASE ireq.valid /\ dreq.valid /\ dreq.type = "write" -> "fetch_write"
                [] ireq.valid /\ dreq.valid /\ dreq.type = "read"  -> "fetch_read"
                [] ireq.valid /\ ~dreq.valid -> "fetch"
                [] ~ireq.valid -> "data"
  /\ waitFor' = IF ireq.valid /\ iPeq = <<>> THEN {"i"} ELSE {}
  /\ simD' = (simD \/ (dreq.valid /\ dreq.type = "write"))

(***************************************************************************)
(* The responses to wait for.  A store with a fetch is not waited for.  A  *)
(* fetch response that is already in its queue must not be waited for: its *)
(* event has passed.  A data-only request waits for its response, but a    *)
(* store alone lets run_iss go on at once.                                 *)
(***************************************************************************)
Await ==
  /\ simPc' = CASE ireq.valid /\ dreq.valid /\ dreq.type = "write" -> "fetch_write"
                [] ireq.valid /\ dreq.valid /\ dreq.type = "read"  -> "fetch_read"
                [] ireq.valid /\ ~dreq.valid -> "fetch"
                [] ~ireq.valid -> "data"
  /\ waitFor' = (IF ireq.valid /\ iPeq = <<>> THEN {"i"} ELSE {})
                \cup (IF dreq.valid /\ (dreq.type = "read" \/ ~ireq.valid) THEN {"d"} ELSE {})
  /\ simD' = (simD \/ (dreq.valid /\ dreq.type = "write"))

(* Mutant: a load does not wait for the store in progress. *)
MustReapForStore == dreq.valid /\ writing /\ dreq.type = "write"

(* The store still in progress must have been answered before the next     *)
(* data access; process_resp aborts if it pops anything but a store.       *)
MustReap == dreq.valid /\ writing

Issue ==
  /\ ~crashed /\ simPc = "notified" /\ (MustReap => dPeq # <<>>)
  /\ crashed' = (MustReap /\ Head(dPeq).op # "write")
  /\ dPeq' = IF MustReap THEN Tail(dPeq) ELSE dPeq
  /\ writing' = (writing /\ ~MustReap)
  /\ flight' = flight \cup (IF ireq.valid THEN {FetchTransaction} ELSE {})
                      \cup (IF dreq.valid THEN {DataTransaction} ELSE {})
  /\ IF ireq.valid THEN NoteFetch ELSE UNCHANGED busI
  /\ IF dreq.valid THEN NoteData ELSE UNCHANGED <<busR, busW>>
  /\ Await
  /\ UNCHANGED <<issVars, dreq, simI, iPeq, mem>>

(* The store is not answered: only the fetch goes out. *)
IssueFetch ==
  /\ ~crashed /\ simPc = "notified" /\ MustReap /\ dPeq = <<>>
  /\ flight' = flight \cup (IF ireq.valid THEN {FetchTransaction} ELSE {})
  /\ IF ireq.valid THEN NoteFetch ELSE UNCHANGED busI
  /\ simPc' = "await_write"
  /\ UNCHANGED <<issVars, dreq, simI, simD, waitFor, writing, iPeq, dPeq, busR, busW,
                 mem, crashed>>

IssueData ==
  /\ ~crashed /\ simPc = "write_answered"
  /\ crashed' = (dPeq = <<>> \/ Head(dPeq).op # "write")
  /\ dPeq' = IF crashed' THEN dPeq ELSE Tail(dPeq)
  /\ writing' = FALSE
  /\ flight' = flight \cup {DataTransaction}
  /\ NoteData
  /\ Await
  /\ UNCHANGED <<issVars, dreq, simI, iPeq, busI, mem>>

(* Mutant: a store with a fetch is not remembered as in progress. *)
AnsweredForgetting ==
  /\ ~crashed /\ simPc \in Branches /\ waitFor = {}
  /\ simI' = (simI \/ simPc # "data")
  /\ simD' = (simD \/ simPc # "fetch")
  /\ simPc' = "idle"
  /\ UNCHANGED <<issVars, dreq, writing, waitFor, iPeq, dPeq, busI, busR, busW, flight, mem, crashed>>

(***************************************************************************)
(* All awaited events have come: the flags tell run_iss.  (If nothing was  *)
(* awaited the code does not yield between Await and here; the pause only  *)
(* lets the memory move.)  The data-only branch reads d_req again, which   *)
(* run_iss may have changed.                                               *)
(***************************************************************************)
Answered ==
  /\ ~crashed /\ simPc \in Branches /\ waitFor = {}
  /\ simI' = (simI \/ simPc # "data")
  /\ simD' = (simD \/ simPc \in {"fetch_write", "fetch_read"}
                   \/ (simPc = "data" /\ dreq.type = "read"))
  /\ writing' = (writing \/ simPc = "fetch_write")
  /\ simPc' = "idle"
  /\ UNCHANGED <<issVars, dreq, waitFor, iPeq, dPeq, busI, busR, busW, flight, mem, crashed>>

-----------------------------------------------------------------------------
(***************************************************************************)
(* The memory system performs a transaction, then answers it.              *)
(***************************************************************************)
Perform(t) ==
  /\ ~crashed /\ t \in flight /\ ~t.done
  /\ flight' = (flight \ {t}) \cup
       {[t EXCEPT !.done = TRUE, !.val = IF t.op = "read" THEN mem[Cell[t.addr]] ELSE @]}
  /\ mem' = IF t.op = "write" THEN [mem EXCEPT ![Cell[t.addr]] = t.val] ELSE mem
  /\ UNCHANGED <<issVars, dreq, simI, simD, simVars, iPeq, dPeq, busI, busR, busW, crashed>>

(* An event of queue e: run_sim hears it only if it waits for it now.      *)
Notify(e) ==
  /\ waitFor' = waitFor \ {e}
  /\ simPc' = IF simPc = "await_write" /\ e = "d" THEN "write_answered" ELSE simPc

ToFetch(t) == iPeq' = Append(iPeq, t) /\ Notify("i") /\ UNCHANGED dPeq
ToData(t)  == dPeq' = Append(dPeq, t) /\ Notify("d") /\ UNCHANGED iPeq

(* nb_transport_bw_i and nb_transport_bw_d. *)
RespondSpm(t) ==
  /\ ~crashed /\ t \in flight /\ t.done
  /\ flight' = flight \ {t}
  /\ \/ t.op = "fetch" /\ t.addr \in CodeAddrs /\ ToFetch(t)
     \/ t.op # "fetch" /\ t.addr \in DataAddrs /\ ToData(t)
  /\ UNCHANGED <<issVars, dreq, simI, simD, writing, busI, busR, busW, mem, crashed>>

(* nb_transport_bw_b: the address alone tells whose response it is; none    *)
(* matching aborts.                                                         *)
RespondBus(t) ==
  /\ ~crashed /\ t \in flight /\ t.done
  /\ t.addr \in (IF t.op = "fetch" THEN BootAddrs ELSE BusAddrs)
  /\ flight' = flight \ {t}
  /\ crashed' = (t.addr \notin {busI, busR, busW})
  /\ IF t.addr = busI THEN ToFetch(t)
     ELSE IF t.addr \in {busR, busW} THEN ToData(t)
     ELSE UNCHANGED <<iPeq, dPeq, waitFor, simPc>>
  /\ busI' = IF t.addr = busI THEN NoAddr ELSE busI
  /\ busR' = IF t.addr = busR /\ t.addr # busI THEN NoAddr ELSE busR
  /\ busW' = IF t.addr = busW /\ t.addr \notin {busI, busR} THEN NoAddr ELSE busW
  /\ UNCHANGED <<issVars, dreq, simI, simD, writing, mem>>

RunIss == RefetchFromBuffer \/ Request \/ Deliver
RunSim == Issue \/ IssueFetch \/ IssueData \/ Answered
Serve(t) == Perform(t) \/ RespondSpm(t) \/ RespondBus(t)

Next == RunIss \/ RunSim \/ \E t \in flight : Serve(t)

Spec == Init /\ [][Next]_vars

(***************************************************************************)
(* The SystemC kernel runs both threads, and the memory serves fetches and *)
(* data accesses alike: nothing starves, since a fetch competes only with  *)
(* the data access that was requested with it or the store before.         *)
(***************************************************************************)
FairSpec ==
  /\ Spec
  /\ WF_vars(Request) /\ WF_vars(Deliver) /\ WF_vars(RunSim)
  /\ WF_vars(\E t \in flight : t.op = "fetch" /\ Serve(t))
  /\ WF_vars(\E t \in flight : t.op # "fetch" /\ Serve(t))

-----------------------------------------------------------------------------
(***************************************************************************)
(* Properties                                                              *)
(***************************************************************************)
Transaction ==
  [op : {"fetch"}, addr : FetchAddrs, val : {Zero}, done : BOOLEAN]
  \cup [op : {"read", "write"}, addr : DataAddrs \cup BusAddrs, val : Values, done : BOOLEAN]

TypeOK ==
  /\ iss \in [pc : FetchAddrs, dreq : Accesses(Access), micro : BOOLEAN]
  /\ ireq \in [valid : BOOLEAN, addr : FetchAddrs \cup {NoAddr}]
  /\ dreq \in [valid : BOOLEAN, type : {"read", "write"}, addr : DataAddrs \cup BusAddrs,
               val : Values]
  /\ simI \in BOOLEAN /\ simD \in BOOLEAN /\ dRespValid \in BOOLEAN /\ writing \in BOOLEAN
  /\ instrBuf \in FetchAddrs \cup {NoAddr}
  /\ simPc \in Branches \cup {"idle", "notified", "await_write", "write_answered"}
  /\ waitFor \subseteq {"i", "d"}
  /\ iPeq \in Seq(Transaction) /\ dPeq \in Seq(Transaction)
  /\ busI \in FetchAddrs \cup {NoAddr}
  /\ busR \in BusAddrs \cup {NoAddr} /\ busW \in BusAddrs \cup {NoAddr}
  /\ flight \subseteq Transaction
  /\ mem \in [Cells -> Values] /\ shadow \in [Cells -> Values]
  /\ crashed \in BOOLEAN
  /\ given \in [pc : FetchAddrs, instr : FetchAddrs, val : Values, want : Values]

(***************************************************************************)
(* No abort, failed assertion or NULL payload: the flags are raised only   *)
(* when the responses are in the queues, a store is reaped as a store, and *)
(* a bus response is recognised by its address.                            *)
(***************************************************************************)
NoCrash == ~crashed

(***************************************************************************)
(* A load returns what the last store of the program to that word wrote,   *)
(* although the store was not waited for and the load may take another     *)
(* port to the same bank.                                                  *)
(***************************************************************************)
LoadsSeeStores == given.val = given.want

(***************************************************************************)
(* The ISS only executes the word of the address it is at: responses are   *)
(* not mixed up, and the buffered instruction is the right one when the    *)
(* fetch is repeated.                                                      *)
(***************************************************************************)
RightInstruction == given.instr = given.pc

(***************************************************************************)
(* The discipline the one-place port buffers of the memory rely on: at     *)
(* most one fetch and one data access are outstanding, the port of a fetch *)
(* is free whenever run_sim is about to fetch, and a data access is        *)
(* outstanding at rest only as the decoupled store.                        *)
(***************************************************************************)
Fetches == {t \in flight : t.op = "fetch"}
Datas   == {t \in flight : t.op # "fetch"}

OneTransactionPerPort ==
  /\ Cardinality(Fetches) + Len(iPeq) <= 1
  /\ Cardinality(Datas) + Len(dPeq) <= 1
  /\ simPc = "notified" => Fetches = {} /\ iPeq = <<>>
  /\ simPc = "notified" /\ ~writing => Datas = {} /\ dPeq = <<>>
  /\ simPc = "write_answered" => Datas = {}

(***************************************************************************)
(* Every request of the ISS is answered: run_sim hears it, and does not    *)
(* wait for an event that has already passed, or that never comes.         *)
(***************************************************************************)
RequestsAnswered == (ireq.valid \/ dreq.valid) ~> Quiet
=============================================================================
