--------------------------- MODULE Wrapper_proofs ---------------------------
(***************************************************************************)
(* Proofs about the wrapper, for any addresses, routes and values, and for *)
(* an ISS whose accesses without a fetch are loads.  The inductive         *)
(* invariant is WrapperInv.                                                *)
(***************************************************************************)
EXTENDS Wrapper, SequenceTheorems, FiniteSetTheorems, TLAPS

NoDoubleStores == Doubles \subseteq {"read"}

-----------------------------------------------------------------------------
(* A transaction of the fetch, or of the data access, that d describes is  *)
(* out: in the memory system, or answered in the queue of its kind.        *)
Unissued == simPc \in {"notified", "await_write", "write_answered"}

FetchOut == ireq.valid /\ simPc # "notified"
DataOut  == writing \/ (dreq.valid /\ ~Unissued)

(* Exactly the given transaction of a kind is out, in one of the two places. *)
FetchIs(t) == \/ Fetches = {t} /\ iPeq = <<>>
              \/ Fetches = {} /\ iPeq = <<t>> /\ t.done
DataIs(t)  == \/ Datas = {t} /\ dPeq = <<>>
              \/ Datas = {} /\ dPeq = <<t>> /\ t.done

Current(t) ==
  IF dreq.valid /\ ~Unissued /\ dreq.type = "read"
  THEN t.op = "read" /\ t.addr = dreq.addr
  ELSE t.op = "write"

FetchPlace ==
  IF FetchOut
  THEN \E t \in Transaction : FetchIs(t) /\ t.op = "fetch" /\ t.addr = ireq.addr
  ELSE Fetches = {} /\ iPeq = <<>>

DataPlace ==
  IF DataOut
  THEN \E t \in Transaction : DataIs(t) /\ t.op # "fetch" /\ Current(t)
  ELSE Datas = {} /\ dPeq = <<>>

Control ==
  /\ simPc = "idle" =>
       /\ waitFor = {}
       /\ ireq.valid => simI /\ iPeq # <<>>
       /\ dreq.valid => simD /\ (IF dreq.type = "read" THEN dPeq # <<>> /\ ~writing ELSE writing)
  /\ simPc # "idle" => (ireq.valid \/ dreq.valid) /\ (ireq.valid => ~simI)
  /\ Unissued => waitFor = {} /\ ~simI /\ ~simD
  /\ simPc = "await_write" => dreq.valid /\ writing /\ dPeq = <<>>
  /\ simPc = "write_answered" => dreq.valid /\ writing /\ dPeq # <<>>
  /\ simPc \in Branches =>
       /\ dreq.valid => ~writing
       /\ ireq.valid = (simPc # "data")
       /\ dreq.valid = (simPc # "fetch")
       /\ dreq.valid => dreq.type = (IF simPc = "fetch_write" THEN "write" ELSE "read")
       /\ waitFor = (IF ireq.valid /\ iPeq = <<>> THEN {"i"} ELSE {})
                     \cup (IF dreq.valid /\ dreq.type = "read" /\ dPeq = <<>> THEN {"d"} ELSE {})
       /\ dreq.valid /\ dreq.type = "read" => ~simD

IssAgrees ==
  /\ iss.micro => iss.dreq # <<>> /\ iss.dreq[1].type = "read"
  /\ ireq.valid => iss.pc = ireq.addr /\ ~iss.micro
  /\ dreq.valid => /\ iss.dreq = <<[type |-> dreq.type, addr |-> dreq.addr, val |-> dreq.val]>>
                   /\ ireq.valid = ~iss.micro
  /\ ~ireq.valid /\ iss.dreq = <<>> /\ iss.pc = ireq.addr => instrBuf = ireq.addr

BusAgrees ==
  /\ busI \in BootAddrs \cup {NoAddr}
  /\ busI # NoAddr => \E t \in flight : t.op = "fetch" /\ t.addr = busI
  /\ busR # NoAddr => \E t \in flight : t.op = "read" /\ t.addr = busR
  /\ busW # NoAddr => \E t \in flight : t.op = "write" /\ t.addr = busW
  /\ \A t \in flight :
       /\ t.op = "fetch" /\ t.addr \in BootAddrs => busI = t.addr
       /\ t.op = "read" /\ t.addr \in BusAddrs => busR = t.addr
       /\ t.op = "write" /\ t.addr \in BusAddrs => busW = t.addr

StorePending(c) == Unissued /\ dreq.valid /\ dreq.type = "write" /\ c = Cell[dreq.addr]

ShadowAgrees ==
  /\ \A c \in Cells :
       /\ StorePending(c) => shadow[c] = dreq.val
       /\ ~StorePending(c) =>
            /\ \A t \in flight : t.op = "write" /\ ~t.done /\ Cell[t.addr] = c => shadow[c] = t.val
            /\ (\A t \in flight : t.op = "write" /\ ~t.done => Cell[t.addr] # c) => shadow[c] = mem[c]
  /\ \A t \in flight : t.op = "read" /\ t.done => t.val = shadow[Cell[t.addr]]
  /\ \A i \in 1 .. Len(dPeq) : dPeq[i].op = "read" => dPeq[i].val = shadow[Cell[dPeq[i].addr]]

WrapperInv ==
  /\ TypeOK /\ NoCrash /\ LoadsSeeStores /\ RightInstruction
  /\ FetchPlace /\ DataPlace /\ Control /\ IssAgrees /\ BusAgrees /\ ShadowAgrees

-----------------------------------------------------------------------------
(* The only element of a queue is its head, and nothing is behind it. *)
LEMMA Lone ==
  ASSUME NEW S, NEW t \in S, NEW q, q = <<t>>
  PROVE  Head(q) = t /\ Tail(q) = <<>> /\ q # <<>> /\ Len(q) = 1 /\ q[1] = t
OBVIOUS

(* A cycle of the ISS keeps its type; what it leaves to microcode is a load, and
   microcode always accesses data. *)
LEMMA ExecuteFacts ==
  ASSUME TypeOK, NoDoubleStores, IssAgrees, ExecuteCycle, iss.micro => dreq.type = "read"
  PROVE  /\ iss' \in [pc : FetchAddrs, dreq : Accesses(Access), micro : BOOLEAN]
         /\ iss'.micro => iss'.dreq # <<>> /\ iss'.dreq[1].type = "read"
         /\ iss.micro => iss'.dreq # <<>>
<1>. DEFINE I == [pc : FetchAddrs, dreq : Accesses(Access), micro : BOOLEAN]
<1>0. iss \in I /\ <<>> \in Accesses(Access)
  BY DEF TypeOK, Accesses
<1>1. CASE ~iss.micro /\ Stall
  BY <1>0, <1>1 DEF Stall
<1>2. CASE Run
  <2>1. PICK pc \in FetchAddrs, d \in Accesses(Access), micro \in BOOLEAN :
           /\ micro => d # <<>> /\ d[1].type \in Doubles
           /\ iss' = [pc |-> pc, dreq |-> d, micro |-> micro]
    BY <1>2 DEF Run
  <2>2. ~iss.micro
    BY <1>2 DEF Run
  <2>3. micro => d[1].type = "read"
    BY <2>1 DEF NoDoubleStores
  <2>. QED BY <2>1, <2>2, <2>3
<1>3. CASE Microcode
  <2>1. PICK a \in Access : a.type = dreq.type /\ iss' = [iss EXCEPT !.dreq = <<a>>, !.micro = FALSE]
    BY <1>3 DEF Microcode
  <2>2. <<a>> \in Accesses(Access) /\ <<a>> # <<>> /\ <<a>>[1] = a
    BY DEF Accesses
  <2>. QED BY <1>0, <2>1, <2>2
<1>. QED BY <1>1, <1>2, <1>3 DEF ExecuteCycle

(* The invariant holds when simulation starts. *)
LEMMA InitInv == Init => WrapperInv
<1>. SUFFICES ASSUME Init PROVE WrapperInv
  OBVIOUS
<1>. USE WrapperAssumption
<1>1. TypeOK
  <2>1. /\ iss \in [pc : FetchAddrs, dreq : Accesses(Access), micro : BOOLEAN]
        /\ ireq \in [valid : BOOLEAN, addr : FetchAddrs \cup {NoAddr}]
        /\ given \in [pc : FetchAddrs, instr : FetchAddrs, val : Values, want : Values]
    BY DEF Init, Accesses, FetchAddrs
  <2>2. dreq \in [valid : BOOLEAN, type : {"read", "write"}, addr : DataAddrs \cup BusAddrs,
                  val : Values]
    BY DEF Init
  <2>3. mem \in [Cells -> Values] /\ shadow \in [Cells -> Values]
    BY DEF Init
  <2>4. iPeq \in Seq(Transaction) /\ dPeq \in Seq(Transaction) /\ flight \subseteq Transaction
    BY DEF Init
  <2>. QED BY <2>1, <2>2, <2>3, <2>4 DEF Init, TypeOK
<1>2. NoCrash /\ LoadsSeeStores /\ RightInstruction
  BY DEF Init, NoCrash, LoadsSeeStores, RightInstruction
<1>3. FetchPlace /\ DataPlace
  BY DEF Init, FetchPlace, DataPlace, FetchOut, DataOut, Fetches, Datas
<1>4. Control /\ IssAgrees
  BY DEF Init, Control, IssAgrees, Unissued, Branches, FetchAddrs
<1>5. BusAgrees /\ ShadowAgrees
  BY DEF Init, BusAgrees, ShadowAgrees, StorePending
<1>. QED BY <1>1, <1>2, <1>3, <1>4, <1>5 DEF WrapperInv

(* Giving the ISS its last instruction again keeps the invariant: the buffer holds
   the word of the address it is at. *)
LEMMA RefetchInv ==
  ASSUME WrapperInv, NoDoubleStores, RefetchFromBuffer
  PROVE  WrapperInv'
<1>. USE DEF RefetchFromBuffer, WrapperInv, simVars
<1>0. /\ iss' \in [pc : FetchAddrs, dreq : Accesses(Access), micro : BOOLEAN]
      /\ iss'.micro => iss'.dreq # <<>> /\ iss'.dreq[1].type = "read"
  <2>1. iss.micro => dreq.type = "read"
    BY DEF Duplicate
  <2>. QED BY <2>1, ExecuteFacts
<1>5. instrBuf = ireq.addr /\ ireq.addr = iss.pc
  BY DEF Duplicate, Quiet, IssAgrees
<1>1. TypeOK'
  <2>1. ireq' \in [valid : BOOLEAN, addr : FetchAddrs \cup {NoAddr}]
    BY DEF TypeOK
  <2>2. given' \in [pc : FetchAddrs, instr : FetchAddrs, val : Values, want : Values]
    BY <1>5 DEF TypeOK
  <2>. QED BY <1>0, <2>1, <2>2 DEF TypeOK
<1>2. NoCrash' /\ LoadsSeeStores' /\ RightInstruction'
  BY <1>5 DEF NoCrash, LoadsSeeStores, RightInstruction, TypeOK
<1>3. ireq' = ireq
  BY DEF Quiet, TypeOK
<1>4. FetchPlace' /\ DataPlace' /\ Control' /\ BusAgrees' /\ ShadowAgrees'
  <2>1. FetchPlace'
    BY <1>3 DEF FetchPlace, FetchOut, Fetches, FetchIs
  <2>2. DataPlace'
    BY <1>3 DEF DataPlace, DataOut, Datas, DataIs, Current, Unissued
  <2>3. Control'
    BY <1>3 DEF Control, Unissued
  <2>4. BusAgrees'
    BY DEF BusAgrees
  <2>5. ShadowAgrees'
    BY DEF ShadowAgrees, StorePending, Unissued
  <2>. QED BY <2>1, <2>2, <2>3, <2>4, <2>5
<1>6. IssAgrees'
  BY <1>0, <1>3, <1>5 DEF IssAgrees, Quiet
<1>. QED BY <1>1, <1>2, <1>4, <1>6

(* Where the transactions are, read off FetchPlace and DataPlace. *)
LEMMA FetchWhere ==
  ASSUME FetchPlace
  PROVE  /\ \A t \in flight : t.op = "fetch" =>
              FetchOut /\ t.addr = ireq.addr /\ iPeq = <<>> /\ Fetches = {t}
         /\ FetchOut /\ iPeq = <<>> => \E t \in flight : t.op = "fetch"
         /\ iPeq # <<>> => /\ FetchOut /\ Fetches = {}
                           /\ \E t \in Transaction : iPeq = <<t>> /\ t.op = "fetch"
                                                     /\ t.addr = ireq.addr
BY DEF FetchPlace, FetchIs, Fetches

LEMMA DataWhere ==
  ASSUME DataPlace
  PROVE  /\ \A t \in flight : t.op # "fetch" =>
              DataOut /\ Current(t) /\ dPeq = <<>> /\ Datas = {t}
         /\ DataOut /\ dPeq = <<>> => \E t \in flight : t.op # "fetch" /\ Current(t)
         /\ dPeq # <<>> => /\ DataOut /\ Datas = {}
                           /\ \E t \in Transaction : dPeq = <<t>> /\ t.done /\ t.op # "fetch"
                                                     /\ Current(t)
BY DEF DataPlace, DataIs, Datas

(* A request keeps the invariant: run_sim is in its first wait and hears it. *)
LEMMA RequestInv ==
  ASSUME WrapperInv, NoDoubleStores, Request
  PROVE  WrapperInv'
<1>. USE DEF Request, WrapperInv
<1>0. simPc = "idle" /\ simPc' = "notified" /\ ireq.valid = FALSE /\ dreq.valid = FALSE
  BY DEF Quiet, Control, TypeOK
<1>2. ASSUME iss.dreq # <<>>
      PROVE  iss.dreq[1] \in Access /\ iss.dreq = <<iss.dreq[1]>>
  BY <1>2 DEF TypeOK, Accesses
<1>1. TypeOK'
  <2>1. ireq' \in [valid : BOOLEAN, addr : FetchAddrs \cup {NoAddr}]
    BY DEF TypeOK
  <2>2. dreq' \in [valid : BOOLEAN, type : {"read", "write"}, addr : DataAddrs \cup BusAddrs,
                   val : Values]
    BY <1>2 DEF TypeOK, Access
  <2>3. shadow' \in [Cells -> Values]
    BY <1>2 DEF TypeOK, Access
  <2>. QED BY <1>0, <2>1, <2>2, <2>3 DEF TypeOK
<1>3. NoCrash' /\ LoadsSeeStores' /\ RightInstruction'
  BY DEF NoCrash, LoadsSeeStores, RightInstruction
<1>4. FetchPlace'
  BY <1>0 DEF FetchPlace, FetchOut, Fetches
<1>5. DataPlace'
  <2>1. DataOut' = DataOut /\ (\A t : Current(t)' = Current(t))
    BY <1>0 DEF DataOut, Unissued, Current
  <2>. QED BY <2>1 DEF DataPlace, Datas, DataIs
<1>6. Control'
  <2>1. ireq'.valid \/ dreq'.valid
    BY DEF IssAgrees, TypeOK
  <2>. QED BY <1>0, <2>1 DEF Control, Unissued, Branches
<1>7. IssAgrees'
  <2>1. dreq'.valid =>
          /\ iss.dreq = <<[type |-> dreq'.type, addr |-> dreq'.addr, val |-> dreq'.val]>>
          /\ ireq'.valid = ~iss.micro
    BY <1>2 DEF Access
  <2>. QED BY <2>1 DEF IssAgrees, TypeOK
<1>8. BusAgrees'
  BY DEF BusAgrees
<1>9. ShadowAgrees'
  <2>1. \A t \in flight : t.op = "write"
    BY <1>0, FetchWhere, DataWhere DEF FetchOut, Current
  <2>2. \A i \in 1 .. Len(dPeq) : dPeq[i].op = "write"
    BY <1>0, DataWhere, Lone DEF Current
  <2>3. \A c : ~StorePending(c)
    BY <1>0 DEF StorePending
  <2>4. ASSUME NEW c \in Cells
        PROVE  /\ StorePending(c)' => shadow'[c] = dreq'.val
               /\ ~StorePending(c)' => shadow'[c] = shadow[c]
    <3>1. CASE iss.dreq = <<>>
      BY <3>1 DEF StorePending
    <3>2. CASE iss.dreq # <<>>
      <4>1. /\ dreq'.valid /\ dreq'.type = iss.dreq[1].type /\ dreq'.addr = iss.dreq[1].addr
            /\ dreq'.val = iss.dreq[1].val
        BY <3>2
      <4>2. StorePending(c)' = (iss.dreq[1].type = "write" /\ c = Cell[iss.dreq[1].addr])
        BY <4>1, <1>0 DEF StorePending, Unissued
      <4>. QED BY <3>2, <4>1, <4>2 DEF TypeOK
    <3>. QED BY <3>1, <3>2
  <2>. QED BY <2>1, <2>2, <2>3, <2>4 DEF ShadowAgrees
<1>. QED BY <1>1, <1>3, <1>4, <1>5, <1>6, <1>7, <1>8, <1>9

(* Handing the responses to the ISS keeps the invariant: both queues hold theirs,
   and a load the word of the shadow. *)
LEMMA DeliverInv ==
  ASSUME WrapperInv, NoDoubleStores, Deliver
  PROVE  WrapperInv'
<1>. USE DEF Deliver, WrapperInv, simVars
<1>0. simPc = "idle" /\ (ireq.valid \/ dreq.valid)
  BY DEF Ready, Control, TypeOK, Unissued
<1>1. (PopsInstr => iPeq # <<>>) /\ (PopsData => dPeq # <<>>) /\ crashed' = FALSE
  BY <1>0 DEF Control, PopsInstr, PopsData
<1>2. /\ iss' \in [pc : FetchAddrs, dreq : Accesses(Access), micro : BOOLEAN]
      /\ iss'.micro => iss'.dreq # <<>> /\ iss'.dreq[1].type = "read"
      /\ iss.micro => iss'.dreq # <<>>
  <2>1. iss.micro => dreq.type = "read"
    BY <1>0 DEF IssAgrees
  <2>. QED BY <1>1, <2>1, ExecuteFacts
<1>3. /\ ireq'.valid = FALSE /\ ireq'.addr = ireq.addr
      /\ dreq'.valid = FALSE /\ dreq'.type = dreq.type
      /\ ireq' \in [valid : BOOLEAN, addr : FetchAddrs \cup {NoAddr}]
      /\ dreq' \in [valid : BOOLEAN, type : {"read", "write"}, addr : DataAddrs \cup BusAddrs,
                    val : Values]
  <2>1. ireq' = [ireq EXCEPT !.valid = FALSE] /\ dreq' = [dreq EXCEPT !.valid = FALSE]
    BY <1>1
  <2>2. ireq \in [valid : BOOLEAN, addr : FetchAddrs \cup {NoAddr}]
    BY DEF TypeOK
  <2>3. dreq \in [valid : BOOLEAN, type : {"read", "write"}, addr : DataAddrs \cup BusAddrs,
                  val : Values]
    BY DEF TypeOK
  <2>. HIDE DEF Deliver, WrapperInv
  <2>. QED BY <2>1, <2>2, <2>3
<1>4. PICK ti : ireq.valid => /\ ti \in Transaction /\ iPeq = <<ti>> /\ ti.op = "fetch"
                              /\ ti.addr = ireq.addr /\ Fetches = {} /\ FetchOut
  BY <1>1, FetchWhere DEF PopsInstr
<1>5. PICK td : PopsData => /\ td \in Transaction /\ dPeq = <<td>> /\ td.op = "read"
                            /\ td.addr = dreq.addr /\ Datas = {} /\ DataOut
  BY <1>0, <1>1, DataWhere DEF PopsData, Current, Unissued
<1>6. /\ iPeq' = <<>>
      /\ dPeq' = IF PopsData THEN <<>> ELSE dPeq
      /\ instrBuf' = IF ireq.valid THEN ireq.addr ELSE instrBuf
      /\ given'.pc = iss.pc /\ given'.instr = iss.pc
  <2>1. ~ireq.valid => iPeq = <<>>
    BY FetchWhere DEF FetchOut
  <2>2. ireq.valid => Tail(iPeq) = <<>> /\ Head(iPeq) = ti
    BY <1>4, Lone
  <2>3. PopsData => Tail(dPeq) = <<>>
    BY <1>5, Lone
  <2>4. ireq.valid => iss.pc = ireq.addr
    BY DEF IssAgrees
  <2>5. /\ iPeq' = IF PopsInstr THEN Tail(iPeq) ELSE iPeq
        /\ dPeq' = IF PopsData THEN Tail(dPeq) ELSE dPeq
        /\ instrBuf' = IF PopsInstr THEN Head(iPeq).addr ELSE instrBuf
        /\ given'.pc = iss.pc
        /\ given'.instr = IF PopsInstr THEN Head(iPeq).addr ELSE iss.pc
    BY <1>1
  <2>. HIDE DEF Deliver, WrapperInv
  <2>. QED BY <1>4, <2>1, <2>2, <2>3, <2>4, <2>5 DEF PopsInstr
<1>7. given'.val = given'.want /\ given'.val \in Values
  <2>1. CASE PopsData
    <3>1. td.val = shadow[Cell[dreq.addr]]
      BY <1>5, <2>1, Lone DEF ShadowAgrees
    <3>2. Cell[dreq.addr] \in Cells
      BY DEF TypeOK, Cells
    <3>. QED BY <1>1, <1>5, <2>1, <3>1, <3>2, Lone DEF TypeOK
  <2>2. CASE ~PopsData
    BY <1>1, <2>2, WrapperAssumption
  <2>. QED BY <2>1, <2>2
<1>8. TypeOK'
  <2>1. given' \in [pc : FetchAddrs, instr : FetchAddrs, val : Values, want : Values]
    BY <1>1, <1>6, <1>7 DEF TypeOK
  <2>2. iPeq' \in Seq(Transaction) /\ dPeq' \in Seq(Transaction)
    BY <1>6 DEF TypeOK
  <2>3. instrBuf' \in FetchAddrs \cup {NoAddr} /\ dRespValid' \in BOOLEAN
    BY <1>1, <1>6 DEF TypeOK
  <2>. QED BY <1>1, <1>2, <1>3, <2>1, <2>2, <2>3 DEF TypeOK
<1>9. NoCrash' /\ LoadsSeeStores' /\ RightInstruction'
  BY <1>1, <1>6, <1>7 DEF NoCrash, LoadsSeeStores, RightInstruction
<1>10. FetchPlace'
  <2>1. Fetches = {}
    BY <1>4, FetchWhere DEF Fetches, FetchOut
  <2>. QED BY <1>3, <1>6, <2>1 DEF FetchPlace, FetchOut, Fetches
<1>11. DataPlace'
  <2>1. CASE PopsData
    BY <1>0, <1>3, <1>5, <1>6, <2>1 DEF DataPlace, DataOut, Datas, Control, PopsData
  <2>2. CASE ~PopsData
    <3>1. DataOut' = DataOut /\ \A t : Current(t)' = Current(t)
      BY <1>0, <1>3, <2>2 DEF DataOut, Control, PopsData, Current, TypeOK
    <3>. QED BY <1>6, <2>2, <3>1 DEF DataPlace, DataIs, Datas
  <2>. QED BY <2>1, <2>2
<1>12. Control'
  BY <1>0, <1>3 DEF Control, Unissued, Branches
<1>13. IssAgrees'
  <2>1. iss'.dreq = <<>> /\ iss'.pc = ireq.addr => instrBuf' = ireq.addr
    BY <1>2, <1>6, <1>0 DEF IssAgrees
  <2>. QED BY <1>2, <1>3, <2>1 DEF IssAgrees
<1>14. BusAgrees'
  BY DEF BusAgrees
<1>15. ShadowAgrees'
  <2>1. \A c : StorePending(c)' = StorePending(c)
    BY <1>0, <1>3 DEF StorePending, Unissued
  <2>. QED BY <2>1, <1>0, <1>6 DEF ShadowAgrees, StorePending, Unissued
<1>. QED BY <1>8, <1>9, <1>10, <1>11, <1>12, <1>13, <1>14, <1>15

(* Raising the flags keeps the invariant: what was awaited is in the queues. *)
LEMMA AnsweredInv ==
  ASSUME WrapperInv, Answered
  PROVE  WrapperInv'
<1>. USE DEF Answered, WrapperInv, issVars
<1>0. ~Unissued /\ ~Unissued' /\ simPc # "idle" /\ simPc' # "notified" /\ simPc # "notified"
  BY DEF Unissued, Branches
<1>1. TypeOK'
  BY DEF TypeOK, Branches
<1>2. NoCrash' /\ LoadsSeeStores' /\ RightInstruction'
  BY DEF NoCrash, LoadsSeeStores, RightInstruction
<1>3. FetchPlace'
  BY <1>0 DEF FetchPlace, FetchOut, Fetches, FetchIs
<1>4. DataPlace'
  <2>1. DataOut' = DataOut
    BY <1>0 DEF DataOut, Control
  <2>2. \A t : Current(t)' = Current(t)
    BY <1>0 DEF Current
  <2>. QED BY <2>1, <2>2 DEF DataPlace, DataIs, Datas
<1>5. Control'
  <2>1. ireq.valid => simI' /\ iPeq # <<>>
    BY DEF Control
  <2>2. dreq.valid => simD' /\ (IF dreq.type = "read" THEN dPeq # <<>> /\ ~writing' ELSE writing')
    BY DEF Control, Branches, TypeOK
  <2>. QED BY <1>0, <2>1, <2>2 DEF Control, Unissued, Branches
<1>6. IssAgrees' /\ BusAgrees'
  BY DEF IssAgrees, BusAgrees
<1>7. ShadowAgrees'
  BY <1>0 DEF ShadowAgrees, StorePending
<1>. QED BY <1>1, <1>2, <1>3, <1>4, <1>5, <1>6, <1>7

(* A transaction that takes effect keeps the invariant: no other store is out
   when a load is performed. *)
LEMMA PerformInv ==
  ASSUME WrapperInv, NEW t \in flight, Perform(t)
  PROVE  WrapperInv'
<1>. USE DEF Perform, WrapperInv, issVars, simVars
<1>. DEFINE u == [t EXCEPT !.done = TRUE, !.val = IF t.op = "read" THEN mem[Cell[t.addr]] ELSE @]
<1>1. t \in Transaction
  BY DEF TypeOK
<1>2. t.op # "fetch" => Cell[t.addr] \in Cells
  BY <1>1 DEF Transaction, Cells
<1>3. /\ u \in Transaction /\ u.op = t.op /\ u.addr = t.addr /\ u.done
      /\ u.val = IF t.op = "read" THEN mem[Cell[t.addr]] ELSE t.val
  BY <1>1, <1>2 DEF Transaction, TypeOK
<1>4. mem' \in [Cells -> Values]
  BY <1>1, <1>2 DEF TypeOK, Transaction
<1>5. flight' = (flight \ {t}) \cup {u}
  OBVIOUS
<1>. HIDE DEF u
<1>6. TypeOK'
  BY <1>3, <1>4, <1>5 DEF TypeOK
<1>7. NoCrash' /\ LoadsSeeStores' /\ RightInstruction'
  BY DEF NoCrash, LoadsSeeStores, RightInstruction
<1>8. FetchPlace'
  <2>1. CASE t.op = "fetch"
    <3>1. FetchOut /\ t.addr = ireq.addr /\ iPeq = <<>> /\ Fetches = {t}
      BY <2>1, FetchWhere
    <3>2. Fetches' = {u}
      BY <1>3, <1>5, <2>1, <3>1 DEF Fetches
    <3>. QED BY <1>3, <2>1, <3>1, <3>2 DEF FetchPlace, FetchOut, FetchIs
  <2>2. CASE t.op # "fetch"
    <3>1. Fetches' = Fetches
      BY <1>3, <1>5, <2>2 DEF Fetches
    <3>. QED BY <3>1 DEF FetchPlace, FetchOut, FetchIs
  <2>. QED BY <2>1, <2>2
<1>9. DataPlace'
  <2>1. DataOut' = DataOut /\ \A x : Current(x)' = Current(x)
    BY DEF DataOut, Current, Unissued
  <2>2. CASE t.op # "fetch"
    <3>1. DataOut /\ Current(t) /\ dPeq = <<>> /\ Datas = {t}
      BY <2>2, DataWhere
    <3>2. Datas' = {u}
      BY <1>3, <1>5, <2>2, <3>1 DEF Datas
    <3>3. Current(u)
      BY <1>3, <3>1 DEF Current
    <3>. QED BY <1>3, <2>1, <2>2, <3>1, <3>2, <3>3 DEF DataPlace, DataIs
  <2>3. CASE t.op = "fetch"
    <3>1. Datas' = Datas
      BY <1>3, <1>5, <2>3 DEF Datas
    <3>. QED BY <2>1, <3>1 DEF DataPlace, DataIs
  <2>. QED BY <2>2, <2>3
<1>10. Control' /\ IssAgrees'
  BY DEF Control, IssAgrees, Unissued
<1>11. BusAgrees'
  BY <1>3, <1>5 DEF BusAgrees
<1>12. ShadowAgrees'
  <2>0. \A c : StorePending(c)' = StorePending(c)
    BY DEF StorePending, Unissued
  <2>1. t.op # "fetch" => Datas = {t} /\ dPeq = <<>> /\ Current(t)
    BY DataWhere
  <2>2. \A x \in flight : x # t /\ t.op # "fetch" => x.op = "fetch"
    BY <2>1 DEF Datas
  <2>3. t.op = "read" => u.val = shadow[Cell[t.addr]]
    <3>1. SUFFICES ASSUME t.op = "read" PROVE u.val = shadow[Cell[t.addr]]
      OBVIOUS
    <3>2. ~StorePending(Cell[t.addr])
      BY <2>1, <3>1 DEF StorePending, Current
    <3>3. \A x \in flight : x.op # "write"
      BY <2>2, <3>1
    <3>. QED BY <1>2, <1>3, <3>1, <3>2, <3>3 DEF ShadowAgrees
  <2>4. t.op = "write" => ~t.done /\ mem' = [mem EXCEPT ![Cell[t.addr]] = t.val]
    OBVIOUS
  <2>5. t.op # "write" => mem' = mem
    OBVIOUS
  <2>6. ASSUME NEW c \in Cells, ~StorePending(c)
        PROVE  /\ \A x \in flight' : x.op = "write" /\ ~x.done /\ Cell[x.addr] = c => shadow[c] = x.val
               /\ (\A x \in flight' : x.op = "write" /\ ~x.done => Cell[x.addr] # c)
                    => shadow[c] = mem'[c]
    <3>1. CASE t.op = "write"
      <4>1. \A x \in flight' : ~(x.op = "write" /\ ~x.done)
        BY <1>3, <1>5, <2>2, <3>1
      <4>2. CASE c = Cell[t.addr]
        BY <2>4, <2>6, <3>1, <4>1, <4>2 DEF ShadowAgrees, TypeOK
      <4>3. CASE c # Cell[t.addr]
        <5>1. \A x \in flight : x.op = "write" /\ ~x.done => Cell[x.addr] # c
          BY <2>2, <3>1, <4>3
        <5>. QED BY <2>4, <2>6, <3>1, <4>1, <4>3, <5>1 DEF ShadowAgrees, TypeOK
      <4>. QED BY <4>2, <4>3
    <3>2. CASE t.op # "write"
      BY <1>3, <1>5, <2>5, <2>6, <3>2 DEF ShadowAgrees
    <3>. QED BY <3>1, <3>2
  <2>7. \A x \in flight' : x.op = "read" /\ x.done => x.val = shadow[Cell[x.addr]]
    BY <1>3, <1>5, <2>3 DEF ShadowAgrees
  <2>. QED BY <2>0, <2>6, <2>7 DEF ShadowAgrees
<1>. QED BY <1>6, <1>7, <1>8, <1>9, <1>10, <1>11, <1>12

(* What the three ways of a response have in common, but for the notes of  *)
(* the bus.                                                                *)
Leaves(t) ==
  /\ t.done /\ flight' = flight \ {t}
  /\ crashed' = crashed
  /\ UNCHANGED <<issVars, dreq, simI, simD, writing, mem>>

ButBus ==
  /\ TypeOK /\ NoCrash /\ LoadsSeeStores /\ RightInstruction
  /\ FetchPlace /\ DataPlace /\ Control /\ IssAgrees /\ ShadowAgrees

BusTypes ==
  busI \in FetchAddrs \cup {NoAddr} /\ busR \in BusAddrs \cup {NoAddr} /\ busW \in BusAddrs \cup {NoAddr}

(* A response that goes to the queue of the fetches keeps all but the notes of
   the bus. *)
LEMMA ToFetchInv ==
  ASSUME ButBus, NEW t \in flight, t.op = "fetch", Leaves(t), ToFetch(t), BusTypes'
  PROVE  ButBus'
<1>. USE DEF Leaves, ToFetch, Notify, ButBus, issVars
<1>1. t \in Transaction
  BY DEF TypeOK
<1>2. FetchOut /\ t.addr = ireq.addr /\ iPeq = <<>> /\ Fetches = {t}
  BY FetchWhere
<1>3. iPeq' = <<t>> /\ iPeq' # <<>> /\ iPeq' \in Seq(Transaction)
  BY <1>1, <1>2
<1>4. Fetches' = {} /\ Datas' = Datas
  BY <1>2 DEF Fetches, Datas
<1>5. simPc' = simPc
  OBVIOUS
<1>6. TypeOK'
  BY <1>3, <1>5 DEF TypeOK, BusTypes
<1>7. NoCrash' /\ LoadsSeeStores' /\ RightInstruction'
  BY DEF NoCrash, LoadsSeeStores, RightInstruction
<1>8. FetchPlace'
  BY <1>1, <1>2, <1>3, <1>4, <1>5 DEF FetchPlace, FetchOut, FetchIs
<1>9. DataPlace'
  BY <1>4, <1>5 DEF DataPlace, DataIs, DataOut, Current, Unissued
<1>10. Control'
  BY <1>2, <1>3, <1>5 DEF Control, Unissued, TypeOK
<1>11. IssAgrees'
  BY DEF IssAgrees
<1>12. ShadowAgrees'
  BY <1>5 DEF ShadowAgrees, StorePending, Unissued
<1>. QED BY <1>6, <1>7, <1>8, <1>9, <1>10, <1>11, <1>12

(* So does a response that goes to the queue of the data accesses. *)
LEMMA ToDataInv ==
  ASSUME ButBus, NEW t \in flight, t.op # "fetch", Leaves(t), ToData(t), BusTypes'
  PROVE  ButBus'
<1>. USE DEF Leaves, ToData, Notify, ButBus, issVars
<1>1. t \in Transaction /\ t.op \in {"read", "write"}
  BY DEF TypeOK, Transaction
<1>2. DataOut /\ Current(t) /\ dPeq = <<>> /\ Datas = {t}
  BY DataWhere
<1>3. dPeq' = <<t>> /\ dPeq' # <<>> /\ dPeq' \in Seq(Transaction)
  BY <1>1, <1>2
<1>4. Datas' = {} /\ Fetches' = Fetches
  BY <1>2 DEF Fetches, Datas
<1>5. /\ Unissued' = Unissued /\ (simPc' = "notified") = (simPc = "notified")
      /\ (simPc' = "idle") = (simPc = "idle") /\ simPc' # "await_write"
      /\ (simPc \in Branches \/ simPc' \in Branches => simPc' = simPc)
  BY DEF Unissued, Branches
<1>6. TypeOK'
  BY <1>3 DEF TypeOK, BusTypes
<1>7. NoCrash' /\ LoadsSeeStores' /\ RightInstruction'
  BY DEF NoCrash, LoadsSeeStores, RightInstruction
<1>8. FetchPlace'
  BY <1>4, <1>5 DEF FetchPlace, FetchOut, FetchIs
<1>9. DataPlace'
  BY <1>1, <1>2, <1>3, <1>4, <1>5 DEF DataPlace, DataIs, DataOut, Current
<1>10. Control'
  <2>1. simPc' = "idle" => /\ waitFor' = {}
                           /\ ireq.valid => simI /\ iPeq # <<>>
                           /\ dreq.valid => simD /\ (IF dreq.type = "read" THEN ~writing ELSE writing)
    BY <1>5 DEF Control
  <2>2. simPc' # "idle" => (ireq.valid \/ dreq.valid) /\ (ireq.valid => ~simI)
    BY <1>5 DEF Control
  <2>3. Unissued' => waitFor' = {} /\ ~simI /\ ~simD
    BY <1>5 DEF Control
  <2>4. simPc' = "write_answered" => dreq.valid /\ writing
    BY DEF Control
  <2>5. simPc' \in Branches =>
       /\ dreq.valid => ~writing
       /\ ireq.valid = (simPc' # "data")
       /\ dreq.valid = (simPc' # "fetch")
       /\ dreq.valid => dreq.type = (IF simPc' = "fetch_write" THEN "write" ELSE "read")
       /\ waitFor' = (IF ireq.valid /\ iPeq = <<>> THEN {"i"} ELSE {})
       /\ dreq.valid /\ dreq.type = "read" => ~simD
    BY <1>2, <1>5 DEF Control
  <2>6. iPeq' = iPeq /\ ireq' = ireq /\ dreq' = dreq /\ simI' = simI /\ simD' = simD /\ writing' = writing
    OBVIOUS
  <2>. HIDE DEF ButBus, Leaves, ToData, Notify, issVars
  <2>. QED BY <1>3, <1>5, <2>1, <2>2, <2>3, <2>4, <2>5, <2>6 DEF Control
<1>11. IssAgrees'
  BY DEF IssAgrees
<1>12. ShadowAgrees'
  <2>1. \A i \in 1 .. Len(dPeq') : dPeq'[i] = t
    BY <1>1, <1>3, Lone
  <2>2. \A c : StorePending(c)' = StorePending(c)
    BY <1>5 DEF StorePending
  <2>3. t.op = "read" => t.val = shadow[Cell[t.addr]]
    BY DEF ShadowAgrees
  <2>. QED BY <2>1, <2>2, <2>3 DEF ShadowAgrees
<1>. QED BY <1>6, <1>7, <1>8, <1>9, <1>10, <1>11, <1>12

(* A response on a direct socket keeps the invariant: the bus notes nothing. *)
LEMMA RespondSpmInv ==
  ASSUME WrapperInv, NEW t \in flight, RespondSpm(t)
  PROVE  WrapperInv'
<1>. USE WrapperAssumption
<1>0. ButBus /\ Leaves(t) /\ BusTypes'
  BY DEF RespondSpm, WrapperInv, ButBus, Leaves, BusTypes, TypeOK
<1>1. CASE t.op = "fetch" /\ t.addr \in CodeAddrs /\ ToFetch(t)
  <2>1. ButBus'
    BY <1>0, <1>1, ToFetchInv
  <2>2. Fetches = {t} /\ busI = NoAddr
    BY <1>1, FetchWhere DEF WrapperInv, BusAgrees, Fetches
  <2>3. BusAgrees'
    BY <1>1, <2>2 DEF WrapperInv, BusAgrees, RespondSpm, Fetches
  <2>. QED BY <2>1, <2>3 DEF WrapperInv, ButBus
<1>2. CASE t.op # "fetch" /\ t.addr \in DataAddrs /\ ToData(t)
  <2>1. ButBus'
    BY <1>0, <1>2, ToDataInv
  <2>2. Datas = {t} /\ busR = NoAddr /\ busW = NoAddr
    BY <1>2, DataWhere DEF WrapperInv, BusAgrees, Datas, TypeOK
  <2>3. BusAgrees'
    BY <1>2, <2>2 DEF WrapperInv, BusAgrees, RespondSpm, Datas
  <2>. QED BY <2>1, <2>3 DEF WrapperInv, ButBus
<1>. QED BY <1>1, <1>2 DEF RespondSpm

(* A response of the bus keeps the invariant: its address is noted, for its kind
   only. *)
LEMMA RespondBusInv ==
  ASSUME WrapperInv, NEW t \in flight, RespondBus(t)
  PROVE  WrapperInv'
<1>. USE WrapperAssumption
<1>0. ButBus /\ BusAgrees /\ FetchPlace /\ DataPlace /\ t \in Transaction
  BY DEF WrapperInv, ButBus, TypeOK
<1>1. CASE t.op = "fetch"
  <2>1. t.addr = busI /\ Fetches = {t} /\ busI # NoAddr
    BY <1>0, <1>1, FetchWhere DEF RespondBus, BusAgrees, FetchAddrs
  <2>2. ToFetch(t) /\ Leaves(t) /\ busI' = NoAddr /\ busR' = busR /\ busW' = busW
    BY <1>0, <2>1 DEF RespondBus, Leaves, ButBus, NoCrash, TypeOK
  <2>3. ButBus'
    <3>1. BusTypes'
      BY <1>0, <2>2 DEF BusTypes, ButBus, TypeOK
    <3>. QED BY <1>0, <1>1, <2>2, <3>1, ToFetchInv
  <2>4. BusAgrees'
    BY <1>0, <1>1, <2>1, <2>2 DEF BusAgrees, Leaves, Fetches
  <2>. QED BY <2>3, <2>4 DEF WrapperInv, ButBus
<1>2. CASE t.op # "fetch"
  <2>1. t.op \in {"read", "write"} /\ Datas = {t} /\ t.addr \in BusAddrs /\ t.addr # NoAddr
        /\ t.addr # busI
    BY <1>0, <1>2, DataWhere DEF RespondBus, BusAgrees, Transaction
  <2>2. t.op = "read" => t.addr = busR /\ busW = NoAddr
    BY <1>0, <1>2, <2>1 DEF BusAgrees, Datas
  <2>3. t.op = "write" => t.addr = busW /\ busR = NoAddr
    BY <1>0, <1>2, <2>1 DEF BusAgrees, Datas
  <2>4. ToData(t) /\ Leaves(t) /\ busI' = busI /\ busR' = NoAddr /\ busW' = NoAddr
    BY <1>0, <2>1, <2>2, <2>3 DEF RespondBus, Leaves, ButBus, NoCrash, TypeOK
  <2>5. ButBus'
    <3>1. BusTypes'
      BY <1>0, <2>4 DEF BusTypes, ButBus, TypeOK
    <3>. QED BY <1>0, <1>2, <2>4, <3>1, ToDataInv
  <2>6. BusAgrees'
    BY <1>0, <1>2, <2>1, <2>4 DEF BusAgrees, Leaves, Datas
  <2>. QED BY <2>5, <2>6 DEF WrapperInv, ButBus
<1>. QED BY <1>1, <1>2

(* What Issue and IssueData come to, when the store before was answered.   *)
NewFetch == IF simPc = "notified" /\ ireq.valid THEN {FetchTransaction} ELSE {}
NewData  == IF dreq.valid THEN {DataTransaction} ELSE {}

Sent ==
  /\ simPc \in {"notified", "write_answered"}
  /\ dreq.valid => Datas = {} /\ dPeq' = <<>>
  /\ ~dreq.valid => dPeq' = dPeq
  /\ crashed' = FALSE
  /\ writing' = (writing /\ ~dreq.valid)
  /\ flight' = flight \cup NewFetch \cup NewData
  /\ IF simPc = "notified" /\ ireq.valid THEN NoteFetch ELSE busI' = busI
  /\ IF dreq.valid THEN NoteData ELSE busR' = busR /\ busW' = busW
  /\ Await
  /\ UNCHANGED <<issVars, dreq, simI, iPeq, mem>>

(* The transactions run_sim builds are well typed. *)
LEMMA NewTypes ==
  ASSUME TypeOK, IssAgrees
  PROVE  /\ ireq.valid => FetchTransaction \in Transaction
         /\ DataTransaction \in Transaction
         /\ FetchTransaction.op = "fetch" /\ FetchTransaction.addr = ireq.addr
         /\ DataTransaction.op = dreq.type /\ DataTransaction.addr = dreq.addr
         /\ DataTransaction.val = dreq.val /\ ~DataTransaction.done
         /\ dreq.type \in {"read", "write"}
         /\ ireq.valid => ireq.addr \in FetchAddrs
BY DEF TypeOK, IssAgrees, FetchTransaction, DataTransaction, Transaction

(* What Await does, given which requests there are: the branch, and exactly the
   responses that are not there yet are waited for. *)
LEMMA AwaitFacts ==
  ASSUME WrapperInv, Await, Unissued
  PROVE  /\ simPc' \in Branches
         /\ ireq.valid = (simPc' # "data")
         /\ dreq.valid = (simPc' # "fetch")
         /\ dreq.valid => dreq.type = (IF simPc' = "fetch_write" THEN "write" ELSE "read")
         /\ waitFor' = (IF ireq.valid /\ iPeq = <<>> THEN {"i"} ELSE {})
                       \cup (IF dreq.valid /\ dreq.type = "read" THEN {"d"} ELSE {})
         /\ simD' \in BOOLEAN /\ (dreq.valid /\ dreq.type = "read" => ~simD')
<1>1. ireq.valid \/ dreq.valid
  BY DEF WrapperInv, Control, Unissued
<1>2. dreq.valid /\ ~ireq.valid => dreq.type = "read"
  BY DEF WrapperInv, IssAgrees, TypeOK
<1>3. simPc' = IF ireq.valid
               THEN IF dreq.valid
                    THEN IF dreq.type = "write" THEN "fetch_write" ELSE "fetch_read"
                    ELSE "fetch"
               ELSE "data"
  BY <1>1 DEF Await, WrapperInv, TypeOK
<1>4. ireq.valid \in BOOLEAN /\ dreq.valid \in BOOLEAN /\ dreq.type \in {"read", "write"}
  BY DEF WrapperInv, TypeOK
<1>5. ~simD
  BY DEF WrapperInv, Control
<1>6. /\ waitFor' = (IF ireq.valid /\ iPeq = <<>> THEN {"i"} ELSE {})
                    \cup (IF dreq.valid /\ dreq.type = "read" THEN {"d"} ELSE {})
      /\ simD' = (dreq.valid /\ dreq.type = "write")
  BY <1>2, <1>4, <1>5 DEF Await
<1>. QED BY <1>1, <1>2, <1>3, <1>4, <1>5, <1>6 DEF Branches

(* Sending the transactions keeps the invariant. *)
LEMMA SentInv ==
  ASSUME WrapperInv, Sent
  PROVE  WrapperInv'
<1>. USE WrapperAssumption DEF Sent, WrapperInv, issVars
<1>0. Unissued /\ ~Unissued'
  BY AwaitFacts DEF Unissued, Branches
<1>1. /\ simPc' \in Branches /\ simPc' # "notified" /\ simPc' # "idle"
      /\ ireq' = ireq /\ dreq' = dreq /\ simI' = simI /\ iPeq' = iPeq /\ shadow' = shadow
  BY <1>0, AwaitFacts DEF Branches
<1>2. TypeOK'
  <2>1. flight' \subseteq Transaction
    BY NewTypes DEF NewFetch, NewData, TypeOK
  <2>2. busI' \in FetchAddrs \cup {NoAddr}
    BY NewTypes DEF TypeOK, NoteFetch
  <2>3. busR' \in BusAddrs \cup {NoAddr} /\ busW' \in BusAddrs \cup {NoAddr}
    BY DEF TypeOK, NoteData
  <2>4. waitFor' \subseteq {"i", "d"} /\ simD' \in BOOLEAN
    BY <1>0, AwaitFacts
  <2>5. dPeq' \in Seq(Transaction) /\ writing' \in BOOLEAN
    <3>1. dPeq' = <<>> \/ dPeq' = dPeq
      OBVIOUS
    <3>2. dPeq \in Seq(Transaction) /\ writing \in BOOLEAN
      BY DEF TypeOK
    <3>3. writing' = (writing /\ ~dreq.valid)
      OBVIOUS
    <3>. HIDE DEF Sent, WrapperInv
    <3>4. writing' \in BOOLEAN
      BY <3>3
    <3>5. <<>> \in Seq(Transaction)
      OBVIOUS
    <3>. QED BY <3>1, <3>2, <3>4, <3>5
  <2>. QED BY <1>1, <2>1, <2>2, <2>3, <2>4, <2>5 DEF TypeOK
<1>3. NoCrash' /\ LoadsSeeStores' /\ RightInstruction'
  BY DEF NoCrash, LoadsSeeStores, RightInstruction
<1>4. Fetches' = Fetches \cup NewFetch /\ Datas' = Datas \cup NewData
  BY NewTypes DEF Fetches, Datas, NewFetch, NewData
<1>5. FetchPlace'
  <2>1. CASE simPc = "notified" /\ ireq.valid
    <3>1. Fetches' = {FetchTransaction} /\ iPeq = <<>>
      BY <1>4, <2>1 DEF FetchPlace, FetchOut, NewFetch
    <3>. QED BY <1>1, <2>1, <3>1, NewTypes DEF FetchPlace, FetchOut, FetchIs
  <2>2. CASE ~(simPc = "notified" /\ ireq.valid)
    <3>1. FetchOut' = FetchOut /\ Fetches' = Fetches
      BY <1>1, <1>4, <2>2 DEF FetchOut, NewFetch
    <3>. QED BY <1>1, <3>1 DEF FetchPlace, FetchIs
  <2>. QED BY <2>1, <2>2
<1>6. DataPlace'
  <2>1. CASE dreq.valid
    <3>1. Datas' = {DataTransaction} /\ dPeq' = <<>> /\ DataOut'
      BY <1>0, <1>1, <1>4, <2>1 DEF NewData, DataOut
    <3>2. Current(DataTransaction)'
      BY <1>0, <1>1, <2>1, NewTypes DEF Current, DataTransaction
    <3>. QED BY <1>1, <2>1, <3>1, <3>2, NewTypes DEF DataPlace, DataIs, DataTransaction
  <2>2. CASE ~dreq.valid
    <3>1. Datas' = Datas /\ dPeq' = dPeq /\ DataOut' = DataOut /\ \A t : Current(t)' = Current(t)
      BY <1>1, <1>4, <2>2 DEF NewData, DataOut, Current, TypeOK
    <3>. QED BY <3>1 DEF DataPlace, DataIs
  <2>. QED BY <2>1, <2>2
<1>7. Control'
  <2>1. dreq.valid => ~writing'
    OBVIOUS
  <2>2. ~simI
    BY <1>0 DEF Control
  <2>3. dreq.valid => dPeq' = <<>>
    OBVIOUS
  <2>4. /\ ireq.valid = (simPc' # "data")
        /\ dreq.valid = (simPc' # "fetch")
        /\ dreq.valid => dreq.type = (IF simPc' = "fetch_write" THEN "write" ELSE "read")
        /\ waitFor' = (IF ireq.valid /\ iPeq = <<>> THEN {"i"} ELSE {})
                      \cup (IF dreq.valid /\ dreq.type = "read" THEN {"d"} ELSE {})
        /\ dreq.valid /\ dreq.type = "read" => ~simD'
    BY <1>0, AwaitFacts
  <2>5. (ireq.valid \/ dreq.valid)
    BY <1>0 DEF Control, Unissued
  <2>. HIDE DEF Sent, WrapperInv
  <2>. QED BY <1>0, <1>1, <2>1, <2>2, <2>3, <2>4, <2>5 DEF Control, Branches, Unissued
<1>8. IssAgrees'
  BY <1>1 DEF IssAgrees
<1>9. BusAgrees'
  <2>1. simPc = "notified" => Fetches = {} /\ busI = NoAddr
    BY FetchWhere DEF FetchPlace, FetchOut, BusAgrees, Fetches
  <2>2. dreq.valid => busR = NoAddr /\ busW = NoAddr
    BY DEF BusAgrees, Datas
  <2>3. /\ busI' \in BootAddrs \cup {NoAddr}
        /\ busI' # NoAddr => \E t \in flight' : t.op = "fetch" /\ t.addr = busI'
        /\ \A t \in flight' : t.op = "fetch" /\ t.addr \in BootAddrs => busI' = t.addr
    <3>1. CASE simPc = "notified" /\ ireq.valid
      BY <2>1, <3>1, NewTypes DEF NoteFetch, NewFetch, NewData, Fetches, BusAgrees
    <3>2. CASE ~(simPc = "notified" /\ ireq.valid)
      BY <3>2, NewTypes DEF NewFetch, NewData, BusAgrees
    <3>. QED BY <3>1, <3>2
  <2>4. /\ busR' # NoAddr => \E t \in flight' : t.op = "read" /\ t.addr = busR'
        /\ busW' # NoAddr => \E t \in flight' : t.op = "write" /\ t.addr = busW'
        /\ \A t \in flight' :
             /\ t.op = "read" /\ t.addr \in BusAddrs => busR' = t.addr
             /\ t.op = "write" /\ t.addr \in BusAddrs => busW' = t.addr
    <3>1. CASE dreq.valid
      BY <2>2, <3>1, NewTypes DEF NoteData, NewFetch, NewData, Datas
    <3>2. CASE ~dreq.valid
      BY <3>2, NewTypes DEF NewFetch, NewData, BusAgrees
    <3>. QED BY <3>1, <3>2
  <2>. QED BY <2>3, <2>4 DEF BusAgrees
<1>10. ShadowAgrees'
  <2>1. \A c : ~StorePending(c)'
    BY <1>0 DEF StorePending
  <2>2. \A t \in flight : t.op # "fetch" => ~dreq.valid
    BY DEF Datas
  <2>3. \A t \in flight' : t.op # "fetch" => t \in flight \/ (dreq.valid /\ t = DataTransaction)
    BY NewTypes DEF NewFetch, NewData
  <2>4. \A t \in flight' : t.op = "read" /\ t.done => t.val = shadow[Cell[t.addr]]
    BY <2>3, NewTypes DEF ShadowAgrees
  <2>5. \A i \in 1 .. Len(dPeq') : dPeq'[i].op = "read" => dPeq'[i].val = shadow[Cell[dPeq'[i].addr]]
    BY DEF ShadowAgrees
  <2>6. ASSUME NEW c \in Cells
        PROVE  /\ \A t \in flight' : t.op = "write" /\ ~t.done /\ Cell[t.addr] = c => shadow[c] = t.val
               /\ (\A t \in flight' : t.op = "write" /\ ~t.done => Cell[t.addr] # c)
                    => shadow[c] = mem[c]
    <3>1. CASE dreq.valid
      <4>1. StorePending(c) <=> dreq.type = "write" /\ c = Cell[dreq.addr]
        BY <1>0, <3>1 DEF StorePending
      <4>2. DataTransaction \in flight'
        BY <3>1 DEF NewData
      <4>3. \A t \in flight : t.op # "write"
        BY <2>2, <3>1
      <4>. QED BY <2>3, <3>1, <4>1, <4>2, <4>3, NewTypes DEF ShadowAgrees
    <3>2. CASE ~dreq.valid
      BY <2>3, <3>2 DEF ShadowAgrees, StorePending
    <3>. QED BY <3>1, <3>2
  <2>. QED BY <1>1, <2>1, <2>4, <2>5, <2>6 DEF ShadowAgrees
<1>. QED BY <1>2, <1>3, <1>5, <1>6, <1>7, <1>8, <1>9, <1>10

(* Issue pops the response of the store before, if any, and sends. *)
LEMMA IssueInv ==
  ASSUME WrapperInv, Issue
  PROVE  WrapperInv'
<1>1. Unissued /\ TypeOK /\ DataPlace /\ ~crashed
  BY DEF Issue, Unissued, WrapperInv, NoCrash
<1>2. MustReap => \E t : dPeq = <<t>> /\ t.op = "write" /\ Datas = {} /\ Tail(dPeq) = <<>> /\ Head(dPeq) = t
  BY <1>1, DataWhere, Lone DEF Issue, Current
<1>3. dreq.valid => Datas = {} /\ dPeq' = <<>>
  <2>1. CASE MustReap
    BY <1>2, <2>1 DEF Issue
  <2>2. CASE ~MustReap /\ dreq.valid
    BY <1>1, <2>2 DEF Issue, MustReap, DataPlace, DataOut
  <2>. QED BY <2>1, <2>2
<1>4. crashed' = FALSE
  BY <1>2 DEF Issue
<1>5. (writing /\ ~MustReap) = (writing /\ ~dreq.valid)
  BY DEF MustReap
<1>6. ~dreq.valid => dPeq' = dPeq
  BY DEF Issue, MustReap
<1>7. Sent
  BY <1>1, <1>3, <1>4, <1>5, <1>6 DEF Issue, Sent, NewFetch, NewData
<1>. QED BY <1>7, SentInv

(* IssueData pops the response that woke run_sim, and sends. *)
LEMMA IssueDataInv ==
  ASSUME WrapperInv, IssueData
  PROVE  WrapperInv'
<1>1. Unissued /\ TypeOK /\ DataPlace /\ dreq.valid /\ dPeq # <<>>
  BY DEF IssueData, Unissued, WrapperInv, Control
<1>2. \E t : dPeq = <<t>> /\ t.op = "write" /\ Datas = {} /\ Tail(dPeq) = <<>> /\ Head(dPeq) = t
  BY <1>1, DataWhere, Lone DEF Current
<1>3. crashed' = FALSE /\ dPeq' = <<>>
  BY <1>1, <1>2 DEF IssueData
<1>4. Sent
  BY <1>1, <1>2, <1>3 DEF IssueData, Sent, NewFetch, NewData
<1>. QED BY <1>4, SentInv

(* Sending the fetch alone keeps the invariant: the store before is still out. *)
LEMMA IssueFetchInv ==
  ASSUME WrapperInv, IssueFetch
  PROVE  WrapperInv'
<1>. USE WrapperAssumption DEF IssueFetch, WrapperInv, issVars
<1>0. /\ Unissued /\ Unissued' /\ simPc = "notified" /\ simPc' = "await_write"
      /\ dreq.valid /\ writing /\ dPeq = <<>> /\ ireq' = ireq
  BY DEF Unissued, MustReap
<1>1. flight' = flight \cup NewFetch
  BY DEF NewFetch
<1>2. Fetches' = Fetches \cup NewFetch /\ Datas' = Datas /\ Fetches = {} /\ iPeq = <<>>
  BY <1>0, <1>1, NewTypes DEF Fetches, Datas, NewFetch, FetchPlace, FetchOut
<1>3. TypeOK'
  <2>1. flight' \subseteq Transaction
    BY <1>1, NewTypes DEF NewFetch, TypeOK
  <2>2. busI' \in FetchAddrs \cup {NoAddr}
    BY NewTypes DEF TypeOK, NoteFetch
  <2>. QED BY <1>0, <2>1, <2>2 DEF TypeOK
<1>4. NoCrash' /\ LoadsSeeStores' /\ RightInstruction'
  BY DEF NoCrash, LoadsSeeStores, RightInstruction
<1>5. FetchPlace'
  BY <1>0, <1>2, NewTypes DEF FetchPlace, FetchOut, FetchIs, NewFetch
<1>6. DataPlace'
  BY <1>0, <1>2 DEF DataPlace, DataOut, DataIs, Current
<1>7. Control' /\ IssAgrees'
  BY <1>0 DEF Control, IssAgrees, Unissued, Branches
<1>8. BusAgrees'
  <2>1. busI = NoAddr
    BY <1>2 DEF BusAgrees, Fetches
  <2>2. /\ busI' \in BootAddrs \cup {NoAddr}
        /\ busI' # NoAddr => \E t \in flight' : t.op = "fetch" /\ t.addr = busI'
        /\ \A t \in flight' : t.op = "fetch" /\ t.addr \in BootAddrs => busI' = t.addr
    BY <1>0, <1>1, <1>2, <2>1, NewTypes DEF NoteFetch, NewFetch, Fetches
  <2>3. \A t \in NewFetch : t.op = "fetch"
    BY NewTypes DEF NewFetch
  <2>. QED BY <1>1, <2>2, <2>3 DEF BusAgrees
<1>9. ShadowAgrees'
  <2>1. \A t \in NewFetch : t.op = "fetch"
    BY NewTypes DEF NewFetch
  <2>2. \A c : StorePending(c)' = StorePending(c)
    BY <1>0 DEF StorePending
  <2>. QED BY <1>1, <2>1, <2>2 DEF ShadowAgrees
<1>. QED BY <1>3, <1>4, <1>5, <1>6, <1>7, <1>8, <1>9

(* Every step keeps the invariant. *)
LEMMA NextInv ==
  ASSUME NoDoubleStores, WrapperInv, [Next]_vars
  PROVE  WrapperInv'
<1>1. CASE RunIss
  BY <1>1, RefetchInv, RequestInv, DeliverInv DEF RunIss
<1>2. CASE RunSim
  BY <1>2, IssueInv, IssueFetchInv, IssueDataInv, AnsweredInv DEF RunSim
<1>3. CASE \E t \in flight : Serve(t)
  BY <1>3, PerformInv, RespondSpmInv, RespondBusInv DEF Serve
<1>4. CASE UNCHANGED vars
  BY <1>4 DEF vars, WrapperInv, TypeOK, NoCrash, LoadsSeeStores, RightInstruction,
     FetchPlace, DataPlace, Control, IssAgrees, BusAgrees, ShadowAgrees, FetchOut, DataOut,
     FetchIs, DataIs, Fetches, Datas, Current, Unissued, StorePending
<1>. QED BY <1>1, <1>2, <1>3, <1>4 DEF Next

(* The invariant holds in every reachable state. *)
LEMMA Invariance ==
  ASSUME NoDoubleStores
  PROVE  Spec => []WrapperInv
<1>1. Init => WrapperInv
  BY InitInv
<1>2. WrapperInv /\ [Next]_vars => WrapperInv'
  BY NextInv
<1>. QED BY <1>1, <1>2, PTL DEF Spec

(* The invariant gives the discipline of the ports. *)
LEMMA OneOut == WrapperInv => OneTransactionPerPort
<1>. SUFFICES ASSUME WrapperInv PROVE OneTransactionPerPort
  OBVIOUS
<1>1. Cardinality({}) = 0 /\ \A t : Cardinality({t}) = 1
  BY FS_EmptySet, FS_Singleton
<1>2. \A t : Len(<<t>>) = 1
  OBVIOUS
<1>3. Cardinality(Fetches) + Len(iPeq) <= 1
  <2>1. \/ Fetches = {} /\ (iPeq = <<>> \/ \E t : iPeq = <<t>>)
        \/ \E t : Fetches = {t} /\ iPeq = <<>>
    BY DEF WrapperInv, FetchPlace, FetchIs
  <2>2. ASSUME NEW t, Fetches = {t}, iPeq = <<>> PROVE Cardinality(Fetches) + Len(iPeq) = 1
    <3>1. Cardinality(Fetches) = 1
      BY <1>1, <2>2, Zenon
    <3>. QED BY <2>2, <3>1
  <2>3. ASSUME NEW t, Fetches = {}, iPeq = <<t>> PROVE Cardinality(Fetches) + Len(iPeq) = 1
    BY <1>1, <1>2, <2>3
  <2>4. ASSUME Fetches = {}, iPeq = <<>> PROVE Cardinality(Fetches) + Len(iPeq) = 0
    BY <1>1, <2>4
  <2>. QED BY <2>1, <2>2, <2>3, <2>4
<1>4. Cardinality(Datas) + Len(dPeq) <= 1
  <2>1. \/ Datas = {} /\ (dPeq = <<>> \/ \E t : dPeq = <<t>>)
        \/ \E t : Datas = {t} /\ dPeq = <<>>
    BY DEF WrapperInv, DataPlace, DataIs
  <2>2. ASSUME NEW t, Datas = {t}, dPeq = <<>> PROVE Cardinality(Datas) + Len(dPeq) = 1
    <3>1. Cardinality(Datas) = 1
      BY <1>1, <2>2, Zenon
    <3>. QED BY <2>2, <3>1
  <2>3. ASSUME NEW t, Datas = {}, dPeq = <<t>> PROVE Cardinality(Datas) + Len(dPeq) = 1
    BY <1>1, <1>2, <2>3
  <2>4. ASSUME Datas = {}, dPeq = <<>> PROVE Cardinality(Datas) + Len(dPeq) = 0
    BY <1>1, <2>4
  <2>. QED BY <2>1, <2>2, <2>3, <2>4
<1>5. simPc = "notified" => Fetches = {} /\ iPeq = <<>>
  BY DEF WrapperInv, FetchPlace, FetchOut
<1>6. simPc = "notified" /\ ~writing => Datas = {} /\ dPeq = <<>>
  BY DEF WrapperInv, DataPlace, DataOut, Unissued
<1>7. simPc = "write_answered" => Datas = {}
  BY DataWhere DEF WrapperInv, Control
<1>. QED BY <1>3, <1>4, <1>5, <1>6, <1>7 DEF OneTransactionPerPort

-----------------------------------------------------------------------------
(***************************************************************************)
(* The theorems.                                                           *)
(***************************************************************************)
(* Every variable of run_iss and run_sim keeps its type. *)
THEOREM TypeCorrect == ASSUME NoDoubleStores PROVE Spec => []TypeOK
<1>1. WrapperInv => TypeOK
  BY DEF WrapperInv
<1>. QED BY <1>1, Invariance, PTL

(* process_resp never meets an empty queue or the response of a load where *)
(* it reaps a store, and nb_transport_bw_b knows every address.            *)
THEOREM NeverCrashes == ASSUME NoDoubleStores PROVE Spec => []NoCrash
<1>1. WrapperInv => NoCrash
  BY DEF WrapperInv
<1>. QED BY <1>1, Invariance, PTL

(* A load gets what the last store of the program to its word wrote,       *)
(* although stores are not waited for.                                     *)
THEOREM StoresSeen == ASSUME NoDoubleStores PROVE Spec => []LoadsSeeStores
<1>1. WrapperInv => LoadsSeeStores
  BY DEF WrapperInv
<1>. QED BY <1>1, Invariance, PTL

(* The ISS is given the word of the address it is at, from the memory or   *)
(* from the buffer.                                                        *)
THEOREM InstructionRight == ASSUME NoDoubleStores PROVE Spec => []RightInstruction
<1>1. WrapperInv => RightInstruction
  BY DEF WrapperInv
<1>. QED BY <1>1, Invariance, PTL

(* The ports of the memory are used one transaction at a time. *)
THEOREM OnePerPort == ASSUME NoDoubleStores PROVE Spec => []OneTransactionPerPort
<1>. QED BY OneOut, Invariance, PTL

(***************************************************************************)
(* The part of RequestsAnswered that is a matter of safety.  When run_iss  *)
(* notifies, run_sim is in the wait that hears it; and what run_sim waits  *)
(* for is still in the memory system: no event has been missed.            *)
(***************************************************************************)
Heard   == Quiet => simPc = "idle"
ToCome  == /\ "i" \in waitFor => Fetches # {}
           /\ "d" \in waitFor \/ simPc = "await_write" => Datas # {}

(* run_sim misses no notification. *)
THEOREM NothingMissed == ASSUME NoDoubleStores PROVE Spec => [](Heard /\ ToCome)
<1>1. WrapperInv => Heard
  BY DEF WrapperInv, Control, Quiet, Heard
<1>2. WrapperInv => ToCome
  <2>. SUFFICES ASSUME WrapperInv PROVE ToCome
    OBVIOUS
  <2>1. waitFor # {} => simPc \in Branches
    BY DEF WrapperInv, Control, TypeOK, Unissued
  <2>2. "i" \in waitFor => FetchOut /\ iPeq = <<>>
    BY <2>1 DEF WrapperInv, Control, FetchOut, Branches
  <2>3. "d" \in waitFor \/ simPc = "await_write" => DataOut /\ dPeq = <<>>
    BY <2>1 DEF WrapperInv, Control, DataOut, Branches, Unissued
  <2>4. FetchOut /\ iPeq = <<>> => Fetches # {}
    BY FetchWhere DEF WrapperInv, Fetches
  <2>5. DataOut /\ dPeq = <<>> => Datas # {}
    BY DataWhere DEF WrapperInv, Datas
  <2>. QED BY <2>2, <2>3, <2>4, <2>5 DEF ToCome
<1>. QED BY <1>1, <1>2, Invariance, PTL
=============================================================================
