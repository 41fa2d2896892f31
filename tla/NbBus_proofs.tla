---------------------------- MODULE NbBus_proofs ----------------------------
(***************************************************************************)
(* Proofs about the bus, for any targets with disjoint intervals, any      *)
(* requests and any data file.  The inductive invariant is BusInv.         *)
(***************************************************************************)
EXTENDS NbBus, SequenceTheorems, FiniteSetTheorems, TLAPS

InQueue(s, t)   == \E k \in 1 .. Len(peq[t]) : peq[t][k] = s
InService(s, t) == pc[t] = "access" /\ serving[t] = s

(* The payload in slot s is the one the bus sent to target t. *)
SentTo(s, t) ==
  /\ ~Idle(s)
  /\ issued[s] \in Requests[s]
  /\ In(t, issued[s].addr) /\ pl[s].addr + Base[t] = issued[s].addr

QueuedRight ==
  \A t \in Queued, s \in BusSlots : InQueue(s, t) =>
    SentTo(s, t) /\ pl[s].data = issued[s].data /\ ~InService(s, t)

QueuedOnce ==
  \A t \in Queued : \A j, k \in 1 .. Len(peq[t]) : peq[t][j] = peq[t][k] => j = k

ServedRight ==
  \A t \in Queued, s \in BusSlots : InService(s, t) =>
    SentTo(s, t) /\ (t \in Memories \/ (t \in Uarts /\ issued[s].cmd = "WRITE"))

SpmRight ==
  \A s \in SpmPorts : spmPhase[s] # "idle" =>
    /\ ~Idle(s) /\ In(Spm, issued[s].addr) /\ issued[s] \in Requests[s]
    /\ pl[s].addr = issued[s].addr
    /\ spmReq[s] = issued[s] /\ spmAnswer[s] = pl[s].data

Somewhere ==
  \A s \in Slots : ~Idle(s) =>
    \/ s \in SpmPorts /\ spmPhase[s] # "idle"
    \/ s \in BusSlots /\ \E t \in Queued : InQueue(s, t) \/ InService(s, t)

RivalsWait ==
  \A s \in Slots : \A q \in Rivals(s) : q # s => Idle(s) \/ Idle(q)

ThreadsAwake ==
  \A t \in Queued : /\ pc[t] = "woken" => peq[t] # << >>
                    /\ pc[t] = "asleep" => Len(peq[t]) <= 1

(* A word on its way to an output or the UART. *)
OnItsWay(t) == t \in Outputs \cup Uarts /\ InQueue("io", t) /\ issued["io"].cmd = "WRITE"

WordsInOrder ==
  /\ \A t \in Queued : OnItsWay(t) => asked = Append(written, <<t, issued["io"].data>>)
  /\ (\A t \in Queued : ~OnItsWay(t)) => asked = written

FileInOrder ==
  \A t \in Inputs :
    /\ fileRead[t] = IF Len(got[t]) <= Len(File) THEN Len(got[t]) ELSE Len(File)
    /\ \A k \in 1 .. Len(got[t]) : got[t][k] = IF k <= Len(File) THEN File[k] ELSE EOF

BusInv ==
  /\ TypeOK /\ AddressRestored
  /\ QueuedRight /\ QueuedOnce /\ ServedRight /\ SpmRight /\ Somewhere /\ RivalsWait
  /\ ThreadsAwake /\ WordsInOrder /\ FileInOrder
-----------------------------------------------------------------------------
(* The sets of targets and slots, and the types of intervals. *)
LEMMA Sets ==
  /\ Spm \in Targets /\ Queued \subseteq Targets /\ Spm \notin Queued
  /\ BusSlots \subseteq Slots /\ SpmPorts \subseteq Slots /\ MemSlots \subseteq Slots
  /\ \A t \in Targets : Base[t] \in Nat /\ Size[t] \in Nat /\ Size[t] > 0
BY NbBusAssumption DEF Targets, BusSlots, Slots, SpmPorts, MemSlots

(* An address is in one interval at most. *)
LEMMA OneTarget ==
  ASSUME NEW t \in Targets, NEW u \in Targets, NEW a \in Int, In(t, a), In(u, a)
  PROVE  t = u
BY NbBusAssumption, Sets DEF In, Last

(* The search finds the interval that holds an address, and no other one:  *)
(* intervals that begin further down end further down.                     *)
LEMMA Found ==
  ASSUME NEW t \in Targets, NEW a \in Int, previous \in Targets
  PROVE  /\ In(t, a) => Lookup(a) = {t} /\ resolve(a) = {t}
         /\ t \in resolve(a) => In(t, a)
<1>1. ASSUME NEW u \in Targets, In(u, a) PROVE Lookup(a) = {u}
  <2>1. ASSUME NEW v \in Targets, v # u, Base[v] <= a PROVE Base[v] < Base[u]
    BY <1>1, <2>1, NbBusAssumption, Sets DEF In, Last
  <2>2. LowerBound(a) = {u}
    BY <1>1, <2>1, Sets DEF LowerBound, In
  <2>. QED BY <1>1, <2>2 DEF Lookup, In
<1>2. ASSUME In(t, a) PROVE resolve(a) = {t}
  BY <1>1, <1>2, OneTarget DEF resolve
<1>3. ASSUME t \in resolve(a) PROVE In(t, a)
  BY <1>3 DEF resolve, Lookup, LowerBound, In
<1>. QED BY <1>1, <1>2, <1>3

(* A target of the resolution is one of the targets. *)
LEMMA ResolvesToTarget ==
  ASSUME NEW a \in Int, previous \in Targets
  PROVE  resolve(a) \subseteq Targets
BY DEF resolve, Lookup, LowerBound

(* What the end of an access does to the payloads. *)
LEMMA AnsweredFacts ==
  ASSUME NEW p \in [Slots -> Payload], NEW s \in Slots, NEW t \in Targets
  PROVE  /\ Answered(p, s, t) \in [Slots -> Payload]
         /\ Answered(p, s, t)[s].rsp = "OK" /\ Answered(p, s, t)[s].addr = p[s].addr + Base[t]
         /\ Answered(p, s, t)[s].data = p[s].data
         /\ \A q \in Slots : q # s => Answered(p, s, t)[q] = p[q]
<1>1. Answered(p, s, t) = [p EXCEPT ![s] = [p[s] EXCEPT !.rsp = "OK", !.addr = p[s].addr + Base[t]]]
  BY DEF Answered
<1>2. [p[s] EXCEPT !.rsp = "OK", !.addr = p[s].addr + Base[t]] \in Payload
  <2>1. ASSUME NEW v \in Payload, NEW a \in Nat
        PROVE  [v EXCEPT !.rsp = "OK", !.addr = a] \in Payload
    BY DEF Payload
  <2>2. p[s] \in Payload /\ p[s].addr + Base[t] \in Nat
    BY Sets DEF Payload
  <2>. QED BY <2>1, <2>2
<1>. QED BY <1>1, <1>2 DEF Payload

(* What the data of a read do to them. *)
LEMMA DataFacts ==
  ASSUME NEW p \in [Slots -> Payload], NEW s \in Slots, NEW w \in Word
  PROVE  /\ [p EXCEPT ![s].data = w] \in [Slots -> Payload]
         /\ [p EXCEPT ![s].data = w][s].data = w
         /\ [p EXCEPT ![s].data = w][s].rsp = p[s].rsp
         /\ [p EXCEPT ![s].data = w][s].addr = p[s].addr
         /\ \A q \in Slots : q # s => [p EXCEPT ![s].data = w][q] = p[q]
<1>1. [p EXCEPT ![s].data = w] = [p EXCEPT ![s] = [p[s] EXCEPT !.data = w]]
  OBVIOUS
<1>2. [p[s] EXCEPT !.data = w] \in Payload
  BY DEF Payload
<1>. QED BY <1>1, <1>2 DEF Payload

(* A payload is at one target, and in one way. *)
LEMMA OneWay ==
  ASSUME BusInv, NEW s \in BusSlots, NEW t \in Queued, InQueue(s, t) \/ InService(s, t)
  PROVE  /\ ~(InQueue(s, t) /\ InService(s, t))
         /\ \A u \in Queued : u # t => ~InQueue(s, u) /\ ~InService(s, u)
         /\ s \in SpmPorts => spmPhase[s] = "idle"
         /\ SentTo(s, t)
<1>1. SentTo(s, t)
  BY DEF BusInv, QueuedRight, ServedRight
<1>2. issued[s].addr \in Int
  BY Sets DEF BusInv, TypeOK, Request
<1>3. \A u \in Queued : InQueue(s, u) \/ InService(s, u) => In(u, issued[s].addr)
  BY DEF BusInv, QueuedRight, ServedRight, SentTo
<1>4. s \in SpmPorts /\ spmPhase[s] # "idle" => In(Spm, issued[s].addr)
  BY DEF BusInv, SpmRight
<1>. QED BY <1>1, <1>2, <1>3, <1>4, OneTarget, Sets DEF BusInv, QueuedRight, SentTo

(* At most two payloads are at a target: a fetch, and one of a data access *)
(* and an access to a peripheral.                                          *)
LEMMA QueueShort ==
  ASSUME BusInv, NEW t \in Queued
  PROVE  Len(peq[t]) <= 2 /\ (pc[t] = "access" => Len(peq[t]) <= 1)
<1>1. peq[t] \in Seq(BusSlots) /\ Len(peq[t]) \in Nat
  BY DEF BusInv, TypeOK
<1>2. \A k \in 1 .. Len(peq[t]) : peq[t][k] \in BusSlots /\ InQueue(peq[t][k], t)
  BY <1>1 DEF InQueue
<1>3. ~(~Idle("data") /\ ~Idle("io"))
  BY DEF BusInv, RivalsWait, Rivals, Slots
<1>4. \A k \in 1 .. Len(peq[t]) : ~Idle(peq[t][k])
  BY <1>2 DEF BusInv, QueuedRight, SentTo
<1>5. Len(peq[t]) <= 2
  <2>. SUFFICES ASSUME Len(peq[t]) >= 3 PROVE FALSE
    BY <1>1
  <2>1. peq[t][1] # peq[t][2] /\ peq[t][1] # peq[t][3] /\ peq[t][2] # peq[t][3]
    BY <1>1 DEF BusInv, QueuedOnce
  <2>2. \A k \in {1, 2, 3} : peq[t][k] \in BusSlots /\ ~Idle(peq[t][k])
    BY <1>1, <1>2, <1>4
  <2>. QED BY <1>3, <2>1, <2>2 DEF BusSlots
<1>6. ASSUME pc[t] = "access" PROVE Len(peq[t]) <= 1
  <2>. SUFFICES ASSUME Len(peq[t]) >= 2 PROVE FALSE
    BY <1>1
  <2>1. serving[t] \in BusSlots /\ InService(serving[t], t) /\ ~Idle(serving[t])
    BY <1>6 DEF BusInv, TypeOK, InService, ServedRight, SentTo
  <2>2. peq[t][1] # peq[t][2]
    BY <1>1 DEF BusInv, QueuedOnce
  <2>3. \A k \in {1, 2} : peq[t][k] \in BusSlots /\ ~Idle(peq[t][k]) /\ peq[t][k] # serving[t]
    BY <1>1, <1>2, <1>4, <2>1, OneWay
  <2>. QED BY <1>3, <2>1, <2>2, <2>3 DEF BusSlots
<1>. QED BY <1>5, <1>6

(* A woken thread has a payload. *)
LEMMA TakeFacts ==
  ASSUME BusInv, NEW t \in Queued, pc[t] = "woken"
  PROVE  /\ Head(peq[t]) \in BusSlots /\ InQueue(Head(peq[t]), t)
         /\ Tail(peq[t]) \in Seq(BusSlots) /\ Len(Tail(peq[t])) <= 1
         /\ \A q \in BusSlots : (\E k \in 1 .. Len(Tail(peq[t])) : Tail(peq[t])[k] = q)
                                 <=> InQueue(q, t) /\ q # Head(peq[t])
<1>1. peq[t] \in Seq(BusSlots) /\ peq[t] # << >> /\ Len(peq[t]) \in Nat
  BY DEF BusInv, TypeOK, ThreadsAwake
<1>2. /\ Head(peq[t]) \in BusSlots /\ Tail(peq[t]) \in Seq(BusSlots)
      /\ Len(Tail(peq[t])) = Len(peq[t]) - 1
      /\ \A i \in 1 .. Len(Tail(peq[t])) : Tail(peq[t])[i] = peq[t][i + 1]
  BY <1>1, HeadTailProperties
<1>3. Head(peq[t]) = peq[t][1] /\ Len(peq[t]) >= 1
  BY <1>1
<1>4. Len(peq[t]) \in {1, 2}
  <2>1. Len(peq[t]) <= 2
    BY QueueShort
  <2>2. \A n \in Nat : n <= 2 /\ n >= 1 => n \in {1, 2}
    OBVIOUS
  <2>3. Len(peq[t]) \in Nat /\ Len(peq[t]) >= 1
    BY <1>1, <1>3
  <2>. QED BY <2>1, <2>2, <2>3
<1>5. Len(peq[t]) = 2 => peq[t][1] # peq[t][2]
  BY DEF BusInv, QueuedOnce
<1>6. InQueue(Head(peq[t]), t)
  BY <1>3, <1>4 DEF InQueue
<1>7. ASSUME NEW q \in BusSlots
      PROVE  (\E k \in 1 .. Len(Tail(peq[t])) : Tail(peq[t])[k] = q)
               <=> InQueue(q, t) /\ q # Head(peq[t])
  <2>1. CASE Len(peq[t]) = 1
    BY <1>2, <1>3, <2>1 DEF InQueue
  <2>2. CASE Len(peq[t]) = 2
    BY <1>2, <1>3, <1>5, <2>2 DEF InQueue
  <2>. QED BY <1>4, <2>1, <2>2
<1>8. Len(Tail(peq[t])) <= 1
  <2>1. \A m, n : m = n - 1 /\ n \in {1, 2} => m <= 1
    OBVIOUS
  <2>2. Len(Tail(peq[t])) = Len(peq[t]) - 1
    BY <1>2
  <2>. QED BY <1>4, <2>1, <2>2
<1>. QED BY <1>2, <1>6, <1>7, <1>8

(* Requests are well typed, and the bus sends them to the class of targets *)
(* of their slot.                                                          *)
LEMMA RequestFacts ==
  ASSUME NEW s \in Slots, NEW r \in Requests[s]
  PROVE  /\ r \in Request /\ r.addr \in Nat /\ r.data \in Word /\ r.cmd \in {"READ", "WRITE"}
         /\ \A t \in Queued : In(t, r.addr) =>
              IF s = "io" THEN t \notin Memories ELSE s \in {"fetch", "data"} /\ t \in Memories
         /\ In(Spm, r.addr) => s \in SpmPorts
         /\ s \in {"i", "d"} => In(Spm, r.addr)
<1>1. r \in Request
  BY NbBusAssumption
<1>2. r.addr \in Nat /\ r.data \in Word /\ r.cmd \in {"READ", "WRITE"}
  BY <1>1 DEF Request
<1>3. s \in {"i", "d"} => In(Spm, r.addr)
  BY NbBusAssumption
<1>4. In(Spm, r.addr) => s \in SpmPorts
  BY NbBusAssumption DEF Slots, SpmPorts
<1>5. ASSUME NEW t \in Queued, In(t, r.addr)
      PROVE IF s = "io" THEN t \notin Memories ELSE s \in {"fetch", "data"} /\ t \in Memories
  <2>1. s \notin {"i", "d"}
    BY <1>2, <1>3, <1>5, OneTarget, Sets
  <2>. QED BY <1>5, <2>1, NbBusAssumption DEF Slots
<1>. QED BY <1>1, <1>2, <1>3, <1>4, <1>5

(* A slot that may be used is nowhere. *)
LEMMA FreeNowhere ==
  ASSUME BusInv, NEW s \in Slots, Idle(s)
  PROVE  /\ s \in SpmPorts => spmPhase[s] = "idle"
         /\ s \in BusSlots => \A t \in Queued : ~InQueue(s, t) /\ ~InService(s, t)
BY DEF BusInv, SpmRight, QueuedRight, ServedRight, SentTo

(* The invariant holds when the simulation starts. *)
LEMMA InitInv == Init => BusInv
<1>. SUFFICES ASSUME Init PROVE BusInv
  OBVIOUS
<1>. USE NbBusAssumption DEF Init, SpmMemory!Init
<1>1. TypeOK
  <2>1. [cmd |-> "READ", addr |-> 0, be |-> {}, data |-> ZeroWord] \in Request
    BY DEF Request
  <2>2. [addr |-> 0, data |-> ZeroWord, rsp |-> "NONE"] \in Payload
    BY DEF Payload
  <2>3. fileRead \in [Inputs -> 0 .. Len(File)]
    BY EmptySeq, LenProperties
  <2>4. peq \in [Queued -> Seq(BusSlots)] /\ got \in [Inputs -> Seq(Word)]
    OBVIOUS
  <2>5. written \in Seq(Loggers \X Word) /\ asked \in Seq(Loggers \X Word)
    OBVIOUS
  <2>. QED BY <2>1, <2>2, <2>3, <2>4, <2>5 DEF TypeOK, BusSlots
<1>2. AddressRestored
  BY DEF AddressRestored
<1>3. \A s \in Slots : Idle(s)
  BY DEF Idle
<1>4. \A t \in Queued : peq[t] = << >> /\ pc[t] = "asleep" /\ Len(peq[t]) = 0
  OBVIOUS
<1>5. QueuedRight /\ QueuedOnce /\ ServedRight /\ ThreadsAwake
  BY <1>4 DEF QueuedRight, QueuedOnce, ServedRight, ThreadsAwake, InQueue, InService
<1>6. SpmRight /\ Somewhere /\ RivalsWait
  BY <1>3 DEF SpmRight, Somewhere, RivalsWait, Rivals, Slots
<1>7. WordsInOrder
  BY <1>4 DEF WordsInOrder, OnItsWay, InQueue
<1>8. FileInOrder
  BY EmptySeq, LenProperties DEF FileInOrder
<1>. QED BY <1>1, <1>2, <1>5, <1>6, <1>7, <1>8 DEF BusInv

(* A request that is forwarded is queued behind the others of its target.  *)
LEMMA ForwardInv ==
  ASSUME BusInv, NEW s \in Slots, NEW r \in Requests[s], NEW t \in Queued, Forward(s, r, t)
  PROVE  BusInv'
<1>. DEFINE new == [addr |-> r.addr - Base[t], data |-> r.data, rsp |-> "INCOMPLETE"]
<1>0. TypeOK /\ s \in BusSlots /\ t \in Targets /\ previous \in Targets
  BY Sets DEF Forward, BusInv, TypeOK
<1>1. /\ r \in Request /\ r.addr \in Nat /\ r.data \in Word /\ r.cmd \in {"READ", "WRITE"}
      /\ In(t, r.addr) /\ r.addr - Base[t] \in Nat
      /\ IF s = "io" THEN t \notin Memories ELSE t \in Memories
  <2>1. In(t, r.addr)
    BY <1>0, RequestFacts, Found DEF Forward
  <2>. QED BY <1>0, <2>1, RequestFacts, Sets DEF In
<1>2. Idle(s) /\ \A q \in Rivals(s) : Idle(q)
  BY <1>0 DEF Forward, Free, Rivals, BusSlots
<1>3. /\ issued' \in [Slots -> Request] /\ issued'[s] = r
      /\ \A q \in Slots : q # s => issued'[q] = issued[q]
  BY <1>0, <1>1 DEF Forward, Build, TypeOK
<1>4. /\ pl' \in [Slots -> Payload] /\ pl'[s] = new
      /\ \A q \in Slots : q # s => pl'[q] = pl[q]
  <2>1. new \in Payload
    BY <1>1 DEF Payload
  <2>. QED BY <1>0, <2>1 DEF Forward, TypeOK
<1>5. /\ peq' \in [Queued -> Seq(BusSlots)] /\ peq'[t] = Append(peq[t], s)
      /\ \A u \in Queued : u # t => peq'[u] = peq[u]
      /\ Len(peq'[t]) = Len(peq[t]) + 1 /\ peq'[t][Len(peq[t]) + 1] = s /\ peq'[t] # << >>
      /\ \A k \in 1 .. Len(peq[t]) : peq'[t][k] = peq[t][k]
      /\ Len(peq[t]) \in Nat
  <2>1. peq[t] \in Seq(BusSlots) /\ peq \in [Queued -> Seq(BusSlots)]
    BY <1>0 DEF TypeOK
  <2>2. peq' = [peq EXCEPT ![t] = Append(peq[t], s)]
    BY DEF Forward
  <2>3. /\ Append(peq[t], s) \in Seq(BusSlots) /\ Append(peq[t], s) # << >>
        /\ Len(Append(peq[t], s)) = Len(peq[t]) + 1
        /\ \A i \in 1.. Len(peq[t]) : Append(peq[t], s)[i] = peq[t][i]
        /\ Append(peq[t], s)[Len(peq[t]) + 1] = s
    BY <1>0, <2>1, AppendProperties
  <2>4. Len(peq[t]) \in Nat
    BY <2>1
  <2>. QED BY <2>1, <2>2, <2>3, <2>4
<1>6. /\ pc' \in [Queued -> {"asleep", "woken", "access"}]
      /\ \A u \in Queued : (pc'[u] = "access") = (pc[u] = "access")
      /\ \A u \in Queued : u # t => pc'[u] = pc[u]
      /\ pc'[t] # "asleep"
      /\ serving' = serving
  BY <1>0 DEF Forward, Notify, TypeOK
<1>7. /\ written' \in Seq(Loggers \X Word) /\ asked' \in Seq(Loggers \X Word)
  <2>1. t \in Loggers => <<t, r.data>> \in Loggers \X Word
    BY <1>1
  <2>2. Helpers \subseteq Loggers
    BY DEF Loggers
  <2>3. written \in Seq(Loggers \X Word) /\ asked \in Seq(Loggers \X Word)
    BY <1>0 DEF TypeOK
  <2>4. t \in Loggers => /\ Append(written, <<t, r.data>>) \in Seq(Loggers \X Word)
                         /\ Append(asked, <<t, r.data>>) \in Seq(Loggers \X Word)
    BY <2>1, <2>3, AppendProperties
  <2>. QED BY <2>2, <2>3, <2>4 DEF Forward
<1>8. /\ UNCHANGED <<storage, fileRead, aborted, got, spmVars>> /\ previous' = t
  BY DEF Forward
<1>9. /\ \A q \in Slots : q # s => Idle(q)' = Idle(q)
      /\ ~Idle(s)'
      /\ \A u \in Queued, q \in BusSlots : InService(q, u)' = InService(q, u)
  BY <1>4, <1>6 DEF Idle, InService
<1>10. \A u \in Queued, q \in BusSlots : InQueue(q, u)' <=> InQueue(q, u) \/ (q = s /\ u = t)
  <2>1. \A q \in BusSlots : InQueue(q, t)' <=> InQueue(q, t) \/ q = s
    BY <1>5 DEF InQueue
  <2>2. \A u \in Queued, q \in BusSlots : u # t => (InQueue(q, u)' <=> InQueue(q, u))
    BY <1>5 DEF InQueue
  <2>. QED BY <2>1, <2>2
<1>11. \A u \in Queued : ~InQueue(s, u) /\ ~InService(s, u)
  BY <1>0, <1>2, FreeNowhere
<1>12. \A u \in Queued, q \in BusSlots : q # s => SentTo(q, u)' = SentTo(q, u)
  BY <1>3, <1>4, <1>9, Sets DEF SentTo
<1>13. SentTo(s, t)'
  <2>1. pl'[s].addr + Base[t] = r.addr
    BY <1>1, <1>4, Sets, <1>0
  <2>. QED BY <1>1, <1>3, <1>9, <2>1 DEF SentTo
<1>14. TypeOK'
  BY <1>0, <1>3, <1>4, <1>5, <1>6, <1>7, <1>8 DEF TypeOK, spmVars
<1>15. AddressRestored'
  BY <1>3, <1>4 DEF AddressRestored, BusInv
<1>16. QueuedRight'
  BY <1>0, <1>3, <1>4, <1>9, <1>10, <1>11, <1>12, <1>13, Sets DEF QueuedRight, BusInv
<1>17. QueuedOnce'
  <2>1. \A k \in 1 .. Len(peq[t]) : peq[t][k] # s
    BY <1>11 DEF InQueue
  <2>2. ASSUME NEW j \in 1 .. Len(peq'[t]), NEW k \in 1 .. Len(peq'[t]), peq'[t][j] = peq'[t][k]
        PROVE  j = k
    <3>1. \A i \in 1 .. Len(peq'[t]) : i \in 1 .. Len(peq[t]) \/ i = Len(peq[t]) + 1
      BY <1>5
    <3>2. \A i, l \in 1 .. Len(peq[t]) : peq[t][i] = peq[t][l] => i = l
      BY DEF BusInv, QueuedOnce
    <3>. QED BY <1>5, <2>1, <2>2, <3>1, <3>2
  <2>. QED BY <1>5, <2>2 DEF BusInv, QueuedOnce
<1>18. ServedRight'
  BY <1>3, <1>9, <1>11, <1>12, Sets DEF BusInv, ServedRight
<1>19. SpmRight'
  <2>1. s \in SpmPorts => spmPhase[s] = "idle"
    BY <1>2, FreeNowhere
  <2>. QED BY <1>3, <1>4, <1>8, <1>9, <2>1, Sets DEF BusInv, SpmRight, spmVars
<1>20. Somewhere'
  BY <1>0, <1>8, <1>9, <1>10 DEF BusInv, Somewhere, spmVars
<1>21. RivalsWait'
  BY <1>2, <1>9 DEF BusInv, RivalsWait, Rivals, Slots
<1>22. ThreadsAwake'
  BY <1>5, <1>6 DEF BusInv, ThreadsAwake
<1>23. WordsInOrder'
  <2>1. CASE s = "io"
    <3>1. asked = written
      BY <1>11, <2>1 DEF BusInv, WordsInOrder, OnItsWay
    <3>2. \A u \in Queued : OnItsWay(u)' <=> u = t /\ t \in Outputs \cup Uarts /\ r.cmd = "WRITE"
      BY <1>0, <1>3, <1>10, <1>11, <2>1 DEF OnItsWay
    <3>3. t \in Outputs \cup Uarts => t \in Loggers /\ t \notin Helpers
      BY NbBusAssumption DEF Loggers
    <3>4. /\ written' = IF t \in Helpers /\ r.cmd = "WRITE" THEN Append(written, <<t, r.data>>) ELSE written
          /\ asked' = IF t \in Loggers /\ r.cmd = "WRITE" THEN Append(asked, <<t, r.data>>) ELSE asked
      BY DEF Forward
    <3>5. issued'["io"].data = r.data
      BY <1>3, <2>1
    <3>6. t \in Loggers <=> t \in Outputs \cup Uarts \/ t \in Helpers
      BY DEF Loggers
    <3>. QED BY <3>1, <3>2, <3>3, <3>4, <3>5, <3>6 DEF WordsInOrder
  <2>2. CASE s # "io"
    <3>1. t \notin Loggers /\ t \notin Helpers
      BY <1>1, <2>2, NbBusAssumption DEF Loggers
    <3>2. asked' = asked /\ written' = written
      BY <3>1 DEF Forward
    <3>3. \A u \in Queued : OnItsWay(u)' <=> OnItsWay(u)
      BY <1>3, <1>10, <2>2 DEF OnItsWay, Slots, BusSlots
    <3>4. issued'["io"] = issued["io"]
      BY <1>3, <2>2 DEF Slots
    <3>. QED BY <3>2, <3>3, <3>4 DEF BusInv, WordsInOrder
  <2>. QED BY <2>1, <2>2
<1>24. FileInOrder'
  BY <1>8 DEF BusInv, FileInOrder
<1>. QED BY <1>14, <1>15, <1>16, <1>17, <1>18, <1>19, <1>20, <1>21, <1>22, <1>23, <1>24 DEF BusInv

(* A request to the scratch pad memory, by the bus or a direct socket.     *)
AsksSpm(s, r) ==
  /\ s \in SpmPorts /\ Free(s) /\ In(Spm, r.addr) /\ previous' \in Targets
  /\ Build(s, r)
  /\ pl' = [pl EXCEPT ![s] = [addr |-> r.addr, data |-> r.data, rsp |-> "INCOMPLETE"]]
  /\ SpmMemory!Ask(s, r)
  /\ UNCHANGED <<peq, pc, serving, storage, devVars, aborted, hisVars>>

(* Both ways come to this, since the memory begins at address zero. *)
LEMMA AskSpmCases ==
  ASSUME BusInv, NEW s \in Slots, NEW r \in Requests[s], ForwardToSpm(s, r) \/ Direct(s, r)
  PROVE  AsksSpm(s, r)
<1>1. r \in Request /\ r.addr \in Nat /\ Base[Spm] = 0 /\ previous \in Targets
  BY RequestFacts, NbBusAssumption DEF BusInv, TypeOK
<1>2. CASE ForwardToSpm(s, r)
  <2>1. In(Spm, r.addr)
    BY <1>1, <1>2, Found, Sets DEF ForwardToSpm
  <2>2. [r EXCEPT !.addr = r.addr - Base[Spm]] = r /\ r.addr - Base[Spm] = r.addr
    BY <1>1 DEF Request
  <2>3. s \in SpmPorts
    BY <2>1, RequestFacts
  <2>. QED BY <1>2, <2>1, <2>2, <2>3, Sets DEF ForwardToSpm, AsksSpm
<1>3. CASE Direct(s, r)
  <2>1. s \in {"i", "d"}
    BY <1>3 DEF Direct, SpmPorts, BusSlots
  <2>2. In(Spm, r.addr)
    BY <2>1, RequestFacts
  <2>. QED BY <1>1, <1>3, <2>2 DEF Direct, AsksSpm
<1>. QED BY <1>2, <1>3

(* A request to the scratch pad memory is in that memory, and nowhere else. *)
LEMMA AskSpmInv ==
  ASSUME BusInv, NEW s \in Slots, NEW r \in Requests[s], AsksSpm(s, r)
  PROVE  BusInv'
<1>. DEFINE new == [addr |-> r.addr, data |-> r.data, rsp |-> "INCOMPLETE"]
<1>0. TypeOK /\ s \in SpmPorts
  BY DEF AsksSpm, BusInv
<1>1. /\ r \in Request /\ r.addr \in Nat /\ r.data \in Word /\ In(Spm, r.addr)
  BY RequestFacts DEF AsksSpm
<1>2. Idle(s) /\ \A q \in Rivals(s) : Idle(q)
  BY DEF AsksSpm, Free, Rivals, Slots
<1>3. /\ issued' \in [Slots -> Request] /\ issued'[s] = r
      /\ \A q \in Slots : q # s => issued'[q] = issued[q]
  BY <1>0, <1>1 DEF AsksSpm, Build, TypeOK
<1>4. /\ pl' \in [Slots -> Payload] /\ pl'[s] = new
      /\ \A q \in Slots : q # s => pl'[q] = pl[q]
  <2>1. new \in Payload
    BY <1>1 DEF Payload
  <2>. QED BY <1>0, <2>1 DEF AsksSpm, TypeOK
<1>5. /\ spmPhase' = [spmPhase EXCEPT ![s] = "asked"] /\ spmReq' = [spmReq EXCEPT ![s] = r]
      /\ spmAnswer' = [spmAnswer EXCEPT ![s] = r.data] /\ spmMem' = spmMem
  BY DEF AsksSpm, SpmMemory!Ask
<1>6. /\ spmPhase' \in [SpmPorts -> {"idle", "asked", "performed"}]
      /\ spmReq' \in [SpmPorts -> Request] /\ spmAnswer' \in [SpmPorts -> Word]
      /\ spmPhase'[s] = "asked" /\ spmReq'[s] = r /\ spmAnswer'[s] = r.data
      /\ \A q \in SpmPorts : q # s => /\ spmPhase'[q] = spmPhase[q] /\ spmReq'[q] = spmReq[q]
                                      /\ spmAnswer'[q] = spmAnswer[q]
  BY <1>0, <1>1, <1>5 DEF TypeOK
<1>7. /\ UNCHANGED <<peq, pc, serving, storage, fileRead, written, aborted, asked, got>>
      /\ previous' \in Targets
  BY DEF AsksSpm, devVars, hisVars
<1>8. (\A q \in Slots : q # s => Idle(q)' = Idle(q)) /\ ~Idle(s)'
  BY <1>4 DEF Idle
<1>9. \A u \in Queued, q \in BusSlots : /\ InQueue(q, u)' = InQueue(q, u)
                                        /\ InService(q, u)' = InService(q, u)
  BY <1>7 DEF InQueue, InService
<1>10. s \in BusSlots => \A u \in Queued : ~InQueue(s, u) /\ ~InService(s, u)
  BY <1>2, FreeNowhere
<1>11. \A u \in Queued, q \in BusSlots : q # s => SentTo(q, u)' = SentTo(q, u)
  BY <1>3, <1>4, <1>8, Sets DEF SentTo
<1>12. TypeOK'
  BY <1>0, <1>3, <1>4, <1>5, <1>6, <1>7 DEF TypeOK
<1>13. AddressRestored'
  BY <1>3, <1>4 DEF AddressRestored, BusInv
<1>14. QueuedRight' /\ QueuedOnce' /\ ServedRight'
  BY <1>3, <1>4, <1>7, <1>9, <1>10, <1>11, Sets DEF BusInv, QueuedRight, QueuedOnce, ServedRight
<1>15. SpmRight'
  BY <1>0, <1>1, <1>3, <1>4, <1>6, <1>8, Sets DEF BusInv, SpmRight
<1>16. Somewhere'
  BY <1>0, <1>6, <1>8, <1>9 DEF BusInv, Somewhere
<1>17. RivalsWait'
  BY <1>2, <1>8 DEF BusInv, RivalsWait, Rivals, Slots
<1>18. ThreadsAwake' /\ FileInOrder'
  BY <1>7 DEF BusInv, ThreadsAwake, FileInOrder
<1>19. WordsInOrder'
  <2>1. issued'["io"] = issued["io"]
    BY <1>0, <1>3 DEF Slots, SpmPorts
  <2>2. \A u \in Queued : OnItsWay(u)' = OnItsWay(u)
    BY <1>9, <2>1 DEF OnItsWay, BusSlots
  <2>. QED BY <1>7, <2>1, <2>2 DEF BusInv, WordsInOrder
<1>. QED BY <1>12, <1>13, <1>14, <1>15, <1>16, <1>17, <1>18, <1>19 DEF BusInv

(* A request that no target takes leaves the slot answered with an error.  *)
LEMMA UnresolvedInv ==
  ASSUME BusInv, NEW s \in Slots, NEW r \in Requests[s], Unresolved(s, r)
  PROVE  BusInv'
<1>. DEFINE new == [addr |-> r.addr, data |-> r.data, rsp |-> "ADDRESS_ERROR"]
<1>0. TypeOK /\ s \in BusSlots
  BY DEF Unresolved, BusInv
<1>1. /\ r \in Request /\ r.addr \in Nat /\ r.data \in Word
  BY RequestFacts
<1>2. Idle(s)
  BY <1>0 DEF Unresolved, Free, Rivals, BusSlots
<1>3. /\ issued' \in [Slots -> Request] /\ issued'[s] = r
      /\ \A q \in Slots : q # s => issued'[q] = issued[q]
  BY <1>0, <1>1 DEF Unresolved, Build, TypeOK
<1>4. /\ pl' \in [Slots -> Payload] /\ pl'[s] = new
      /\ \A q \in Slots : q # s => pl'[q] = pl[q]
  <2>1. new \in Payload
    BY <1>1 DEF Payload
  <2>. QED BY <1>0, <2>1 DEF Unresolved, TypeOK
<1>5. /\ UNCHANGED <<previous, peq, pc, serving, storage, fileRead, written, asked, got,
                     spmMem, spmPhase, spmReq, spmAnswer>>
      /\ aborted' = TRUE
  BY DEF Unresolved, devVars, hisVars, spmVars
<1>6. \A q \in Slots : Idle(q)' = Idle(q)
  BY <1>2, <1>4 DEF Idle
<1>7. \A u \in Queued, q \in BusSlots : /\ InQueue(q, u)' = InQueue(q, u)
                                        /\ InService(q, u)' = InService(q, u)
  BY <1>5 DEF InQueue, InService
<1>8. /\ s \in SpmPorts => spmPhase[s] = "idle"
      /\ \A u \in Queued : ~InQueue(s, u) /\ ~InService(s, u)
  BY <1>0, <1>2, FreeNowhere
<1>9. \A u \in Queued, q \in BusSlots : q # s => SentTo(q, u)' = SentTo(q, u)
  BY <1>3, <1>4, <1>6, Sets DEF SentTo
<1>10. TypeOK'
  BY <1>0, <1>3, <1>4, <1>5 DEF TypeOK
<1>11. AddressRestored'
  BY <1>3, <1>4 DEF AddressRestored, BusInv
<1>12. QueuedRight' /\ QueuedOnce' /\ ServedRight'
  BY <1>3, <1>4, <1>5, <1>7, <1>8, <1>9, Sets DEF BusInv, QueuedRight, QueuedOnce, ServedRight
<1>13. SpmRight'
  BY <1>3, <1>4, <1>5, <1>6, <1>8, Sets DEF BusInv, SpmRight
<1>14. Somewhere' /\ RivalsWait'
  BY <1>5, <1>6, <1>7 DEF BusInv, Somewhere, RivalsWait, Rivals, Slots
<1>15. ThreadsAwake' /\ FileInOrder'
  BY <1>5 DEF BusInv, ThreadsAwake, FileInOrder
<1>16. WordsInOrder'
  <2>1. \A u \in Queued : OnItsWay(u)' = OnItsWay(u)
    BY <1>3, <1>7, <1>8 DEF OnItsWay, BusSlots, Slots
  <2>2. CASE s = "io"
    <3>1. \A u \in Queued : ~OnItsWay(u)
      BY <1>8, <2>2 DEF OnItsWay
    <3>. QED BY <1>5, <2>1, <3>1 DEF BusInv, WordsInOrder
  <2>3. CASE s # "io"
    BY <1>3, <1>5, <2>1, <2>3 DEF BusInv, WordsInOrder, Slots
  <2>. QED BY <2>2, <2>3
<1>. QED BY <1>10, <1>11, <1>12, <1>13, <1>14, <1>15, <1>16 DEF BusInv

(* What a thread that takes a payload does to the queues. *)
LEMMA TakeEffect ==
  ASSUME BusInv, NEW t \in Queued, Take(t)
  PROVE  LET s == Head(peq[t])
         IN /\ s \in BusSlots /\ InQueue(s, t) /\ SentTo(s, t) /\ pl[s].data = issued[s].data
            /\ peq' \in [Queued -> Seq(BusSlots)] /\ serving' \in [Queued -> BusSlots]
            /\ serving'[t] = s /\ Len(peq'[t]) <= 1
            /\ \A u \in Queued : u # t => peq'[u] = peq[u] /\ serving'[u] = serving[u]
            /\ \A u \in Queued, q \in BusSlots : InQueue(q, u)' <=> InQueue(q, u) /\ q # s
            /\ QueuedOnce'
            /\ UNCHANGED <<previous, issued, spmMem, spmPhase, spmReq, spmAnswer, aborted, asked>>
<1>. DEFINE s == Head(peq[t])
<1>0. pc[t] = "woken" /\ TypeOK
  BY DEF Take, BusInv
<1>1. /\ s \in BusSlots /\ InQueue(s, t)
      /\ Tail(peq[t]) \in Seq(BusSlots) /\ Len(Tail(peq[t])) <= 1
      /\ \A q \in BusSlots : (\E k \in 1 .. Len(Tail(peq[t])) : Tail(peq[t])[k] = q)
                              <=> InQueue(q, t) /\ q # s
  BY <1>0, TakeFacts
<1>2. SentTo(s, t) /\ pl[s].data = issued[s].data
  BY <1>1 DEF BusInv, QueuedRight
<1>. HIDE DEF s
<1>3. /\ peq' \in [Queued -> Seq(BusSlots)] /\ serving' \in [Queued -> BusSlots]
      /\ serving'[t] = s /\ peq'[t] = Tail(peq[t])
      /\ \A u \in Queued : u # t => peq'[u] = peq[u] /\ serving'[u] = serving[u]
  <2>1. peq' = [peq EXCEPT ![t] = Tail(peq[t])] /\ serving' = [serving EXCEPT ![t] = s]
    BY DEF Take, s
  <2>. QED BY <1>0, <1>1, <2>1 DEF TypeOK
<1>4. \A u \in Queued, q \in BusSlots : InQueue(q, u)' <=> InQueue(q, u) /\ q # s
  <2>1. \A q \in BusSlots : InQueue(q, t)' <=> InQueue(q, t) /\ q # s
    BY <1>1, <1>3 DEF InQueue
  <2>2. \A u \in Queued, q \in BusSlots : u # t => (InQueue(q, u)' <=> InQueue(q, u))
    BY <1>3 DEF InQueue
  <2>3. \A u \in Queued : u # t => ~InQueue(s, u)
    BY <1>1, OneWay
  <2>. QED BY <2>1, <2>2, <2>3
<1>5. QueuedOnce'
  <2>1. Len(Tail(peq[t])) \in Nat
    BY <1>1
  <2>2. \A j, k \in 1 .. Len(Tail(peq[t])) : j = k
    BY <1>1, <2>1
  <2>. QED BY <1>3, <2>2 DEF BusInv, QueuedOnce
<1>6. UNCHANGED <<previous, issued, spmMem, spmPhase, spmReq, spmAnswer, aborted, asked>>
  BY DEF Take, spmVars
<1>. QED BY <1>1, <1>2, <1>3, <1>4, <1>5, <1>6 DEF s

(* A thread that takes a payload into an access of its own: the parts of   *)
(* the invariant that do not depend on what the access does.               *)
LEMMA EntersService ==
  ASSUME BusInv, NEW t \in Queued, Take(t), pc' = [pc EXCEPT ![t] = "access"],
         pl' \in [Slots -> Payload],
         \A q \in Slots : pl'[q].addr = pl[q].addr /\ pl'[q].rsp = pl[q].rsp,
         \A q \in Slots : q # Head(peq[t]) => pl'[q] = pl[q],
         t \in Memories \/ (t \in Uarts /\ issued[Head(peq[t])].cmd = "WRITE")
  PROVE  /\ pc' \in [Queued -> {"asleep", "woken", "access"}]
         /\ AddressRestored' /\ QueuedRight' /\ ServedRight' /\ SpmRight' /\ Somewhere'
         /\ RivalsWait' /\ ThreadsAwake'
<1>. DEFINE s == Head(peq[t])
<1>1. /\ s \in BusSlots /\ InQueue(s, t) /\ SentTo(s, t)
      /\ serving'[t] = s /\ Len(peq'[t]) <= 1
      /\ \A u \in Queued : u # t => peq'[u] = peq[u] /\ serving'[u] = serving[u]
      /\ \A u \in Queued, q \in BusSlots : InQueue(q, u)' <=> InQueue(q, u) /\ q # s
      /\ UNCHANGED <<issued, spmPhase, spmReq, spmAnswer>>
  BY TakeEffect
<1>2. pc \in [Queued -> {"asleep", "woken", "access"}] /\ pc[t] = "woken"
  BY DEF BusInv, TypeOK, Take
<1>. HIDE DEF s
<1>3. /\ pc' \in [Queued -> {"asleep", "woken", "access"}] /\ pc'[t] = "access"
      /\ \A u \in Queued : u # t => pc'[u] = pc[u]
  BY <1>2
<1>4. \A u \in Queued, q \in BusSlots : InService(q, u)' <=> InService(q, u) \/ (q = s /\ u = t)
  BY <1>1, <1>2, <1>3 DEF InService
<1>5. \A q \in Slots : Idle(q)' = Idle(q)
  BY DEF Idle
<1>6. \A u \in Queued, q \in BusSlots : SentTo(q, u)' = SentTo(q, u)
  BY <1>1, <1>5, Sets DEF SentTo
<1>7. /\ \A u \in Queued : u # t => ~InQueue(s, u)
      /\ \A u \in Queued : ~InService(s, u)
      /\ s \in SpmPorts => spmPhase[s] = "idle"
  BY <1>1, OneWay
<1>8. AddressRestored'
  BY <1>1, <1>5 DEF BusInv, AddressRestored
<1>9. QueuedRight'
  <2>1. \A q \in BusSlots : q # s => pl'[q] = pl[q]
    BY Sets DEF s
  <2>. QED BY <1>1, <1>4, <1>6, <2>1 DEF BusInv, QueuedRight
<1>10. ServedRight'
  <2>1. t \in Memories \/ (t \in Uarts /\ issued'[s].cmd = "WRITE")
    BY <1>1 DEF s
  <2>. QED BY <1>1, <1>4, <1>6, <2>1 DEF BusInv, ServedRight
<1>11. SpmRight'
  <2>1. \A q \in SpmPorts : q # s => pl'[q] = pl[q]
    BY Sets DEF s
  <2>. QED BY <1>1, <1>5, <1>7, <2>1, Sets DEF BusInv, SpmRight
<1>12. Somewhere'
  BY <1>1, <1>4, <1>5 DEF BusInv, Somewhere
<1>13. RivalsWait'
  BY <1>5 DEF BusInv, RivalsWait, Rivals, Slots
<1>14. ThreadsAwake'
  BY <1>1, <1>3 DEF BusInv, ThreadsAwake
<1>. QED BY <1>3, <1>8, <1>9, <1>10, <1>11, <1>12, <1>13, <1>14

(* Overlaying words gives a word. *)
LEMMA OverlayType ==
  ASSUME NEW v \in Word, NEW w \in Word, NEW be
  PROVE  Overlay(v, w, be) \in Word
BY DEF Overlay, Word

(* The word of storage a payload at a memory is about. *)
LEMMA StoredAt ==
  ASSUME TypeOK, NEW s \in BusSlots, NEW t \in Memories, SentTo(s, t)
  PROVE  pl[s].addr + Base[t] = issued[s].addr /\ issued[s].addr \in Words
<1>1. t \in Targets /\ issued[s].addr \in Nat
  BY Sets DEF Queued, TypeOK, Request
<1>2. issued[s].addr \in Base[t] .. Last(t)
  BY <1>1, Sets DEF SentTo, In, Last
<1>. QED BY <1>2 DEF SentTo, Words

(* A memory takes a payload and moves the enabled lanes. *)
LEMMA ServeInv ==
  ASSUME BusInv, NEW t \in Queued, Serve(t)
  PROVE  BusInv'
<1>. DEFINE s == Head(peq[t])
            a == pl[s].addr + Base[t]
<1>0. TypeOK /\ t \in Memories /\ Take(t) /\ pc' = [pc EXCEPT ![t] = "access"]
      /\ UNCHANGED <<fileRead, written, got>>
  BY DEF Serve, BusInv, devVars
<1>1. /\ s \in BusSlots /\ SentTo(s, t) /\ InQueue(s, t)
      /\ peq' \in [Queued -> Seq(BusSlots)] /\ serving' \in [Queued -> BusSlots]
      /\ \A u \in Queued, q \in BusSlots : InQueue(q, u)' <=> InQueue(q, u) /\ q # s
      /\ QueuedOnce'
      /\ UNCHANGED <<previous, issued, spmMem, spmPhase, spmReq, spmAnswer, aborted, asked>>
  BY <1>0, TakeEffect
<1>2. /\ a = issued[s].addr /\ a \in Words /\ pl[s].data \in Word /\ s \in Slots
  BY <1>0, <1>1, StoredAt, Sets DEF TypeOK, Payload
<1>3. \/ pl' = [pl EXCEPT ![s].data = Overlay(pl[s].data, storage[a], issued[s].be)] /\ storage' = storage
      \/ pl' = pl /\ storage' = [storage EXCEPT ![a] = Overlay(storage[a], pl[s].data, issued[s].be)]
  BY DEF Serve
<1>. HIDE DEF s, a
<1>4. /\ storage' \in [Words -> Word] /\ pl' \in [Slots -> Payload]
      /\ \A q \in Slots : pl'[q].addr = pl[q].addr /\ pl'[q].rsp = pl[q].rsp
      /\ \A q \in Slots : q # s => pl'[q] = pl[q]
  <2>1. storage[a] \in Word /\ pl \in [Slots -> Payload]
    BY <1>0, <1>2 DEF TypeOK
  <2>2. /\ Overlay(pl[s].data, storage[a], issued[s].be) \in Word
        /\ Overlay(storage[a], pl[s].data, issued[s].be) \in Word
    BY <1>2, <2>1, OverlayType
  <2>3. CASE pl' = [pl EXCEPT ![s].data = Overlay(pl[s].data, storage[a], issued[s].be)] /\ storage' = storage
    <3>. DEFINE w == Overlay(pl[s].data, storage[a], issued[s].be)
    <3>1. w \in Word /\ pl' = [pl EXCEPT ![s].data = w] /\ storage' = storage
      BY <2>2, <2>3
    <3>. HIDE DEF w
    <3>2. /\ pl' \in [Slots -> Payload] /\ pl'[s].rsp = pl[s].rsp /\ pl'[s].addr = pl[s].addr
          /\ \A q \in Slots : q # s => pl'[q] = pl[q]
      BY <1>2, <2>1, <3>1, DataFacts
    <3>. QED BY <1>0, <3>1, <3>2 DEF TypeOK
  <2>4. CASE pl' = pl /\ storage' = [storage EXCEPT ![a] = Overlay(storage[a], pl[s].data, issued[s].be)]
    BY <1>0, <2>2, <2>4 DEF TypeOK
  <2>. QED BY <1>3, <2>3, <2>4
<1>5. /\ pc' \in [Queued -> {"asleep", "woken", "access"}]
      /\ AddressRestored' /\ QueuedRight' /\ ServedRight' /\ SpmRight' /\ Somewhere'
      /\ RivalsWait' /\ ThreadsAwake'
  BY <1>0, <1>4, EntersService DEF s
<1>6. TypeOK'
  BY <1>0, <1>1, <1>4, <1>5 DEF TypeOK
<1>7. WordsInOrder'
  <2>1. s # "io"
    BY <1>0, <1>1, RequestFacts, Sets DEF SentTo
  <2>2. \A u \in Queued : OnItsWay(u)' = OnItsWay(u)
    BY <1>1, <2>1 DEF OnItsWay, BusSlots
  <2>. QED BY <1>0, <1>1, <2>2 DEF BusInv, WordsInOrder
<1>8. FileInOrder'
  BY <1>0 DEF BusInv, FileInOrder
<1>. QED BY <1>1, <1>5, <1>6, <1>7, <1>8 DEF BusInv

(* The UART takes a word: it is no longer on its way. *)
LEMMA PutCharInv ==
  ASSUME BusInv, NEW t \in Queued, PutChar(t)
  PROVE  BusInv'
<1>. DEFINE s == Head(peq[t])
<1>0. TypeOK /\ t \in Uarts /\ Take(t) /\ pc' = [pc EXCEPT ![t] = "access"]
      /\ UNCHANGED <<pl, storage, fileRead, got>> /\ issued[s].cmd = "WRITE"
      /\ written' = Append(written, <<t, pl[s].data>>)
  BY DEF PutChar, BusInv
<1>1. /\ s \in BusSlots /\ SentTo(s, t) /\ InQueue(s, t) /\ pl[s].data = issued[s].data
      /\ peq' \in [Queued -> Seq(BusSlots)] /\ serving' \in [Queued -> BusSlots]
      /\ \A u \in Queued, q \in BusSlots : InQueue(q, u)' <=> InQueue(q, u) /\ q # s
      /\ QueuedOnce'
      /\ UNCHANGED <<previous, issued, spmMem, spmPhase, spmReq, spmAnswer, aborted, asked>>
  BY <1>0, TakeEffect
<1>5. /\ pc' \in [Queued -> {"asleep", "woken", "access"}]
      /\ AddressRestored' /\ QueuedRight' /\ ServedRight' /\ SpmRight' /\ Somewhere'
      /\ RivalsWait' /\ ThreadsAwake'
  BY <1>0, EntersService DEF TypeOK
<1>. HIDE DEF s
<1>2. s = "io"
  <2>1. t \notin Memories
    BY <1>0, NbBusAssumption DEF Loggers
  <2>. QED BY <1>1, <2>1, RequestFacts, Sets DEF SentTo
<1>6. TypeOK'
  <2>1. <<t, pl[s].data>> \in Loggers \X Word
    BY <1>0, <1>1, Sets DEF TypeOK, Payload, Loggers
  <2>2. written \in Seq(Loggers \X Word)
    BY <1>0 DEF TypeOK
  <2>3. written' \in Seq(Loggers \X Word)
    BY <1>0, <2>1, <2>2, AppendProperties
  <2>. QED BY <1>0, <1>1, <1>5, <2>3 DEF TypeOK
<1>7. WordsInOrder'
  <2>1. OnItsWay(t)
    BY <1>0, <1>1, <1>2 DEF OnItsWay
  <2>2. asked = written'
    BY <1>0, <1>1, <1>2, <2>1 DEF BusInv, WordsInOrder
  <2>3. \A u \in Queued : ~OnItsWay(u)'
    BY <1>1, <1>2 DEF OnItsWay, BusSlots
  <2>. QED BY <1>1, <2>2, <2>3 DEF WordsInOrder
<1>8. FileInOrder'
  BY <1>0 DEF BusInv, FileInOrder
<1>. QED BY <1>1, <1>5, <1>6, <1>7, <1>8 DEF BusInv

(* A slot that is answered at target t: the parts of the invariant about   *)
(* places, whether the payload was in service or just taken.               *)
LEMMA LeavesTarget ==
  ASSUME BusInv, NEW t \in Queued, NEW s \in BusSlots, SentTo(s, t),
         InQueue(s, t) \/ InService(s, t),
         pl' \in [Slots -> Payload], pl'[s].rsp = "OK", pl'[s].addr = pl[s].addr + Base[t],
         \A q \in Slots : q # s => pl'[q] = pl[q],
         \A u \in Queued, q \in BusSlots : InQueue(q, u)' <=> InQueue(q, u) /\ q # s,
         \A u \in Queued, q \in BusSlots : InService(q, u)' <=> InService(q, u) /\ q # s,
         UNCHANGED <<issued, spmPhase, spmReq, spmAnswer>>
  PROVE  AddressRestored' /\ QueuedRight' /\ ServedRight' /\ SpmRight' /\ Somewhere' /\ RivalsWait'
<1>1. (\A q \in Slots : q # s => Idle(q)' = Idle(q)) /\ Idle(s)' /\ s \in Slots
  BY Sets DEF Idle
<1>2. \A u \in Queued, q \in BusSlots : q # s => SentTo(q, u)' = SentTo(q, u)
  BY <1>1, Sets DEF SentTo
<1>3. s \in SpmPorts => spmPhase[s] = "idle"
  BY OneWay
<1>4. AddressRestored'
  BY <1>1 DEF BusInv, AddressRestored, SentTo
<1>5. QueuedRight' /\ ServedRight'
  BY <1>2, Sets DEF BusInv, QueuedRight, ServedRight
<1>6. SpmRight'
  BY <1>1, <1>3, Sets DEF BusInv, SpmRight
<1>7. Somewhere'
  BY <1>1 DEF BusInv, Somewhere
<1>8. RivalsWait'
  BY <1>1 DEF BusInv, RivalsWait, Rivals, Slots
<1>. QED BY <1>4, <1>5, <1>6, <1>7, <1>8

(* The end of an access in service: the address is the one of the bus.   *)
LEMMA RespondInv ==
  ASSUME BusInv, NEW t \in Queued, Respond(t)
  PROVE  BusInv'
<1>. DEFINE s == serving[t]
<1>0. /\ TypeOK /\ s \in BusSlots /\ s \in Slots /\ t \in Targets /\ InService(s, t) /\ SentTo(s, t)
      /\ Len(peq[t]) <= 1
  BY QueueShort, Sets DEF Respond, BusInv, TypeOK, InService, ServedRight
<1>1. /\ pl' = Answered(pl, s, t) /\ pc' = [pc EXCEPT ![t] = "asleep"] /\ pc[t] = "access"
      /\ UNCHANGED <<previous, issued, peq, serving, storage, fileRead, written, spmMem, spmPhase,
                     spmReq, spmAnswer, aborted, asked, got>>
  BY DEF Respond, devVars, hisVars, spmVars
<1>. HIDE DEF s
<1>2. /\ pl' \in [Slots -> Payload] /\ pl'[s].rsp = "OK" /\ pl'[s].addr = pl[s].addr + Base[t]
      /\ \A q \in Slots : q # s => pl'[q] = pl[q]
  <2>1. pl \in [Slots -> Payload]
    BY <1>0 DEF TypeOK
  <2>. QED BY <1>0, <1>1, <2>1, AnsweredFacts
<1>3. /\ pc' \in [Queued -> {"asleep", "woken", "access"}] /\ pc'[t] = "asleep"
      /\ \A u \in Queued : u # t => pc'[u] = pc[u]
  BY <1>0, <1>1 DEF TypeOK
<1>4. \A u \in Queued, q \in BusSlots : InQueue(q, u)' <=> InQueue(q, u) /\ q # s
  <2>1. \A u \in Queued : ~InQueue(s, u)
    BY <1>0, OneWay
  <2>. QED BY <1>1, <2>1 DEF InQueue
<1>5. \A u \in Queued, q \in BusSlots : InService(q, u)' <=> InService(q, u) /\ q # s
  <2>1. \A u \in Queued : u # t => ~InService(s, u)
    BY <1>0, OneWay
  <2>. QED BY <1>0, <1>1, <1>3, <2>1 DEF InService
<1>6. AddressRestored' /\ QueuedRight' /\ ServedRight' /\ SpmRight' /\ Somewhere' /\ RivalsWait'
  BY <1>0, <1>1, <1>2, <1>4, <1>5, LeavesTarget
<1>7. TypeOK'
  BY <1>0, <1>1, <1>2, <1>3 DEF TypeOK
<1>8. QueuedOnce' /\ FileInOrder'
  BY <1>1 DEF BusInv, QueuedOnce, FileInOrder
<1>9. ThreadsAwake'
  BY <1>0, <1>1, <1>3 DEF BusInv, ThreadsAwake
<1>10. WordsInOrder'
  <2>1. \A u \in Queued : OnItsWay(u)' = OnItsWay(u)
    BY <1>1 DEF OnItsWay, InQueue
  <2>. QED BY <1>1, <2>1 DEF BusInv, WordsInOrder
<1>. QED BY <1>6, <1>7, <1>8, <1>9, <1>10 DEF BusInv

(* An access that ends as soon as it is taken, by an input or a logger.    *)
LEMMA TakenAndAnswered ==
  ASSUME BusInv, NEW t \in Queued, Take(t), t \notin Memories, pc' = [pc EXCEPT ![t] = "asleep"],
         NEW p \in [Slots -> Payload], pl' = Answered(p, Head(peq[t]), t),
         p[Head(peq[t])].addr = pl[Head(peq[t])].addr,
         \A q \in Slots : q # Head(peq[t]) => p[q] = pl[q]
  PROVE  /\ Head(peq[t]) = "io" /\ InQueue("io", t) /\ pl["io"].data = issued["io"].data
         /\ peq' \in [Queued -> Seq(BusSlots)] /\ serving' \in [Queued -> BusSlots]
         /\ pc' \in [Queued -> {"asleep", "woken", "access"}] /\ pl' \in [Slots -> Payload]
         /\ \A u \in Queued : ~InQueue("io", u)'
         /\ AddressRestored' /\ QueuedRight' /\ QueuedOnce' /\ ServedRight' /\ SpmRight'
         /\ Somewhere' /\ RivalsWait' /\ ThreadsAwake'
         /\ UNCHANGED <<previous, issued, spmMem, spmPhase, spmReq, spmAnswer, aborted, asked>>
<1>. DEFINE s == Head(peq[t])
<1>1. /\ s \in BusSlots /\ InQueue(s, t) /\ SentTo(s, t) /\ pl[s].data = issued[s].data
      /\ peq' \in [Queued -> Seq(BusSlots)] /\ serving' \in [Queued -> BusSlots]
      /\ serving'[t] = s /\ Len(peq'[t]) <= 1
      /\ \A u \in Queued : u # t => peq'[u] = peq[u] /\ serving'[u] = serving[u]
      /\ \A u \in Queued, q \in BusSlots : InQueue(q, u)' <=> InQueue(q, u) /\ q # s
      /\ QueuedOnce'
      /\ UNCHANGED <<previous, issued, spmMem, spmPhase, spmReq, spmAnswer, aborted, asked>>
  BY TakeEffect
<1>2. /\ pl' = Answered(p, s, t) /\ p[s].addr = pl[s].addr
      /\ \A q \in Slots : q # s => p[q] = pl[q]
  OBVIOUS
<1>. HIDE DEF s
<1>3. s = "io"
  BY <1>1, RequestFacts, Sets DEF SentTo
<1>4. s \in Slots /\ t \in Targets /\ pc[t] = "woken"
  BY <1>1, Sets DEF Take
<1>5. /\ pl' \in [Slots -> Payload] /\ pl'[s].rsp = "OK" /\ pl'[s].addr = pl[s].addr + Base[t]
      /\ \A q \in Slots : q # s => pl'[q] = pl[q]
  BY <1>2, <1>4, AnsweredFacts
<1>6. /\ pc' \in [Queued -> {"asleep", "woken", "access"}] /\ pc'[t] = "asleep"
      /\ \A u \in Queued : u # t => pc'[u] = pc[u]
  BY DEF BusInv, TypeOK
<1>7. \A u \in Queued, q \in BusSlots : InService(q, u)' <=> InService(q, u) /\ q # s
  <2>1. \A u \in Queued : ~InService(s, u)
    BY <1>1, OneWay
  <2>. QED BY <1>1, <1>4, <1>6, <2>1 DEF InService
<1>8. AddressRestored' /\ QueuedRight' /\ ServedRight' /\ SpmRight' /\ Somewhere' /\ RivalsWait'
  BY <1>1, <1>5, <1>7, LeavesTarget
<1>9. ThreadsAwake'
  BY <1>1, <1>6 DEF BusInv, ThreadsAwake
<1>10. s = Head(peq[t])
  BY DEF s
<1>. QED BY <1>1, <1>3, <1>5, <1>6, <1>8, <1>9, <1>10 DEF BusSlots

(* The next word an input answers is a word. *)
LEMMA NextWordType ==
  ASSUME TypeOK, NEW t \in Inputs
  PROVE  NextWord(t) \in Word
<1>1. fileRead[t] \in 0 .. Len(File) /\ File \in Seq(Word) /\ EOF \in Word
  BY NbBusAssumption DEF TypeOK
<1>2. CASE fileRead[t] < Len(File)
  <2>1. fileRead[t] + 1 \in 1 .. Len(File)
    BY <1>1, <1>2, LenProperties
  <2>2. File[fileRead[t] + 1] \in Word
    BY <1>1, <2>1, ElementOfSeq
  <2>. QED BY <1>2, <2>2 DEF NextWord
<1>. QED BY <1>1, <1>2 DEF NextWord

(* An input answers the next word of its file, or nothing. *)
LEMMA ReadInv ==
  ASSUME BusInv, NEW t \in Queued, Read(t)
  PROVE  BusInv'
<1>. DEFINE s == Head(peq[t])
            read == issued[s].cmd = "READ"
            p == IF read THEN [pl EXCEPT ![s].data = NextWord(t)] ELSE pl
<1>0. /\ TypeOK /\ t \in Inputs /\ Take(t) /\ pc' = [pc EXCEPT ![t] = "asleep"] /\ t \notin Memories
      /\ UNCHANGED <<storage, written>> /\ pl' = Answered(p, s, t)
      /\ fileRead' = IF read THEN [fileRead EXCEPT ![t] = IF fileRead[t] < Len(File) THEN fileRead[t] + 1 ELSE fileRead[t]]
                     ELSE fileRead
      /\ got' = IF read THEN [got EXCEPT ![t] = Append(got[t], NextWord(t))] ELSE got
  BY NbBusAssumption DEF Read, BusInv
<1>1. s \in Slots /\ pl \in [Slots -> Payload] /\ NextWord(t) \in Word
  BY <1>0, TakeEffect, NextWordType, Sets DEF TypeOK
<1>. HIDE DEF s, read
<1>2. /\ p \in [Slots -> Payload] /\ p[s].addr = pl[s].addr
      /\ \A q \in Slots : q # s => p[q] = pl[q]
  BY <1>1, DataFacts
<1>. HIDE DEF p
<1>3. /\ s = "io" /\ InQueue("io", t)
      /\ peq' \in [Queued -> Seq(BusSlots)] /\ serving' \in [Queued -> BusSlots]
      /\ pc' \in [Queued -> {"asleep", "woken", "access"}] /\ pl' \in [Slots -> Payload]
      /\ \A u \in Queued : ~InQueue("io", u)'
      /\ AddressRestored' /\ QueuedRight' /\ QueuedOnce' /\ ServedRight' /\ SpmRight'
      /\ Somewhere' /\ RivalsWait' /\ ThreadsAwake'
      /\ UNCHANGED <<previous, issued, spmMem, spmPhase, spmReq, spmAnswer, aborted, asked>>
  BY <1>0, <1>2, TakenAndAnswered DEF s
<1>4. fileRead[t] \in 0 .. Len(File) /\ Len(File) \in Nat /\ got[t] \in Seq(Word) /\ Len(got[t]) \in Nat
  BY <1>0, NbBusAssumption, LenProperties DEF TypeOK
<1>5. fileRead' \in [Inputs -> 0 .. Len(File)]
  BY <1>0, <1>4 DEF TypeOK
<1>6. /\ Append(got[t], NextWord(t)) \in Seq(Word)
      /\ Len(Append(got[t], NextWord(t))) = Len(got[t]) + 1
      /\ \A k \in 1 .. Len(got[t]) : Append(got[t], NextWord(t))[k] = got[t][k]
      /\ Append(got[t], NextWord(t))[Len(got[t]) + 1] = NextWord(t)
  BY <1>1, <1>4, AppendProperties
<1>7. got' \in [Inputs -> Seq(Word)]
  BY <1>0, <1>6 DEF TypeOK
<1>8. TypeOK'
  BY <1>0, <1>3, <1>5, <1>7 DEF TypeOK
<1>9. WordsInOrder'
  <2>1. \A u \in Queued : u # t => ~InQueue("io", u)
    BY <1>3, OneWay DEF BusSlots
  <2>2. t \notin Outputs \cup Uarts
    BY <1>0, NbBusAssumption DEF Loggers
  <2>3. \A u \in Queued : ~OnItsWay(u)
    BY <2>1, <2>2 DEF OnItsWay
  <2>4. \A u \in Queued : ~OnItsWay(u)'
    BY <1>3 DEF OnItsWay
  <2>. QED BY <1>0, <1>3, <2>3, <2>4 DEF BusInv, WordsInOrder
<1>10. FileInOrder'
  <2>1. CASE read
    <3>1. \A u \in Inputs : u # t => fileRead'[u] = fileRead[u] /\ got'[u] = got[u]
      BY <1>0, <2>1 DEF TypeOK
    <3>2. /\ got'[t] = Append(got[t], NextWord(t))
          /\ fileRead'[t] = IF fileRead[t] < Len(File) THEN fileRead[t] + 1 ELSE fileRead[t]
      BY <1>0, <2>1 DEF TypeOK
    <3>3. /\ fileRead[t] = IF Len(got[t]) <= Len(File) THEN Len(got[t]) ELSE Len(File)
          /\ \A k \in 1 .. Len(got[t]) : got[t][k] = IF k <= Len(File) THEN File[k] ELSE EOF
      BY <1>0 DEF BusInv, FileInOrder
    <3>4. NextWord(t) = IF Len(got[t]) + 1 <= Len(File) THEN File[Len(got[t]) + 1] ELSE EOF
      BY <1>4, <3>3 DEF NextWord
    <3>5. fileRead'[t] = IF Len(got'[t]) <= Len(File) THEN Len(got'[t]) ELSE Len(File)
      BY <1>4, <1>6, <3>2, <3>3
    <3>6. ASSUME NEW k \in 1 .. Len(got'[t])
          PROVE  got'[t][k] = IF k <= Len(File) THEN File[k] ELSE EOF
      <4>1. k \in 1 .. Len(got[t]) \/ k = Len(got[t]) + 1
        BY <1>4, <1>6, <3>2
      <4>2. CASE k \in 1 .. Len(got[t])
        BY <1>6, <3>2, <3>3, <4>2
      <4>3. CASE k = Len(got[t]) + 1
        BY <1>6, <3>2, <3>4, <4>3
      <4>. QED BY <4>1, <4>2, <4>3
    <3>. QED BY <3>1, <3>5, <3>6 DEF BusInv, FileInOrder
  <2>2. CASE ~read
    BY <1>0, <2>2 DEF BusInv, FileInOrder
  <2>. QED BY <2>1, <2>2
<1>. QED BY <1>3, <1>8, <1>9, <1>10 DEF BusInv

(* A logger takes a word, or answers a read. *)
LEMMA WriteInv ==
  ASSUME BusInv, NEW t \in Queued, Write(t)
  PROVE  BusInv'
<1>. DEFINE s == Head(peq[t])
<1>0. /\ TypeOK /\ t \in Loggers /\ Take(t) /\ pc' = [pc EXCEPT ![t] = "asleep"] /\ t \notin Memories
      /\ UNCHANGED <<storage, fileRead, got>> /\ pl' = Answered(pl, s, t)
      /\ t \in Uarts => issued[s].cmd # "WRITE"
      /\ written' = IF t \in Outputs /\ issued[s].cmd = "WRITE"
                    THEN Append(written, <<t, pl[s].data>>) ELSE written
  BY NbBusAssumption DEF Write, BusInv
<1>1. pl \in [Slots -> Payload]
  BY <1>0 DEF TypeOK
<1>2. /\ s = "io" /\ InQueue("io", t) /\ pl["io"].data = issued["io"].data
      /\ peq' \in [Queued -> Seq(BusSlots)] /\ serving' \in [Queued -> BusSlots]
      /\ pc' \in [Queued -> {"asleep", "woken", "access"}] /\ pl' \in [Slots -> Payload]
      /\ \A u \in Queued : ~InQueue("io", u)'
      /\ AddressRestored' /\ QueuedRight' /\ QueuedOnce' /\ ServedRight' /\ SpmRight'
      /\ Somewhere' /\ RivalsWait' /\ ThreadsAwake'
      /\ UNCHANGED <<previous, issued, spmMem, spmPhase, spmReq, spmAnswer, aborted, asked>>
  BY <1>0, <1>1, TakenAndAnswered
<1>. HIDE DEF s
<1>3. TypeOK'
  <2>1. <<t, pl[s].data>> \in Loggers \X Word /\ written \in Seq(Loggers \X Word)
    BY <1>0, <1>1, <1>2 DEF TypeOK, Payload, Slots
  <2>2. written' \in Seq(Loggers \X Word)
    BY <1>0, <2>1, AppendProperties
  <2>. QED BY <1>0, <1>2, <2>2 DEF TypeOK
<1>4. WordsInOrder'
  <2>1. \A u \in Queued : u # t => ~OnItsWay(u)
    BY <1>2, OneWay DEF BusSlots, OnItsWay
  <2>2. \A u \in Queued : ~OnItsWay(u)'
    BY <1>2 DEF OnItsWay
  <2>3. OnItsWay(t) <=> t \in Outputs /\ issued["io"].cmd = "WRITE"
    BY <1>0, <1>2 DEF OnItsWay
  <2>4. asked = written'
    BY <1>0, <1>2, <2>1, <2>3 DEF BusInv, WordsInOrder
  <2>. QED BY <1>2, <2>2, <2>4 DEF WordsInOrder
<1>5. FileInOrder'
  BY <1>0 DEF BusInv, FileInOrder
<1>. QED BY <1>2, <1>3, <1>4, <1>5 DEF BusInv

(* The scratch pad memory performs an access: only its data change.        *)
LEMMA SpmPerformInv ==
  ASSUME BusInv, NEW s \in SpmPorts, SpmPerform(s)
  PROVE  BusInv'
<1>0. TypeOK /\ s \in Slots /\ spmPhase[s] = "asked" /\ issued[s] \in Requests[s] /\ spmReq[s] = issued[s]
      /\ In(Spm, issued[s].addr)
  BY Sets DEF SpmPerform, SpmMemory!Perform, BusInv, SpmRight
<1>1. /\ spmPhase' = [spmPhase EXCEPT ![s] = "performed"] /\ spmReq' = spmReq
      /\ \/ /\ spmAnswer' = [spmAnswer EXCEPT ![s] =
                 SpmMemory!Overlay(spmAnswer[s], spmMem[issued[s].addr], issued[s].be)]
            /\ spmMem' = spmMem
         \/ /\ spmMem' = [spmMem EXCEPT ![issued[s].addr] =
                 SpmMemory!Overlay(spmMem[issued[s].addr], issued[s].data, issued[s].be)]
            /\ spmAnswer' = spmAnswer
  BY <1>0 DEF SpmPerform, SpmMemory!Perform
<1>2. /\ pl' = [pl EXCEPT ![s].data = spmAnswer'[s]]
      /\ UNCHANGED <<previous, issued, peq, pc, serving, storage, fileRead, written, aborted, asked, got>>
  BY DEF SpmPerform, devVars, hisVars
<1>3. issued[s].addr \in 0 .. Size[Spm] - 1 /\ issued[s].data \in Word /\ spmAnswer[s] \in Word
  BY <1>0, NbBusAssumption, Sets DEF In, Last, TypeOK, Request
<1>4. \A be : \A v, w \in Word : SpmMemory!Overlay(v, w, be) \in Word
  BY DEF SpmMemory!Overlay, Word
<1>5. /\ spmPhase' \in [SpmPorts -> {"idle", "asked", "performed"}] /\ spmReq' \in [SpmPorts -> Request]
      /\ spmMem' \in [0 .. Size[Spm] - 1 -> Word] /\ spmAnswer' \in [SpmPorts -> Word]
      /\ \A q \in SpmPorts : q # s => spmPhase'[q] = spmPhase[q] /\ spmAnswer'[q] = spmAnswer[q]
      /\ spmPhase'[s] = "performed"
  <2>1. /\ spmPhase' \in [SpmPorts -> {"idle", "asked", "performed"}] /\ spmReq' \in [SpmPorts -> Request]
        /\ \A q \in SpmPorts : q # s => spmPhase'[q] = spmPhase[q]
        /\ spmPhase'[s] = "performed"
    BY <1>0, <1>1 DEF TypeOK
  <2>2. spmMem[issued[s].addr] \in Word
    BY <1>0, <1>3 DEF TypeOK
  <2>3. /\ spmMem' \in [0 .. Size[Spm] - 1 -> Word] /\ spmAnswer' \in [SpmPorts -> Word]
        /\ \A q \in SpmPorts : q # s => spmAnswer'[q] = spmAnswer[q]
    <3>. DEFINE a == issued[s].addr
                v == SpmMemory!Overlay(spmAnswer[s], spmMem[a], issued[s].be)
                w == SpmMemory!Overlay(spmMem[a], issued[s].data, issued[s].be)
    <3>1. v \in Word /\ w \in Word /\ a \in 0 .. Size[Spm] - 1
      BY <1>3, <1>4, <2>2
    <3>2. \/ spmAnswer' = [spmAnswer EXCEPT ![s] = v] /\ spmMem' = spmMem
          \/ spmMem' = [spmMem EXCEPT ![a] = w] /\ spmAnswer' = spmAnswer
      BY <1>1
    <3>3. spmMem \in [0 .. Size[Spm] - 1 -> Word] /\ spmAnswer \in [SpmPorts -> Word]
      BY <1>0 DEF TypeOK
    <3>. HIDE DEF a, v, w
    <3>. QED BY <3>1, <3>2, <3>3
  <2>. QED BY <2>1, <2>3
<1>6. /\ pl' \in [Slots -> Payload] /\ pl'[s].data = spmAnswer'[s]
      /\ pl'[s].rsp = pl[s].rsp /\ pl'[s].addr = pl[s].addr
      /\ \A q \in Slots : q # s => pl'[q] = pl[q]
  <2>. DEFINE w == spmAnswer'[s]
  <2>1. w \in Word /\ pl \in [Slots -> Payload] /\ pl' = [pl EXCEPT ![s].data = w]
    BY <1>0, <1>2, <1>5 DEF TypeOK
  <2>. HIDE DEF w
  <2>2. /\ pl' \in [Slots -> Payload] /\ pl'[s].data = w
        /\ pl'[s].rsp = pl[s].rsp /\ pl'[s].addr = pl[s].addr
        /\ \A q \in Slots : q # s => pl'[q] = pl[q]
    BY <1>0, <2>1, DataFacts
  <2>. QED BY <2>2 DEF w
<1>7. \A q \in Slots : Idle(q)' = Idle(q)
  BY <1>6 DEF Idle
<1>8. \A u \in Queued, q \in BusSlots : /\ InQueue(q, u)' = InQueue(q, u)
                                        /\ InService(q, u)' = InService(q, u)
                                        /\ SentTo(q, u)' = SentTo(q, u)
  <2>1. \A q \in BusSlots : pl'[q].addr = pl[q].addr
    BY <1>6, Sets
  <2>. QED BY <1>2, <1>7, <2>1, Sets DEF InQueue, InService, SentTo
<1>9. s \in BusSlots => \A u \in Queued : ~InQueue(s, u)
  BY <1>0, OneWay
<1>10. TypeOK'
  BY <1>0, <1>2, <1>5, <1>6 DEF TypeOK
<1>11. AddressRestored'
  BY <1>2, <1>6 DEF BusInv, AddressRestored
<1>12. QueuedRight' /\ QueuedOnce' /\ ServedRight'
  BY <1>2, <1>6, <1>8, <1>9, Sets DEF BusInv, QueuedRight, QueuedOnce, ServedRight
<1>13. SpmRight'
  BY <1>0, <1>1, <1>2, <1>5, <1>6, <1>7, Sets DEF BusInv, SpmRight
<1>14. Somewhere' /\ RivalsWait'
  BY <1>5, <1>7, <1>8 DEF BusInv, Somewhere, RivalsWait, Rivals, Slots
<1>15. ThreadsAwake' /\ FileInOrder'
  BY <1>2 DEF BusInv, ThreadsAwake, FileInOrder
<1>16. WordsInOrder'
  <2>1. \A u \in Queued : OnItsWay(u)' = OnItsWay(u)
    BY <1>2, <1>8 DEF OnItsWay, BusSlots
  <2>. QED BY <1>2, <2>1 DEF BusInv, WordsInOrder
<1>. QED BY <1>10, <1>11, <1>12, <1>13, <1>14, <1>15, <1>16 DEF BusInv

(* The scratch pad memory answers: its slot is free again. *)
LEMMA SpmRespondInv ==
  ASSUME BusInv, NEW s \in SpmPorts, SpmRespond(s)
  PROVE  BusInv'
<1>0. TypeOK /\ s \in Slots /\ spmPhase[s] = "performed" /\ pl[s].addr = issued[s].addr /\ ~Idle(s)
      /\ pl \in [Slots -> Payload] /\ Spm \in Targets /\ Base[Spm] = 0 /\ pl[s].addr \in Nat
  BY Sets, NbBusAssumption DEF SpmRespond, SpmMemory!Respond, BusInv, SpmRight, TypeOK, Payload
<1>1. /\ spmPhase' = [spmPhase EXCEPT ![s] = "idle"]
      /\ UNCHANGED <<previous, issued, peq, pc, serving, storage, fileRead, written, aborted, asked, got,
                     spmMem, spmReq, spmAnswer>>
      /\ pl' = IF s \in BusSlots THEN Answered(pl, s, Spm) ELSE [pl EXCEPT ![s].rsp = "OK"]
  BY DEF SpmRespond, SpmMemory!Respond, devVars, hisVars
<1>2. /\ spmPhase' \in [SpmPorts -> {"idle", "asked", "performed"}] /\ spmPhase'[s] = "idle"
      /\ \A q \in SpmPorts : q # s => spmPhase'[q] = spmPhase[q]
  BY <1>0, <1>1 DEF TypeOK
<1>3. /\ pl' \in [Slots -> Payload] /\ pl'[s].rsp = "OK" /\ pl'[s].addr = issued[s].addr
      /\ \A q \in Slots : q # s => pl'[q] = pl[q]
  <2>1. CASE s \in BusSlots
    BY <1>0, <1>1, <2>1, AnsweredFacts
  <2>2. CASE s \notin BusSlots
    <3>1. pl' = [pl EXCEPT ![s] = [pl[s] EXCEPT !.rsp = "OK"]]
      BY <1>1, <2>2
    <3>2. [pl[s] EXCEPT !.rsp = "OK"] \in Payload
      BY <1>0 DEF Payload
    <3>. QED BY <1>0, <3>1, <3>2
  <2>. QED BY <2>1, <2>2
<1>4. (\A q \in Slots : q # s => Idle(q)' = Idle(q)) /\ Idle(s)'
  BY <1>0, <1>3 DEF Idle
<1>5. \A u \in Queued, q \in BusSlots : /\ InQueue(q, u)' = InQueue(q, u)
                                        /\ InService(q, u)' = InService(q, u)
  BY <1>1 DEF InQueue, InService
<1>6. s \in BusSlots => \A u \in Queued : ~InQueue(s, u) /\ ~InService(s, u)
  BY <1>0, OneWay
<1>7. \A u \in Queued, q \in BusSlots : q # s => SentTo(q, u)' = SentTo(q, u)
  <2>1. \A q \in BusSlots : q # s => pl'[q] = pl[q] /\ Idle(q)' = Idle(q)
    BY <1>3, <1>4, Sets
  <2>. QED BY <1>1, <2>1 DEF SentTo
<1>8. TypeOK'
  BY <1>0, <1>1, <1>2, <1>3 DEF TypeOK
<1>9. AddressRestored'
  BY <1>1, <1>3 DEF BusInv, AddressRestored
<1>10. QueuedRight' /\ QueuedOnce' /\ ServedRight'
  BY <1>1, <1>3, <1>5, <1>6, <1>7, Sets DEF BusInv, QueuedRight, QueuedOnce, ServedRight
<1>11. SpmRight'
  BY <1>1, <1>2, <1>3, <1>4, Sets DEF BusInv, SpmRight
<1>12. Somewhere' /\ RivalsWait'
  BY <1>2, <1>4, <1>5 DEF BusInv, Somewhere, RivalsWait, Rivals, Slots
<1>13. ThreadsAwake' /\ FileInOrder'
  BY <1>1 DEF BusInv, ThreadsAwake, FileInOrder
<1>14. WordsInOrder'
  <2>1. \A u \in Queued : OnItsWay(u)' = OnItsWay(u)
    BY <1>1, <1>5 DEF OnItsWay, BusSlots
  <2>. QED BY <1>1, <2>1 DEF BusInv, WordsInOrder
<1>. QED BY <1>8, <1>9, <1>10, <1>11, <1>12, <1>13, <1>14 DEF BusInv

(* Every step of the bus and its targets keeps the invariant. *)
LEMMA NextInv == BusInv /\ [Next]_vars => BusInv'
<1>. SUFFICES ASSUME BusInv, [Next]_vars PROVE BusInv'
  OBVIOUS
<1>1. ASSUME NEW s \in Slots, NEW r \in Requests[s], NEW t \in Queued, Forward(s, r, t) PROVE BusInv'
  BY <1>1, ForwardInv
<1>2. ASSUME NEW s \in Slots, NEW r \in Requests[s], ForwardToSpm(s, r) \/ Direct(s, r) PROVE BusInv'
  BY <1>2, AskSpmCases, AskSpmInv
<1>3. ASSUME NEW s \in Slots, NEW r \in Requests[s], Unresolved(s, r) PROVE BusInv'
  BY <1>3, UnresolvedInv
<1>4. ASSUME NEW t \in Queued, Thread(t) PROVE BusInv'
  BY <1>4, ServeInv, PutCharInv, RespondInv, ReadInv, WriteInv DEF Thread
<1>5. ASSUME NEW s \in SpmPorts, SpmStep(s) PROVE BusInv'
  BY <1>5, SpmPerformInv, SpmRespondInv DEF SpmStep
<1>6. CASE UNCHANGED vars
  BY <1>6 DEF vars, devVars, spmVars, hisVars, BusInv, TypeOK, AddressRestored, QueuedRight, QueuedOnce,
     ServedRight, SpmRight, Somewhere, RivalsWait, ThreadsAwake, WordsInOrder, FileInOrder, InQueue,
     InService, SentTo, OnItsWay, Idle
<1>. QED BY <1>1, <1>2, <1>3, <1>4, <1>5, <1>6 DEF Next

(* The bus never leaves the invariant. *)
LEMMA Invariance == Spec => []BusInv
BY InitInv, NextInv, PTL DEF Spec

-----------------------------------------------------------------------------
(* Every variable of the bus and its targets keeps its type.               *)
THEOREM TypeCorrect == Spec => []TypeOK
<1>1. BusInv => TypeOK
  BY DEF BusInv
<1>. QED BY <1>1, Invariance, PTL

(* The previous interval is a shortcut of resolve() and nothing more: any  *)
(* sequence of accesses later, an address leads to the same target.        *)
THEOREM HistoryFree == Spec => []ResolutionHistoryFree
<1>1. ASSUME BusInv PROVE ResolutionHistoryFree
  <2>. SUFFICES ASSUME NEW a \in UNION {Base[t] .. Last(t) + 1 : t \in Targets}
                PROVE  resolve(a) = Lookup(a)
    BY DEF ResolutionHistoryFree
  <2>1. a \in Int /\ previous \in Targets
    BY <1>1 DEF BusInv, TypeOK
  <2>2. CASE In(previous, a)
    BY <2>1, <2>2, Found
  <2>3. CASE ~In(previous, a)
    BY <2>3 DEF resolve
  <2>. QED BY <2>2, <2>3
<1>. QED BY <1>1, Invariance, PTL

(* A response comes back with the address of its request, whatever was     *)
(* accessed in between.                                                    *)
THEOREM AddressComesBack == Spec => []AddressRestored
<1>1. BusInv => AddressRestored
  BY DEF BusInv
<1>. QED BY <1>1, Invariance, PTL

(* A payload at a target is in one place, a payload at the scratch pad     *)
(* memory only there, and a free slot nowhere.                             *)
LEMMA PlacesAre ==
  ASSUME BusInv, NEW s \in Slots
  PROVE  IF Idle(s) THEN Places(s) = {} ELSE \E x : Places(s) = {x}
<1>0. TypeOK /\ Spm \notin Queued
  BY Sets DEF BusInv
<1>1. \A t \in Queued : /\ Len(peq[t]) \in Nat /\ Len(peq[t]) <= 2
                        /\ \A k \in 1 .. Len(peq[t]) : peq[t][k] \in BusSlots
                        /\ serving[t] \in BusSlots
  BY <1>0, QueueShort DEF TypeOK
<1>2. \A p \in Queued \X (1 .. 2) : p[2] <= Len(peq[p[1]]) /\ peq[p[1]][p[2]] = s =>
        s \in BusSlots /\ p[2] \in 1 .. Len(peq[p[1]]) /\ InQueue(s, p[1])
  BY <1>1 DEF InQueue
<1>3. \A u \in Queued : pc[u] = "access" /\ serving[u] = s => s \in BusSlots /\ InService(s, u)
  BY <1>1 DEF InService
<1>4. CASE Idle(s)
  <2>1. s \in BusSlots => \A u \in Queued : ~InQueue(s, u) /\ ~InService(s, u)
    BY <1>4, FreeNowhere
  <2>2. s \in SpmPorts => spmPhase[s] = "idle"
    BY <1>4, FreeNowhere
  <2>3. {p \in Queued \X (1 .. 2) : p[2] <= Len(peq[p[1]]) /\ peq[p[1]][p[2]] = s} = {}
    BY <1>2, <2>1
  <2>4. {u \in Queued : pc[u] = "access" /\ serving[u] = s} = {}
    BY <1>3, <2>1
  <2>5. {p \in SpmPorts : p = s /\ spmPhase[p] # "idle"} = {}
    BY <2>2
  <2>. QED BY <1>4, <2>3, <2>4, <2>5 DEF Places
<1>5. CASE ~Idle(s) /\ s \in SpmPorts /\ spmPhase[s] # "idle"
  <2>1. s \in BusSlots => \A u \in Queued : ~InQueue(s, u) /\ ~InService(s, u)
    BY <1>5, OneWay
  <2>2. {p \in Queued \X (1 .. 2) : p[2] <= Len(peq[p[1]]) /\ peq[p[1]][p[2]] = s} = {}
    BY <1>2, <2>1
  <2>3. {u \in Queued : pc[u] = "access" /\ serving[u] = s} = {}
    BY <1>3, <2>1
  <2>4. {p \in SpmPorts : p = s /\ spmPhase[p] # "idle"} = {s}
    BY <1>5
  <2>5. Places(s) = {<<Spm, 0>>}
    BY <2>2, <2>3, <2>4 DEF Places
  <2>. QED BY <1>5, <2>5
<1>6. ASSUME ~Idle(s), s \in BusSlots, NEW t \in Queued, InService(s, t) PROVE \E x : Places(s) = {x}
  <2>1. /\ ~InQueue(s, t) /\ \A u \in Queued : u # t => ~InQueue(s, u) /\ ~InService(s, u)
        /\ s \in SpmPorts => spmPhase[s] = "idle"
    BY <1>6, OneWay
  <2>2. {p \in Queued \X (1 .. 2) : p[2] <= Len(peq[p[1]]) /\ peq[p[1]][p[2]] = s} = {}
    BY <1>2, <2>1
  <2>3. {u \in Queued : pc[u] = "access" /\ serving[u] = s} = {t}
    BY <1>3, <1>6, <2>1 DEF InService
  <2>4. {p \in SpmPorts : p = s /\ spmPhase[p] # "idle"} = {}
    BY <2>1
  <2>5. Places(s) = {<<t, 0>>}
    BY <2>2, <2>3, <2>4 DEF Places
  <2>. QED BY <2>5
<1>7. ASSUME ~Idle(s), s \in BusSlots, NEW t \in Queued, InQueue(s, t) PROVE \E x : Places(s) = {x}
  <2>1. /\ ~InService(s, t) /\ \A u \in Queued : u # t => ~InQueue(s, u) /\ ~InService(s, u)
        /\ s \in SpmPorts => spmPhase[s] = "idle"
    BY <1>7, OneWay
  <2>2. PICK k \in 1 .. Len(peq[t]) : peq[t][k] = s
    BY <1>7 DEF InQueue
  <2>3. \A j \in 1 .. Len(peq[t]) : peq[t][j] = s => j = k
    BY <2>2 DEF BusInv, QueuedOnce
  <2>4. k \in 1 .. 2 /\ k <= Len(peq[t])
    BY <1>1, <2>2
  <2>5. {p \in Queued \X (1 .. 2) : p[2] <= Len(peq[p[1]]) /\ peq[p[1]][p[2]] = s} = {<<t, k>>}
    BY <1>2, <2>1, <2>2, <2>3, <2>4
  <2>6. {u \in Queued : pc[u] = "access" /\ serving[u] = s} = {}
    BY <1>3, <2>1
  <2>7. {p \in SpmPorts : p = s /\ spmPhase[p] # "idle"} = {}
    BY <2>1
  <2>8. Places(s) = {<<t, k>>}
    BY <2>5, <2>6, <2>7 DEF Places
  <2>. QED BY <2>8
<1>. QED BY <1>4, <1>5, <1>6, <1>7 DEF BusInv, Somewhere

(* No payload is lost, duplicated or left in a queue behind its answer, no *)
(* thread wakes up to an empty queue, and a sleeping one has missed one    *)
(* payload at most.                                                        *)
THEOREM InOnePlace == Spec => []OnePlace
<1>1. ASSUME BusInv PROVE OnePlace
  <2>1. \A x : Cardinality({x}) = 1
    BY FS_Singleton, Zenon
  <2>2. ASSUME NEW s \in Slots PROVE IF Idle(s) THEN Places(s) = {} ELSE Cardinality(Places(s)) = 1
    BY <1>1, <2>1, PlacesAre
  <2>. QED BY <1>1, <2>2 DEF OnePlace, BusInv, ThreadsAwake
<1>. QED BY <1>1, Invariance, PTL

(* Outputs, the UART and the helper took the words of the program in its   *)
(* order, all but the one on its way; an input has answered its file, then *)
(* EOF.                                                                    *)
THEOREM InOrder == Spec => []DevicesInOrder
<1>1. ASSUME BusInv PROVE DevicesInOrder
  <2>1. /\ written \in Seq(Loggers \X Word) /\ Len(written) \in Nat
        /\ written = SubSeq(written, 1, Len(written))
    BY <1>1 DEF BusInv, TypeOK
  <2>2. CASE \A t \in Queued : ~OnItsWay(t)
    BY <1>1, <2>1, <2>2 DEF BusInv, WordsInOrder, FileInOrder, DevicesInOrder
  <2>3. CASE \E t \in Queued : OnItsWay(t)
    <3>1. PICK t \in Queued : OnItsWay(t)
      BY <2>3
    <3>. DEFINE e == <<t, issued["io"].data>>
    <3>2. asked = Append(written, e) /\ ~Idle("io")
      BY <1>1, <3>1 DEF BusInv, WordsInOrder, OnItsWay, QueuedRight, SentTo, BusSlots
    <3>3. asked \in Seq(Loggers \X Word) /\ Len(asked) \in Nat /\ Len(asked) = Len(written) + 1
      BY <1>1, <2>1, <3>2 DEF BusInv, TypeOK
    <3>. HIDE DEF e
    <3>4. \A i \in 1 .. Len(written) : asked[i] = written[i]
      BY <2>1, <3>2
    <3>5. SubSeq(asked, 1, Len(written)) = written
      <4>1. /\ SubSeq(asked, 1, Len(written)) \in Seq(Loggers \X Word)
            /\ Len(SubSeq(asked, 1, Len(written))) = Len(written)
            /\ \A i \in 1 .. Len(written) : SubSeq(asked, 1, Len(written))[i] = asked[i]
        BY <2>1, <3>3
      <4>. QED BY <2>1, <3>4, <4>1, SeqEqual
    <3>. QED BY <1>1, <3>2, <3>3, <3>5 DEF BusInv, FileInOrder, DevicesInOrder
  <2>. QED BY <2>2, <2>3
<1>. QED BY <1>1, Invariance, PTL

-----------------------------------------------------------------------------
(***************************************************************************)
(* The refinement.  A step of the flat memory is a step of one slot.       *)
(***************************************************************************)
FlatAddrs == Words \cup (0 .. Size[Spm] - 1)
Flat(a)   == IF a \in Words THEN storage[a] ELSE spmMem[a]

SameSlot(q) == PhaseOf(q)' = PhaseOf(q) /\ issued'[q] = issued[q] /\ pl'[q].data = pl[q].data
SameOthers(s) == \A q \in MemSlots : q # s => SameSlot(q)
SameMemory == \A a \in FlatAddrs : Flat(a)' = Flat(a)

(* A step the flat memory does not see. *)
LEMMA StutterStep ==
  ASSUME SameMemory, \A q \in MemSlots : SameSlot(q)
  PROVE  UNCHANGED Atomic!vars
BY DEF SameMemory, SameSlot, Atomic!vars, FlatAddrs, Flat

(* A request that reaches a memory, and one that no memory takes. *)
LEMMA AskStep ==
  ASSUME NEW s \in MemSlots, NEW r \in Requests[s], SameMemory, SameOthers(s),
         PhaseOf(s) = "idle", PhaseOf(s)' = (IF r.addr \in FlatAddrs THEN "asked" ELSE "idle"),
         issued'[s] = r, pl'[s].data = r.data
  PROVE  Atomic!Next
<1>1. [a \in FlatAddrs |-> Flat(a)]' = [a \in FlatAddrs |-> Flat(a)]
  BY DEF SameMemory, FlatAddrs, Words
<1>2. [q \in MemSlots |-> issued[q]]' = [[q \in MemSlots |-> issued[q]] EXCEPT ![s] = r]
  BY DEF SameOthers, SameSlot
<1>3. [q \in MemSlots |-> pl[q].data]' = [[q \in MemSlots |-> pl[q].data] EXCEPT ![s] = r.data]
  BY DEF SameOthers, SameSlot
<1>4. CASE r.addr \in FlatAddrs
  <2>1. [q \in MemSlots |-> PhaseOf(q)]' = [[q \in MemSlots |-> PhaseOf(q)] EXCEPT ![s] = "asked"]
    BY <1>4 DEF SameOthers, SameSlot
  <2>2. Atomic!Ask(s, r)
    BY <1>1, <1>2, <1>3, <1>4, <2>1 DEF Atomic!Ask, FlatAddrs, Flat
  <2>. QED BY <2>2 DEF Atomic!Next
<1>5. CASE r.addr \notin FlatAddrs
  <2>1. [q \in MemSlots |-> PhaseOf(q)]' = [q \in MemSlots |-> PhaseOf(q)]
    BY <1>5 DEF SameOthers, SameSlot
  <2>2. Atomic!Refuse(s, r)
    BY <1>1, <1>2, <1>3, <1>5, <2>1 DEF Atomic!Refuse, FlatAddrs, Flat
  <2>. QED BY <2>2 DEF Atomic!Next
<1>. QED BY <1>4, <1>5

(* An access that takes effect. *)
LEMMA PerformStep ==
  ASSUME NEW s \in MemSlots, SameOthers(s), issued[s].addr \in FlatAddrs,
         PhaseOf(s) = "asked", PhaseOf(s)' = "performed", issued'[s] = issued[s],
         \/ /\ issued[s].cmd = "READ" /\ SameMemory
            /\ pl'[s].data = Overlay(pl[s].data, Flat(issued[s].addr), issued[s].be)
         \/ /\ issued[s].cmd = "WRITE" /\ pl'[s].data = pl[s].data
            /\ Flat(issued[s].addr)' = Overlay(Flat(issued[s].addr), issued[s].data, issued[s].be)
            /\ \A a \in FlatAddrs : a # issued[s].addr => Flat(a)' = Flat(a)
  PROVE  Atomic!Next
<1>1. [q \in MemSlots |-> issued[q]]' = [q \in MemSlots |-> issued[q]]
  BY DEF SameOthers, SameSlot
<1>2. [q \in MemSlots |-> PhaseOf(q)]' = [[q \in MemSlots |-> PhaseOf(q)] EXCEPT ![s] = "performed"]
  BY DEF SameOthers, SameSlot
<1>3. \A v, w, be : Overlay(v, w, be) = Atomic!Overlay(v, w, be)
  BY DEF Overlay, Atomic!Overlay
<1>4. CASE issued[s].cmd = "READ" /\ SameMemory
           /\ pl'[s].data = Overlay(pl[s].data, Flat(issued[s].addr), issued[s].be)
  <2>1. [a \in FlatAddrs |-> Flat(a)]' = [a \in FlatAddrs |-> Flat(a)]
    BY <1>4 DEF SameMemory, FlatAddrs, Words
  <2>2. [q \in MemSlots |-> pl[q].data]'
          = [[q \in MemSlots |-> pl[q].data] EXCEPT ![s] =
               Atomic!Overlay(pl[s].data, Flat(issued[s].addr), issued[s].be)]
    BY <1>3, <1>4 DEF SameOthers, SameSlot
  <2>. QED BY <1>1, <1>2, <1>4, <2>1, <2>2 DEF Atomic!Next, Atomic!Perform, FlatAddrs, Flat
<1>5. CASE /\ issued[s].cmd = "WRITE" /\ pl'[s].data = pl[s].data
           /\ Flat(issued[s].addr)' = Overlay(Flat(issued[s].addr), issued[s].data, issued[s].be)
           /\ \A a \in FlatAddrs : a # issued[s].addr => Flat(a)' = Flat(a)
  <2>1. [a \in FlatAddrs |-> Flat(a)]'
          = [[a \in FlatAddrs |-> Flat(a)] EXCEPT ![issued[s].addr] =
               Atomic!Overlay(Flat(issued[s].addr), issued[s].data, issued[s].be)]
    BY <1>3, <1>5 DEF FlatAddrs, Words
  <2>2. [q \in MemSlots |-> pl[q].data]' = [q \in MemSlots |-> pl[q].data]
    BY <1>5 DEF SameOthers, SameSlot
  <2>. QED BY <1>1, <1>2, <1>5, <2>1, <2>2 DEF Atomic!Next, Atomic!Perform, FlatAddrs, Flat
<1>. QED BY <1>4, <1>5

(* A response. *)
LEMMA RespondStep ==
  ASSUME NEW s \in MemSlots, SameMemory, SameOthers(s),
         PhaseOf(s) = "performed", PhaseOf(s)' = "idle",
         issued'[s] = issued[s], pl'[s].data = pl[s].data
  PROVE  Atomic!Next
<1>1. [a \in FlatAddrs |-> Flat(a)]' = [a \in FlatAddrs |-> Flat(a)]
  BY DEF SameMemory, FlatAddrs, Words
<1>2. [q \in MemSlots |-> issued[q]]' = [q \in MemSlots |-> issued[q]]
  BY DEF SameOthers, SameSlot
<1>3. [q \in MemSlots |-> pl[q].data]' = [q \in MemSlots |-> pl[q].data]
  BY DEF SameOthers, SameSlot
<1>4. [q \in MemSlots |-> PhaseOf(q)]' = [[q \in MemSlots |-> PhaseOf(q)] EXCEPT ![s] = "idle"]
  BY DEF SameOthers, SameSlot
<1>5. Atomic!Respond(s)
  BY <1>1, <1>2, <1>3, <1>4 DEF Atomic!Respond, FlatAddrs, Flat
<1>. QED BY <1>5 DEF Atomic!Next

(* The phase of a slot depends on its payload, the scratch pad memory and  *)
(* the threads that serve it.                                              *)
LEMMA SamePhase ==
  ASSUME NEW q, Idle(q)' = Idle(q), q \in SpmPorts => spmPhase'[q] = spmPhase[q],
         \A u \in Memories : InService(q, u)' = InService(q, u)
  PROVE  PhaseOf(q)' = PhaseOf(q)
BY DEF PhaseOf, InService

(* The words of the scratch pad memory are not those of the memories. *)
LEMMA Apart ==
  ASSUME NEW a \in 0 .. Size[Spm] - 1
  PROVE  a \notin Words /\ a \in FlatAddrs /\ In(Spm, a)
<1>1. In(Spm, a) /\ Spm \notin Memories /\ Memories \subseteq Targets
  BY NbBusAssumption, Sets DEF In, Last, Queued
<1>2. \A t \in Memories : a \in Base[t] .. Last(t) => In(t, a)
  BY DEF In
<1>. QED BY <1>1, <1>2, OneTarget, Sets DEF Words, FlatAddrs

(* The slots of the memories, and the words they may ask for. *)
LEMMA FlatFacts ==
  ASSUME NEW a \in Nat
  PROVE  /\ a \in FlatAddrs <=> \E t \in Memories \cup {Spm} : In(t, a)
         /\ In(Spm, a) => a \in 0 .. Size[Spm] - 1
<1>1. \A t \in Memories : In(t, a) <=> a \in Base[t] .. Last(t)
  BY Sets DEF In, Last, Queued
<1>2. In(Spm, a) <=> a \in 0 .. Size[Spm] - 1
  BY NbBusAssumption, Sets DEF In, Last
<1>. QED BY <1>1, <1>2 DEF FlatAddrs, Words

(* A request of the bus to a memory or a peripheral.                       *)
LEMMA ForwardMaps ==
  ASSUME BusInv, NEW s \in Slots, NEW r \in Requests[s], NEW t \in Queued, Forward(s, r, t)
  PROVE  [Atomic!Next]_Atomic!vars
<1>1. /\ TypeOK /\ s \in BusSlots /\ t \in Targets /\ previous \in Targets /\ Idle(s)
      /\ r \in Request /\ r.addr \in Nat
  BY RequestFacts, Sets DEF Forward, BusInv, TypeOK, Free, Rivals, BusSlots
<1>2. In(t, r.addr) /\ (IF s = "io" THEN t \notin Memories ELSE t \in Memories)
  <2>1. In(t, r.addr)
    BY <1>1, RequestFacts, Found DEF Forward
  <2>. QED BY <1>1, <2>1, RequestFacts, Sets
<1>3. /\ issued'[s] = r /\ \A q \in Slots : q # s => issued'[q] = issued[q]
  BY <1>1 DEF Forward, Build, TypeOK
<1>4. /\ pl'[s].data = r.data /\ pl'[s].rsp = "INCOMPLETE" /\ \A q \in Slots : q # s => pl'[q] = pl[q]
  BY <1>1 DEF Forward, TypeOK
<1>5. /\ \A u \in Queued : (pc'[u] = "access") = (pc[u] = "access")
      /\ serving' = serving /\ storage' = storage /\ spmMem' = spmMem /\ spmPhase' = spmPhase
  BY <1>1 DEF Forward, Notify, TypeOK, spmVars
<1>6. \A q, u : u \in Memories => InService(q, u)' = InService(q, u)
  BY <1>5 DEF InService, Queued
<1>7. SameMemory
  BY <1>5 DEF SameMemory, Flat, Words
<1>8. ASSUME NEW q \in MemSlots, q # s PROVE SameSlot(q)
  <2>1. Idle(q)' = Idle(q) /\ q \in Slots
    BY <1>4, <1>8, Sets DEF Idle
  <2>2. PhaseOf(q)' = PhaseOf(q)
    BY <1>5, <1>6, <2>1, SamePhase
  <2>. QED BY <1>3, <1>4, <1>8, <2>1, <2>2 DEF SameSlot
<1>9. CASE s = "io"
  BY <1>7, <1>8, <1>9, StutterStep DEF MemSlots
<1>10. CASE s # "io"
  <2>1. s \in MemSlots /\ PhaseOf(s) = "idle"
    BY <1>1, <1>10 DEF MemSlots, BusSlots, PhaseOf
  <2>2. \A u \in Memories : ~InService(s, u)
    BY <1>1, FreeNowhere DEF Queued
  <2>3. s \in SpmPorts => spmPhase[s] = "idle"
    BY <1>1, FreeNowhere
  <2>4. PhaseOf(s)' = "asked"
    BY <1>4, <1>5, <1>6, <2>2, <2>3 DEF PhaseOf, Idle, InService
  <2>5. r.addr \in FlatAddrs
    BY <1>1, <1>2, <1>10, FlatFacts
  <2>. QED BY <1>3, <1>4, <1>7, <1>8, <2>1, <2>4, <2>5, AskStep DEF SameOthers
<1>. QED BY <1>9, <1>10

(* A request to the scratch pad memory. *)
LEMMA AskSpmMaps ==
  ASSUME BusInv, NEW s \in Slots, NEW r \in Requests[s], AsksSpm(s, r)
  PROVE  [Atomic!Next]_Atomic!vars
<1>1. /\ TypeOK /\ s \in SpmPorts /\ s \in MemSlots /\ Idle(s)
      /\ r \in Request /\ r.addr \in Nat /\ In(Spm, r.addr)
  BY RequestFacts DEF AsksSpm, BusInv, Free, Rivals, SpmPorts, MemSlots
<1>2. /\ issued'[s] = r /\ \A q \in Slots : q # s => issued'[q] = issued[q]
  BY <1>1 DEF AsksSpm, Build, TypeOK
<1>3. /\ pl'[s].data = r.data /\ pl'[s].rsp = "INCOMPLETE" /\ \A q \in Slots : q # s => pl'[q] = pl[q]
  BY <1>1 DEF AsksSpm, TypeOK
<1>4. /\ spmPhase'[s] = "asked" /\ (\A q \in SpmPorts : q # s => spmPhase'[q] = spmPhase[q])
      /\ pc' = pc /\ serving' = serving /\ storage' = storage /\ spmMem' = spmMem
  BY <1>1 DEF AsksSpm, SpmMemory!Ask, TypeOK
<1>5. \A q, u : u \in Memories => InService(q, u)' = InService(q, u)
  BY <1>4 DEF InService
<1>6. SameMemory
  BY <1>4 DEF SameMemory, Flat, Words
<1>7. ASSUME NEW q \in MemSlots, q # s PROVE SameSlot(q)
  <2>1. Idle(q)' = Idle(q) /\ q \in Slots
    BY <1>3, <1>7, Sets DEF Idle
  <2>2. PhaseOf(q)' = PhaseOf(q)
    BY <1>4, <1>5, <1>7, <2>1, SamePhase
  <2>. QED BY <1>2, <1>3, <1>7, <2>1, <2>2 DEF SameSlot
<1>8. PhaseOf(s) = "idle" /\ PhaseOf(s)' = "asked"
  BY <1>1, <1>3, <1>4 DEF PhaseOf, Idle
<1>9. r.addr \in FlatAddrs
  BY <1>1, FlatFacts
<1>. QED BY <1>1, <1>2, <1>3, <1>6, <1>7, <1>8, <1>9, AskStep DEF SameOthers

(* A request without a target is refused by the flat memory too. *)
LEMMA UnresolvedMaps ==
  ASSUME BusInv, NEW s \in Slots, NEW r \in Requests[s], Unresolved(s, r)
  PROVE  [Atomic!Next]_Atomic!vars
<1>1. /\ TypeOK /\ s \in BusSlots /\ Idle(s) /\ r \in Request /\ r.addr \in Nat
      /\ previous \in Targets
  BY RequestFacts DEF Unresolved, BusInv, TypeOK, Free, Rivals, BusSlots
<1>2. /\ issued'[s] = r /\ \A q \in Slots : q # s => issued'[q] = issued[q]
  BY <1>1, Sets DEF Unresolved, Build, TypeOK
<1>3. /\ pl'[s].data = r.data /\ pl'[s].rsp = "ADDRESS_ERROR" /\ \A q \in Slots : q # s => pl'[q] = pl[q]
  BY <1>1, Sets DEF Unresolved, TypeOK
<1>4. UNCHANGED <<pc, serving, storage, spmMem, spmPhase>>
  BY DEF Unresolved, spmVars
<1>5. \A q, u : u \in Memories => InService(q, u)' = InService(q, u)
  BY <1>4 DEF InService
<1>6. SameMemory
  BY <1>4 DEF SameMemory, Flat, Words
<1>7. ASSUME NEW q \in MemSlots, q # s PROVE SameSlot(q)
  <2>1. Idle(q)' = Idle(q) /\ q \in Slots
    BY <1>3, <1>7, Sets DEF Idle
  <2>2. PhaseOf(q)' = PhaseOf(q)
    BY <1>4, <1>5, <2>1, SamePhase
  <2>. QED BY <1>2, <1>3, <1>7, <2>1, <2>2 DEF SameSlot
<1>8. CASE s = "io"
  BY <1>6, <1>7, <1>8, StutterStep DEF MemSlots
<1>9. CASE s # "io"
  <2>1. s \in MemSlots /\ PhaseOf(s) = "idle" /\ PhaseOf(s)' = "idle"
    BY <1>1, <1>3, <1>9 DEF MemSlots, BusSlots, PhaseOf, Idle
  <2>2. \A t \in Targets : ~In(t, r.addr)
    BY <1>1, Found DEF Unresolved
  <2>3. r.addr \notin FlatAddrs
    BY <1>1, <2>2, FlatFacts, Sets DEF Queued
  <2>. QED BY <1>2, <1>3, <1>6, <1>7, <2>1, <2>3, AskStep DEF SameOthers
<1>. QED BY <1>8, <1>9

(* A memory of the bus performs the access it takes. *)
LEMMA ServeMaps ==
  ASSUME BusInv, NEW t \in Queued, Serve(t)
  PROVE  [Atomic!Next]_Atomic!vars
<1>1. TypeOK /\ t \in Memories /\ Take(t) /\ pc' = [pc EXCEPT ![t] = "access"] /\ pc[t] = "woken"
  BY DEF Serve, Take, BusInv
<1>2. PICK s \in BusSlots : s = Head(peq[t])
  BY <1>1, TakeEffect
<1>3. /\ SentTo(s, t) /\ InQueue(s, t) /\ pl[s].data = issued[s].data
      /\ serving'[t] = s /\ (\A u \in Queued : u # t => serving'[u] = serving[u])
      /\ UNCHANGED <<issued, spmMem, spmPhase>>
  BY <1>2, <1>1, TakeEffect
<1>4. s \in Slots /\ s \in MemSlots /\ pl[s].addr + Base[t] = issued[s].addr /\ issued[s].addr \in Words
  <2>1. s # "io" /\ s \in Slots
    BY <1>1, <1>3, RequestFacts, Sets DEF SentTo
  <2>. QED BY <1>1, <1>3, <2>1, StoredAt DEF BusSlots, MemSlots
<1>5. PICK a \in Words : a = issued[s].addr
  BY <1>4
<1>6. \/ /\ issued[s].cmd = "READ" /\ storage' = storage
         /\ pl' = [pl EXCEPT ![s].data = Overlay(pl[s].data, storage[a], issued[s].be)]
      \/ /\ issued[s].cmd = "WRITE" /\ pl' = pl
         /\ storage' = [storage EXCEPT ![a] = Overlay(storage[a], pl[s].data, issued[s].be)]
  BY <1>2, <1>4, <1>5 DEF Serve
<1>7. pl \in [Slots -> Payload] /\ storage \in [Words -> Word] /\ storage[a] \in Word
  BY <1>1, <1>4 DEF TypeOK
<1>8. /\ \A q \in Slots : q # s => pl'[q] = pl[q]
      /\ pl'[s].rsp = pl[s].rsp
  <2>1. CASE pl' = pl
    BY <2>1
  <2>2. CASE pl' = [pl EXCEPT ![s].data = Overlay(pl[s].data, storage[a], issued[s].be)]
    <3>. DEFINE w == Overlay(pl[s].data, storage[a], issued[s].be)
    <3>1. w \in Word /\ pl' = [pl EXCEPT ![s].data = w]
      BY <1>4, <1>7, <2>2, OverlayType DEF Payload
    <3>. HIDE DEF w
    <3>. QED BY <1>4, <1>7, <3>1, DataFacts
  <2>. QED BY <1>6, <2>1, <2>2
<1>9. (\A q \in Slots : Idle(q)' = Idle(q)) /\ ~Idle(s)
  BY <1>3, <1>8 DEF Idle, SentTo
<1>10. \A u \in Queued, q \in Slots : InService(q, u)' <=> InService(q, u) \/ (q = s /\ u = t)
  <2>1. pc'[t] = "access" /\ \A u \in Queued : u # t => pc'[u] = pc[u]
    BY <1>1 DEF TypeOK
  <2>. QED BY <1>1, <1>3, <2>1 DEF InService
<1>11. SameOthers(s)
  <2>. SUFFICES ASSUME NEW q \in MemSlots, q # s PROVE SameSlot(q)
    BY DEF SameOthers
  <2>1. q \in Slots /\ Memories \subseteq Queued
    BY Sets DEF Queued
  <2>2. PhaseOf(q)' = PhaseOf(q)
    <3>1. \A u \in Memories : InService(q, u)' = InService(q, u)
      BY <1>10, <2>1 DEF InService
    <3>. QED BY <1>3, <1>9, <2>1, <3>1, SamePhase
  <2>. QED BY <1>3, <1>8, <2>1, <2>2 DEF SameSlot
<1>12. /\ s \in SpmPorts => spmPhase[s] = "idle"
       /\ \A u \in Queued : ~InService(s, u)
  BY <1>3, OneWay
<1>13. PhaseOf(s) = "asked" /\ PhaseOf(s)' = "performed"
  <2>1. PhaseOf(s) = "asked"
    BY <1>9, <1>12 DEF PhaseOf, InService, Queued
  <2>2. InService(s, t)'
    BY <1>4, <1>10
  <2>3. ~Idle(s)'
    BY <1>4, <1>9
  <2>4. PhaseOf(s)' = "performed"
    BY <1>1, <1>3, <1>12, <2>2, <2>3 DEF PhaseOf, InService
  <2>. QED BY <2>1, <2>4
<1>14. a \in FlatAddrs /\ Flat(a) = storage[a]
  BY <1>4 DEF FlatAddrs, Flat
<1>15. CASE /\ issued[s].cmd = "READ" /\ storage' = storage
            /\ pl' = [pl EXCEPT ![s].data = Overlay(pl[s].data, storage[a], issued[s].be)]
  <2>1. SameMemory
    BY <1>3, <1>15 DEF SameMemory, Flat, Words
  <2>2. pl'[s].data = Overlay(pl[s].data, Flat(issued[s].addr), issued[s].be)
    BY <1>4, <1>7, <1>5, <1>14, <1>15 DEF Payload
  <2>. QED BY <1>3, <1>4, <1>11, <1>13, <1>14, <1>5, <1>15, <2>1, <2>2, PerformStep
<1>16. CASE /\ issued[s].cmd = "WRITE" /\ pl' = pl
            /\ storage' = [storage EXCEPT ![a] = Overlay(storage[a], pl[s].data, issued[s].be)]
  <2>1. Flat(a)' = Overlay(Flat(a), issued[s].data, issued[s].be)
    BY <1>3, <1>4, <1>7, <1>14, <1>16 DEF Flat, Words
  <2>2. \A b \in FlatAddrs : b # a => Flat(b)' = Flat(b)
    BY <1>3, <1>7, <1>16 DEF Flat, Words
  <2>. QED BY <1>3, <1>4, <1>11, <1>13, <1>14, <1>5, <1>16, <2>1, <2>2, PerformStep
<1>. QED BY <1>6, <1>15, <1>16

(* A peripheral or its response does not touch the flat memory. *)
LEMMA IoMaps ==
  ASSUME BusInv, NEW t \in Queued, t \notin Memories,
         \A q \in Slots : q # "io" => pl'[q] = pl[q],
         UNCHANGED <<issued, storage, spmMem, spmPhase>>,
         \A u \in Queued : u # t => pc'[u] = pc[u] /\ serving'[u] = serving[u]
  PROVE  [Atomic!Next]_Atomic!vars
<1>1. \A q, u : u \in Memories => InService(q, u)' = InService(q, u)
  BY DEF InService, Queued
<1>2. SameMemory
  BY DEF SameMemory, Flat, Words
<1>3. ASSUME NEW q \in MemSlots PROVE SameSlot(q)
  <2>1. pl'[q] = pl[q]
    BY DEF MemSlots, Slots
  <2>2. Idle(q)' = Idle(q)
    BY <2>1 DEF Idle
  <2>3. PhaseOf(q)' = PhaseOf(q)
    BY <1>1, <2>2, SamePhase
  <2>. QED BY <2>1, <2>3 DEF SameSlot
<1>. QED BY <1>2, <1>3, StutterStep

(* A memory of the bus responds, or a peripheral does. *)
LEMMA RespondMaps ==
  ASSUME BusInv, NEW t \in Queued, Respond(t)
  PROVE  [Atomic!Next]_Atomic!vars
<1>1. PICK s \in BusSlots : s = serving[t]
  BY DEF BusInv, TypeOK
<1>2. /\ TypeOK /\ s \in Slots /\ t \in Targets /\ InService(s, t) /\ SentTo(s, t)
      /\ pl \in [Slots -> Payload]
  BY <1>1, Sets DEF Respond, BusInv, TypeOK, InService, ServedRight
<1>3. /\ pl' = Answered(pl, s, t) /\ pc' = [pc EXCEPT ![t] = "asleep"]
      /\ UNCHANGED <<issued, serving, storage, spmMem, spmPhase>>
  BY <1>1 DEF Respond, spmVars
<1>4. /\ pl'[s].rsp = "OK" /\ pl'[s].data = pl[s].data
      /\ \A q \in Slots : q # s => pl'[q] = pl[q]
  BY <1>2, <1>3, AnsweredFacts
<1>5. pc'[t] = "asleep" /\ \A u \in Queued : u # t => pc'[u] = pc[u]
  BY <1>2, <1>3 DEF TypeOK
<1>6. IF s = "io" THEN t \notin Memories ELSE t \in Memories /\ s \in MemSlots
  BY <1>2, RequestFacts DEF SentTo, BusSlots, MemSlots
<1>7. CASE s = "io"
  BY <1>3, <1>4, <1>5, <1>6, <1>7, IoMaps
<1>8. CASE s # "io"
  <2>1. t \in Memories /\ s \in MemSlots /\ Memories \subseteq Queued
    BY <1>6, <1>8 DEF Queued
  <2>2. s \in SpmPorts => spmPhase[s] = "idle"
    BY <1>2, OneWay
  <2>3. PhaseOf(s) = "performed"
    BY <1>2, <2>1, <2>2 DEF PhaseOf, InService, SentTo
  <2>4. PhaseOf(s)' = "idle"
    BY <1>4 DEF PhaseOf, Idle
  <2>5. SameMemory
    BY <1>3 DEF SameMemory, Flat, Words
  <2>6. ASSUME NEW q \in MemSlots, q # s PROVE SameSlot(q)
    <3>1. Idle(q)' = Idle(q) /\ q \in Slots
      BY <1>4, <2>6, Sets DEF Idle
    <3>2. \A u \in Memories : InService(q, u)' = InService(q, u)
      BY <1>2, <1>3, <1>5, <2>1, <2>6 DEF InService
    <3>3. PhaseOf(q)' = PhaseOf(q)
      BY <1>3, <3>1, <3>2, SamePhase
    <3>. QED BY <1>3, <1>4, <2>6, <3>1, <3>3 DEF SameSlot
  <2>. QED BY <1>3, <1>4, <2>1, <2>3, <2>4, <2>5, <2>6, RespondStep DEF SameOthers
<1>. QED BY <1>7, <1>8

(* The thread of a peripheral takes a payload. *)
LEMMA PeripheralMaps ==
  ASSUME BusInv, NEW t \in Queued, PutChar(t) \/ Read(t) \/ Write(t)
  PROVE  [Atomic!Next]_Atomic!vars
<1>1. /\ TypeOK /\ Take(t) /\ t \notin Memories /\ storage' = storage
      /\ pl \in [Slots -> Payload] /\ t \in Targets
      /\ pc' = [pc EXCEPT ![t] = "access"] \/ pc' = [pc EXCEPT ![t] = "asleep"]
      /\ t \in Inputs \/ t \in Loggers
  BY NbBusAssumption, Sets DEF PutChar, Read, Write, BusInv, TypeOK, Loggers
<1>2. PICK s \in BusSlots : s = Head(peq[t])
  BY <1>1, TakeEffect
<1>3. /\ SentTo(s, t) /\ UNCHANGED <<issued, spmMem, spmPhase>>
      /\ \A u \in Queued : u # t => serving'[u] = serving[u]
  BY <1>1, <1>2, TakeEffect
<1>4. s = "io" /\ s \in Slots
  BY <1>1, <1>3, RequestFacts, Sets DEF SentTo
<1>5. \A u \in Queued : u # t => pc'[u] = pc[u]
  BY <1>1 DEF TypeOK
<1>6. \A q \in Slots : q # "io" => pl'[q] = pl[q]
  <2>1. CASE PutChar(t)
    BY <2>1 DEF PutChar
  <2>2. CASE pl' = Answered(pl, s, t)
    BY <1>1, <1>4, <2>2, AnsweredFacts
  <2>3. CASE t \in Inputs /\ pl' = Answered([pl EXCEPT ![s].data = NextWord(t)], s, t)
    <3>1. PICK w \in Word : w = NextWord(t)
      BY <1>1, <2>3, NextWordType
    <3>2. /\ [pl EXCEPT ![s].data = w] \in [Slots -> Payload]
          /\ \A q \in Slots : q # s => [pl EXCEPT ![s].data = w][q] = pl[q]
      BY <1>1, <1>4, DataFacts
    <3>3. PICK p \in [Slots -> Payload] : p = [pl EXCEPT ![s].data = w]
      BY <3>2
    <3>4. \A q \in Slots : q # s => pl'[q] = p[q]
      <4>1. pl' = Answered(p, s, t)
        BY <2>3, <3>1, <3>3
      <4>. QED BY <1>1, <1>4, <4>1, AnsweredFacts
    <3>. QED BY <1>4, <3>2, <3>3, <3>4
  <2>. QED BY <1>2, <2>1, <2>2, <2>3 DEF Read, Write
<1>. QED BY <1>1, <1>3, <1>5, <1>6, IoMaps

(* The scratch pad memory performs an access. *)
LEMMA SpmPerformMaps ==
  ASSUME BusInv, NEW s \in SpmPorts, SpmPerform(s)
  PROVE  [Atomic!Next]_Atomic!vars
<1>1. /\ TypeOK /\ s \in Slots /\ s \in MemSlots /\ spmPhase[s] = "asked" /\ spmReq[s] = issued[s]
      /\ In(Spm, issued[s].addr) /\ spmAnswer[s] = pl[s].data /\ ~Idle(s)
  BY Sets DEF SpmPerform, SpmMemory!Perform, BusInv, SpmRight, SpmPorts, MemSlots
<1>2. PICK a \in 0 .. Size[Spm] - 1 : a = issued[s].addr
  BY <1>1, FlatFacts DEF TypeOK, Request
<1>3. a \notin Words /\ a \in FlatAddrs /\ pl \in [Slots -> Payload]
  BY <1>1, Apart DEF TypeOK
<1>4. \A v, w, be : Overlay(v, w, be) = SpmMemory!Overlay(v, w, be)
  BY DEF Overlay, SpmMemory!Overlay
<1>5. /\ spmPhase' = [spmPhase EXCEPT ![s] = "performed"]
      /\ UNCHANGED <<issued, pc, serving, storage>> /\ pl' = [pl EXCEPT ![s].data = spmAnswer'[s]]
      /\ \/ /\ issued[s].cmd = "READ" /\ spmMem' = spmMem
            /\ spmAnswer' = [spmAnswer EXCEPT ![s] = Overlay(pl[s].data, spmMem[a], issued[s].be)]
         \/ /\ issued[s].cmd = "WRITE" /\ spmAnswer' = spmAnswer
            /\ spmMem' = [spmMem EXCEPT ![a] = Overlay(spmMem[a], issued[s].data, issued[s].be)]
  BY <1>1, <1>2, <1>4 DEF SpmPerform, SpmMemory!Perform
<1>6. /\ \A q \in Slots : q # s => pl'[q] = pl[q]
      /\ pl'[s].rsp = pl[s].rsp /\ pl'[s].data = spmAnswer'[s]
  BY <1>1, <1>3, <1>5 DEF Payload
<1>7. \A q \in Slots : Idle(q)' = Idle(q)
  BY <1>6 DEF Idle
<1>8. spmPhase'[s] = "performed" /\ \A q \in SpmPorts : q # s => spmPhase'[q] = spmPhase[q]
  BY <1>1, <1>5 DEF TypeOK
<1>9. SameOthers(s)
  <2>. SUFFICES ASSUME NEW q \in MemSlots, q # s PROVE SameSlot(q)
    BY DEF SameOthers
  <2>1. q \in Slots
    BY Sets
  <2>2. \A u \in Memories : InService(q, u)' = InService(q, u)
    BY <1>5 DEF InService
  <2>3. PhaseOf(q)' = PhaseOf(q)
    BY <1>7, <1>8, <2>1, <2>2, SamePhase
  <2>. QED BY <1>5, <1>6, <2>1, <2>3 DEF SameSlot
<1>10. PhaseOf(s) = "asked" /\ PhaseOf(s)' = "performed"
  BY <1>1, <1>7, <1>8 DEF PhaseOf
<1>11. Flat(a) = spmMem[a]
  BY <1>3 DEF Flat
<1>12. CASE /\ issued[s].cmd = "READ" /\ spmMem' = spmMem
            /\ spmAnswer' = [spmAnswer EXCEPT ![s] = Overlay(pl[s].data, spmMem[a], issued[s].be)]
  <2>1. SameMemory
    BY <1>5, <1>12 DEF SameMemory, Flat, Words
  <2>2. pl'[s].data = Overlay(pl[s].data, Flat(a), issued[s].be)
    BY <1>1, <1>6, <1>11, <1>12 DEF TypeOK
  <2>. QED BY <1>1, <1>2, <1>3, <1>5, <1>9, <1>10, <1>12, <2>1, <2>2, PerformStep
<1>13. CASE /\ issued[s].cmd = "WRITE" /\ spmAnswer' = spmAnswer
            /\ spmMem' = [spmMem EXCEPT ![a] = Overlay(spmMem[a], issued[s].data, issued[s].be)]
  <2>1. Flat(a)' = Overlay(Flat(a), issued[s].data, issued[s].be)
    BY <1>1, <1>3, <1>11, <1>13 DEF Flat, Words, TypeOK
  <2>2. \A b \in FlatAddrs : b # a => Flat(b)' = Flat(b)
    BY <1>1, <1>5, <1>13 DEF Flat, Words, TypeOK
  <2>3. pl'[s].data = pl[s].data
    BY <1>1, <1>6, <1>13
  <2>. QED BY <1>1, <1>2, <1>3, <1>5, <1>9, <1>10, <1>13, <2>1, <2>2, <2>3, PerformStep
<1>. QED BY <1>5, <1>12, <1>13

(* The scratch pad memory responds. *)
LEMMA SpmRespondMaps ==
  ASSUME BusInv, NEW s \in SpmPorts, SpmRespond(s)
  PROVE  [Atomic!Next]_Atomic!vars
<1>1. /\ TypeOK /\ s \in Slots /\ s \in MemSlots /\ spmPhase[s] = "performed" /\ ~Idle(s)
      /\ pl \in [Slots -> Payload] /\ Spm \in Targets
  BY Sets DEF SpmRespond, SpmMemory!Respond, BusInv, SpmRight, SpmPorts, MemSlots, TypeOK
<1>2. /\ spmPhase' = [spmPhase EXCEPT ![s] = "idle"]
      /\ UNCHANGED <<issued, pc, serving, storage, spmMem>>
      /\ pl' = IF s \in BusSlots THEN Answered(pl, s, Spm) ELSE [pl EXCEPT ![s].rsp = "OK"]
  BY DEF SpmRespond, SpmMemory!Respond
<1>3. /\ \A q \in Slots : q # s => pl'[q] = pl[q]
      /\ pl'[s].rsp = "OK" /\ pl'[s].data = pl[s].data
  <2>1. CASE s \in BusSlots
    BY <1>1, <1>2, <2>1, AnsweredFacts
  <2>2. CASE s \notin BusSlots
    BY <1>1, <1>2, <2>2 DEF Payload
  <2>. QED BY <2>1, <2>2
<1>4. \A q \in SpmPorts : q # s => spmPhase'[q] = spmPhase[q]
  BY <1>1, <1>2 DEF TypeOK
<1>5. SameMemory
  BY <1>2 DEF SameMemory, Flat, Words
<1>6. ASSUME NEW q \in MemSlots, q # s PROVE SameSlot(q)
  <2>1. Idle(q)' = Idle(q) /\ q \in Slots
    BY <1>3, <1>6, Sets DEF Idle
  <2>2. \A u \in Memories : InService(q, u)' = InService(q, u)
    BY <1>2 DEF InService
  <2>3. PhaseOf(q)' = PhaseOf(q)
    BY <1>4, <1>6, <2>1, <2>2, SamePhase
  <2>. QED BY <1>2, <1>3, <1>6, <2>1, <2>3 DEF SameSlot
<1>7. PhaseOf(s) = "performed" /\ PhaseOf(s)' = "idle"
  BY <1>1, <1>3 DEF PhaseOf, Idle
<1>. QED BY <1>1, <1>2, <1>3, <1>5, <1>6, <1>7, RespondStep DEF SameOthers

(* Behind all its sockets the wrapper has one flat memory: an access to it *)
(* takes effect at one instant, whichever way it goes and whatever else is *)
(* in flight.                                                              *)
THEOREM Refinement == Spec => ImplementsAtomicMemory
<1>1. Init => Atomic!Init
  <2>. SUFFICES ASSUME Init PROVE Atomic!Init
    OBVIOUS
  <2>1. \A q \in MemSlots : PhaseOf(q) = "idle"
    BY Sets DEF Init, PhaseOf, Idle
  <2>2. \A a \in FlatAddrs : Flat(a) = ZeroWord
    BY Sets DEF Init, SpmMemory!Init, FlatAddrs, Flat
  <2>. QED BY <2>1, <2>2, Sets DEF Init, Atomic!Init, FlatAddrs, Flat
<1>2. BusInv /\ [Next]_vars => [Atomic!Next]_Atomic!vars
  <2>. SUFFICES ASSUME BusInv, [Next]_vars PROVE [Atomic!Next]_Atomic!vars
    OBVIOUS
  <2>1. ASSUME NEW s \in Slots, NEW r \in Requests[s], NEW t \in Queued, Forward(s, r, t)
        PROVE  [Atomic!Next]_Atomic!vars
    BY <2>1, ForwardMaps
  <2>2. ASSUME NEW s \in Slots, NEW r \in Requests[s], ForwardToSpm(s, r) \/ Direct(s, r)
        PROVE  [Atomic!Next]_Atomic!vars
    BY <2>2, AskSpmCases, AskSpmMaps
  <2>3. ASSUME NEW s \in Slots, NEW r \in Requests[s], Unresolved(s, r)
        PROVE  [Atomic!Next]_Atomic!vars
    BY <2>3, UnresolvedMaps
  <2>4. ASSUME NEW t \in Queued, Thread(t) PROVE [Atomic!Next]_Atomic!vars
    BY <2>4, ServeMaps, RespondMaps, PeripheralMaps DEF Thread
  <2>5. ASSUME NEW s \in SpmPorts, SpmStep(s) PROVE [Atomic!Next]_Atomic!vars
    BY <2>5, SpmPerformMaps, SpmRespondMaps DEF SpmStep
  <2>6. CASE UNCHANGED vars
    <3>1. SameMemory
      BY <2>6 DEF vars, spmVars, SameMemory, Flat, Words
    <3>2. \A q \in MemSlots : SameSlot(q)
      BY <2>6 DEF vars, spmVars, SameSlot, PhaseOf, Idle
    <3>. QED BY <3>1, <3>2, StutterStep
  <2>. QED BY <2>1, <2>2, <2>3, <2>4, <2>5, <2>6 DEF Next
<1>. QED BY <1>1, <1>2, Invariance, PTL DEF Spec, ImplementsAtomicMemory, Atomic!Spec

=============================================================================
