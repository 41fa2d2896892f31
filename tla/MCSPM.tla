------------------------------- MODULE MCSPM -------------------------------
(***************************************************************************)
(* Instances of SPM for TLC.  Three ports as on the platform (instruction, *)
(* data, bus), with the priority values of sc_main (4, 3, 2); banks of one *)
(* and two words; words of two byte lanes.                                 *)
(***************************************************************************)
EXTENDS SPM

MCPrio  == [p \in 0 .. 2 |-> 4 - p]
MCSizes == [b \in 0 .. 1 |-> b + 1]
MCBase  == [b \in 0 .. 1 |-> b]

W(x, y) == [l \in {1, 2} |-> IF l = 1 THEN x ELSE y]
Read(a) == [cmd |-> "READ", addr |-> a, be |-> {1, 2}, data |-> W(0, 0)]
Write(a, be, w) == [cmd |-> "WRITE", addr |-> a, be |-> be, data |-> w]

(* The instruction port fetches; the data port writes one byte, the bus    *)
(* port both; both banks have a writer and a reader on another port.       *)
MCRequests ==
  [p \in 0 .. 2 |->
     CASE p = 0 -> {Read(a) : a \in {0, 2}}
       [] p = 1 -> {Read(2), Read(4), Write(0, {1}, W(1, 1)), Write(1, {1}, W(1, 1))}
       [] p = 2 -> {Read(1), Write(0, {1, 2}, W(0, 1))}]

(* Priorities: contents do not matter, only who competes for which bank.   *)
R1(a) == [cmd |-> "READ", addr |-> a, be |-> {1}, data |-> [l \in {1} |-> 0]]
MCLiveRequests == [p \in 0 .. 2 |-> {R1(0), R1(1)}]

(* Address 3 is one past the last word of the memory.                      *)
MCEdgeRequests == [p \in 0 .. 2 |-> {R1(2), R1(3)}]

(***************************************************************************)
(* What dycton_doc.tex says of the three interfaces: fetch has the highest *)
(* priority.  A bank that starts an access takes the request of port 0,    *)
(* the one cpu.i_socket is bound to, whenever there is one for it.         *)
(***************************************************************************)
FetchFirst ==
  [][\A b \in Banks : pc[b] # "access" /\ pc'[b] = "access" /\ 0 \in Pending(b)
       => target'[b] = 0]_vars
=============================================================================
