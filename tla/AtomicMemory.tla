---------------------------- MODULE AtomicMemory ----------------------------
(***************************************************************************)
(* What a multi-port memory promises to its initiators, whatever its banks *)
(* and its arbitration: one flat array of words, on which every access     *)
(* takes effect at one instant between its request and its response, and a *)
(* response gives the initiator the words as they were at that instant.    *)
(***************************************************************************)
EXTENDS Integers

CONSTANTS
  Ports,       (* the ports                                      *)
  Addrs,       (* the word addresses                             *)
  Lanes,       (* byte lanes of a word                           *)
  Requests,    (* for each port, what may be asked there         *)
  ZeroWord     (* initial content of a word                      *)

VARIABLES
  mem,         (* the array                                      *)
  phase,       (* each port is "idle", "asked" or "performed"    *)
  req,         (* the last request of each port                  *)
  answer       (* the data handed back with the response         *)

vars == <<mem, phase, req, answer>>

Overlay(old, new, lanes) == [l \in Lanes |-> IF l \in lanes THEN new[l] ELSE old[l]]

Init ==
  /\ mem = [a \in Addrs |-> ZeroWord]
  /\ phase = [p \in Ports |-> "idle"]
  /\ req = [p \in Ports |-> [cmd |-> "READ", addr |-> 0, be |-> {}, data |-> ZeroWord]]
  /\ answer = [p \in Ports |-> ZeroWord]

(* The initiator of an idle port asks; the answer starts as its data.      *)
Ask(p, r) ==
  /\ phase[p] = "idle" /\ r.addr \in Addrs
  /\ phase' = [phase EXCEPT ![p] = "asked"]
  /\ req' = [req EXCEPT ![p] = r]
  /\ answer' = [answer EXCEPT ![p] = r.data]
  /\ UNCHANGED mem

(* A request outside the array is refused and has no effect.               *)
Refuse(p, r) ==
  /\ phase[p] = "idle" /\ r.addr \notin Addrs
  /\ req' = [req EXCEPT ![p] = r]
  /\ answer' = [answer EXCEPT ![p] = r.data]
  /\ UNCHANGED <<mem, phase>>

(* The access takes effect. *)
Perform(p) ==
  /\ phase[p] = "asked"
  /\ phase' = [phase EXCEPT ![p] = "performed"]
  /\ \/ /\ req[p].cmd = "READ"
        /\ answer' = [answer EXCEPT ![p] = Overlay(@, mem[req[p].addr], req[p].be)]
        /\ UNCHANGED mem
     \/ /\ req[p].cmd = "WRITE"
        /\ mem' = [mem EXCEPT ![req[p].addr] = Overlay(@, req[p].data, req[p].be)]
        /\ UNCHANGED answer
  /\ UNCHANGED req

(* The response reaches the initiator. *)
Respond(p) ==
  /\ phase[p] = "performed"
  /\ phase' = [phase EXCEPT ![p] = "idle"]
  /\ UNCHANGED <<mem, req, answer>>

Next ==
  \E p \in Ports :
    \/ \E r \in Requests[p] : Ask(p, r) \/ Refuse(p, r)
    \/ Perform(p)
    \/ Respond(p)

Spec == Init /\ [][Next]_vars
=============================================================================
