----------------------------- MODULE BlockHeap -----------------------------
(***************************************************************************)
(* What a heap promises to the program that uses it, whatever lists and    *)
(* headers it keeps: a request is answered with an aligned block of the    *)
(* heap that overlaps no block still in use, or refused; only the program  *)
(* gives blocks back.                                                      *)
(***************************************************************************)
EXTENDS Integers

CONSTANTS
  Base,        (* first address of the heap                      *)
  Size,        (* its size in bytes                              *)
  Alignment,   (* of every block                                 *)
  Sizes        (* the sizes a program may ask for                *)

VARIABLE live  (* address of each block in use -> bytes asked    *)

Bytes(p, n) == p .. p + n - 1

(* Where a block of n bytes may be placed.                                 *)
Places(n) ==
  {p \in Base .. Base + Size - n :
     /\ p % Alignment = 0
     /\ \A q \in DOMAIN live : p + n <= q \/ q + live[q] <= p}

Init == live = << >>

Malloc(n) ==
  \E p \in Places(n) :
    live' = [q \in DOMAIN live \cup {p} |-> IF q = p THEN n ELSE live[q]]

Free(p) == live' = [q \in DOMAIN live \ {p} |-> live[q]]

Next == (\E n \in Sizes : Malloc(n)) \/ (\E p \in DOMAIN live : Free(p))

Spec == Init /\ [][Next]_live
=============================================================================
