----------------------------- MODULE MCWrapper -----------------------------
(***************************************************************************)
(* Instances of Wrapper: one code address on each route, one data address  *)
(* on d_socket and two on b_socket.  d1 and b1 designate the same word, as *)
(* a word of the data bank seen through DATA_BASE and through SPM_D_BASE.  *)
(***************************************************************************)
EXTENDS Wrapper

MCCell == [a \in {"d1", "b1", "b2"} |-> IF a = "b2" THEN 2 ELSE 1]
=============================================================================
