----------------------------- MODULE Dispatcher -----------------------------
(***************************************************************************)
(* The allocator library of dycton (libdycton.c): malloc, calloc, realloc  *)
(* and free over a fast heap 0 and a slow heap 1, each a DLMalloc, and the *)
(* log of heap objects that the platform keeps from what the library       *)
(* writes to the helper (helper.cpp, log_trace.cpp).                       *)
(*                                                                         *)
(* A call is one step, except realloc, which logs the new object before it *)
(* frees the old one: freeing is then the old one.  init_multi_heap, run   *)
(* by the first request, is part of Init: a free before it finds no heap.  *)
(***************************************************************************)
EXTENDS Integers, FiniteSets, FiniteSetsExt

CONSTANTS
  Strategies,   (* the strategies considered                               *)
  HEAP_BASE,    (* first address of heap 0; heap 1 follows it              *)
  HEAP_0_SIZE, HEAP_1_SIZE,
  Word,         (* 2^w, for the w-bit words of the processor               *)
  Sizes,        (* the sizes the program passes                            *)
  Counts,       (* the numbers of elements it passes to calloc             *)
  Foreign,      (* addresses of no heap that it frees                      *)
  MaxLive       (* bound: blocks in use at once                            *)

HEAP_COUNT == 2
HEAP_1_BASE == HEAP_BASE + HEAP_0_SIZE
HeapEnd == HEAP_1_BASE + HEAP_1_SIZE
NULL == 0

ASSUME DispatcherAssumption ==
  /\ Strategies \subseteq {"DEFAULT", "ORACLE", "PROFILE"}
  /\ HEAP_BASE \in Nat \ {0} /\ HEAP_BASE % 8 = 0
  /\ \A size \in {HEAP_0_SIZE, HEAP_1_SIZE} : size \in Nat /\ size % 16 = 0 /\ size > 16
  /\ Word \in Nat /\ Word % 16 = 0 /\ HeapEnd < Word
  /\ Sizes \subseteq 0 .. Word - 1 /\ Counts \subseteq 0 .. Word - 1
  /\ Foreign \subseteq (1 .. Word - 1) \ (HEAP_BASE .. HeapEnd)
  /\ MaxLive \in Nat

VARIABLES
  strategy,       (* what ALLOCATOR_STRATEGY reads                         *)
  ctx0, live0,    (* multi_heap_ctx[0] and the blocks in use of that heap  *)
  ctx1, live1,    (* the same of heap 1                                    *)
  freeing,        (* the object realloc has yet to free, or NULL           *)
  fallbacked,     (* register of the helper                                *)
  m_log_obj_map,  (* objects of the log, by address                        *)
  status          (* "running", or how the program stopped                 *)

heap0 == <<ctx0, live0>>
heap1 == <<ctx1, live1>>
vars == <<strategy, heap0, heap1, freeing, fallbacked, m_log_obj_map, status>>

(* calloc multiplies in a word.                                            *)
CallocSize(num, size) == (size * num) % Word

Requests == Sizes \cup {CallocSize(num, size) : num \in Counts, size \in Sizes}

Fast == INSTANCE DLMalloc WITH
  heap_base <- HEAP_BASE, heap_max_size <- HEAP_0_SIZE, alloc_context <- ctx0, live <- live0

Slow == INSTANCE DLMalloc WITH
  heap_base <- HEAP_1_BASE, heap_max_size <- HEAP_1_SIZE, alloc_context <- ctx1, live <- live1

(* The map f, with v for x; f without x.                                   *)
With(f, x, v) == [y \in DOMAIN f \cup {x} |-> IF y = x THEN v ELSE f[y]]
Without(f, x) == [y \in DOMAIN f \ {x} |-> f[y]]

(* The blocks in use of both heaps.                                        *)
InUse ==
  [ptr \in DOMAIN live0 \cup DOMAIN live1 |->
     IF ptr \in DOMAIN live0 THEN live0[ptr] ELSE live1[ptr]]

(***************************************************************************)
(* The log of objects.                                                     *)
(***************************************************************************)

(* A write to ALLOC_ADDR, with the sizes and flags written before it.      *)
log_malloc(addr, size, fallback) ==
  /\ m_log_obj_map' = With(m_log_obj_map, addr, [size |-> size, fallback |-> fallback])
  /\ fallbacked' = 0

(* A write to FREE_SIZE.  The free of an unknown address is only counted.  *)
log_free(addr) == m_log_obj_map' = Without(m_log_obj_map, addr)

(* Mutant: the search for the next object starts at the address itself. *)
AccessedLow(addr) ==
  LET after == {p \in DOMAIN m_log_obj_map : p >= addr}
      before == DOMAIN m_log_obj_map \ after
      End(p) == p + m_log_obj_map[p].size
  IN IF before # {} /\ (after # {} \/ End(Max(before)) > addr)
     THEN {Max(before)} \cap {p \in before : addr < End(p)}
     ELSE {}

(* log_access: the object, if any, to which an access at addr is counted.  *)
Accessed(addr) ==
  LET after == {p \in DOMAIN m_log_obj_map : p > addr}
      before == DOMAIN m_log_obj_map \ after
      End(p) == p + m_log_obj_map[p].size
  IN IF before # {} /\ (after # {} \/ End(Max(before)) > addr)
     THEN {Max(before)} \cap {p \in before : addr < End(p)}
     ELSE {}

(***************************************************************************)
(* Requests.                                                               *)
(***************************************************************************)
newlib_malloc(h, sz) == IF h = 0 THEN Fast!mALLOc(sz) ELSE Slow!mALLOc(sz)

(* Blocks that this step takes from heap h.                                *)
Taken(h) ==
  IF h = 0 THEN DOMAIN live0' \ DOMAIN live0 ELSE DOMAIN live1' \ DOMAIN live1

(* Mutant: both heaps serve the request. *)
PlaceTwice(sz, first) ==
  /\ newlib_malloc(first, sz)
  /\ newlib_malloc(1 - first, sz)

(* Heap first is asked, the other one if it has no room.                   *)
Place(sz, first) ==
  /\ newlib_malloc(first, sz)
  /\ IF Taken(first) # {}
     THEN IF first = 0 THEN UNCHANGED heap1 ELSE UNCHANGED heap0
     ELSE newlib_malloc(1 - first, sz)

returnPointer == Max({NULL} \cup Taken(0) \cup Taken(1))

(* The flag of the helper: a heap that refuses is told to it.              *)
Fallback(first) == IF Taken(first) = {} THEN 1 ELSE fallbacked

(* The heap asked first: the fast one, the next prediction of the oracle,  *)
(* or that of the allocation site, by its rank in the profile.             *)
FirstHeaps == IF strategy = "DEFAULT" THEN {0} ELSE {0, 1}

(* The oracle strategy does not hand out NULL: it exits.                   *)
GivesUp == strategy = "ORACLE" /\ returnPointer = NULL

(* The program stops, or is no longer what was compiled, before the log    *)
(* is told of the request.                                                 *)
Stop(how, first) ==
  /\ status' = how
  /\ fallbacked' = Fallback(first)
  /\ UNCHANGED <<strategy, freeing, m_log_obj_map>>

Return(sz, first, old) ==
  /\ log_malloc(returnPointer, sz, Fallback(first))
  /\ freeing' = old
  /\ UNCHANGED <<strategy, status>>

malloc(sz) ==
  \E first \in FirstHeaps :
    /\ Place(sz, first)
    /\ IF GivesUp THEN Stop("exit", first) ELSE Return(sz, first, NULL)

(* memset does not look at the pointer: at address 0 the bus has the bank  *)
(* of the program's code.                                                  *)
calloc(num, size) ==
  LET sz == CallocSize(num, size)
  IN \E first \in FirstHeaps :
       /\ Place(sz, first)
       /\ IF GivesUp THEN Stop("exit", first)
          ELSE IF returnPointer = NULL /\ sz > 0 THEN Stop("corrupted", first)
          ELSE Return(sz, first, NULL)

(* memcpy reads sz bytes of the old object, however small it was.  The     *)
(* scratch pad memory, whose last bank is heap 1, stops the simulation at  *)
(* an access beyond the word that follows it.                              *)
realloc(ptr, sz) ==
  \E first \in FirstHeaps :
    /\ Place(sz, first)
    /\ IF GivesUp THEN Stop("exit", first)
       ELSE IF ptr # NULL /\ ptr + sz > HeapEnd + 4 THEN Stop("abort", first)
       ELSE IF ptr # NULL /\ returnPointer = NULL /\ sz > 0 THEN Stop("corrupted", first)
       ELSE Return(sz, first, ptr)

(* The oracle has no prediction left, or names a heap that the             *)
(* architecture does not have.                                             *)
NoPrediction ==
  /\ strategy = "ORACLE"
  /\ status' = "exit"
  /\ UNCHANGED <<strategy, heap0, heap1, freeing, fallbacked, m_log_obj_map>>

(***************************************************************************)
(* free.                                                                   *)
(***************************************************************************)
base_of(i) == IF i = 0 THEN HEAP_BASE ELSE HEAP_1_BASE
end_of(i) == IF i = 0 THEN ctx0.heap_end ELSE ctx1.heap_end

(* Mutant: the last heap is not looked at. *)
OwnersButLast(ptr) ==
  {i \in 0 .. HEAP_COUNT - 2 : base_of(i) <= ptr /\ ptr <= end_of(i)}

(* Heaps whose memory holds ptr.                                           *)
Owners(ptr) ==
  {i \in 0 .. HEAP_COUNT - 1 : base_of(i) <= ptr /\ ptr <= end_of(i)}

(* The first owner takes the block back; a pointer of no heap is ignored.  *)
free(ptr) ==
  /\ \/ /\ 0 \in Owners(ptr)
        /\ Fast!fREe(ptr) /\ UNCHANGED heap1
     \/ /\ Owners(ptr) = {1}
        /\ Slow!fREe(ptr) /\ UNCHANGED heap0
     \/ /\ Owners(ptr) = {}
        /\ UNCHANGED <<heap0, heap1>>
  /\ log_free(ptr)
  /\ UNCHANGED <<strategy, fallbacked, status>>

(* Mutant: the old object is not forgotten, and is freed again. *)
FinishReallocAgain == freeing # NULL /\ free(freeing) /\ UNCHANGED freeing

(* realloc frees the old object when the new one is in the log.            *)
FinishRealloc == freeing # NULL /\ free(freeing) /\ freeing' = NULL

(***************************************************************************)
(* The library and its program.                                            *)
(***************************************************************************)
Init ==
  /\ strategy \in Strategies
  /\ Fast!Init /\ Slow!Init
  /\ freeing = NULL
  /\ fallbacked = 0
  /\ m_log_obj_map = << >>
  /\ status = "running"

Request ==
  /\ Cardinality(DOMAIN InUse) < MaxLive
  /\ \/ \E sz \in Sizes : malloc(sz)
     \/ \E num \in Counts, size \in Sizes : calloc(num, size)
     \/ \E ptr \in DOMAIN InUse \cup {NULL}, sz \in Sizes : realloc(ptr, sz)
     \/ NoPrediction

Free == \E ptr \in DOMAIN InUse \cup {NULL} \cup Foreign : free(ptr) /\ UNCHANGED freeing

Next ==
  /\ status = "running"
  /\ \/ freeing = NULL /\ (Request \/ Free)
     \/ FinishRealloc

Spec == Init /\ [][Next]_vars

(***************************************************************************)
(* Properties.                                                             *)
(***************************************************************************)

(* The variables have their types, each block in use is in the heap that   *)
(* counts it, and the object that realloc has yet to free is in use.       *)
TypeOK ==
  /\ strategy \in Strategies
  /\ DOMAIN live0 \subseteq HEAP_BASE .. HEAP_1_BASE - 1
  /\ DOMAIN live1 \subseteq HEAP_1_BASE .. HeapEnd - 1
  /\ freeing \in DOMAIN InUse \cup {NULL}
  /\ fallbacked \in {0, 1}
  /\ m_log_obj_map \in [DOMAIN m_log_obj_map -> [size : Requests, fallback : {0, 1}]]
  /\ status \in {"running", "exit", "abort", "corrupted"}

(* The log of the platform agrees with the heaps: while the program runs,  *)
(* its objects are the blocks in use of both heaps, with the sizes asked,  *)
(* beside at most one object at address 0 for requests that failed; with   *)
(* the default strategy an object is marked as fallen back exactly when it *)
(* is in the slow heap, or nowhere.                                        *)
LogMatchesHeaps ==
  status = "running" =>
    /\ DOMAIN m_log_obj_map \ {NULL} = DOMAIN InUse
    /\ \A ptr \in DOMAIN InUse : m_log_obj_map[ptr].size = InUse[ptr]
    /\ strategy = "DEFAULT" =>
         \A ptr \in DOMAIN m_log_obj_map :
           m_log_obj_map[ptr].fallback = 1 <=> ptr \notin DOMAIN live0

(* Every access to a byte of a block in use is counted to that block, and  *)
(* to no neighbour, which is what the experiments compute from the log.    *)
AccessesAttributed ==
  status = "running" =>
    \A ptr \in DOMAIN InUse : \A addr \in ptr .. ptr + InUse[ptr] - 1 : Accessed(addr) = {ptr}

(* The two heaps look like one to the program: a request gets one block,   *)
(* disjoint from all others, whichever heap serves it, and a free gives    *)
(* back the block it names; realloc is a request and then a free.          *)
OneHeap ==
  INSTANCE BlockHeap WITH Base <- HEAP_BASE, Size <- HEAP_0_SIZE + HEAP_1_SIZE,
                          Alignment <- 8, Sizes <- Requests, live <- InUse

ImplementsOneHeap == OneHeap!Spec

(***************************************************************************)
(* What comments and messages of the code say.                             *)
(***************************************************************************)

(* libdycton.c of realloc: "copy back the full size, should not break      *)
(* anything".  Only the copy of realloc can make the simulation abort.     *)
ReallocBreaksNothing == status # "abort"
=============================================================================
