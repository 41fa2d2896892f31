------------------------------ MODULE DLMalloc ------------------------------
(***************************************************************************)
(* One heap of dycton's allocator (newlib_malloc.c, libdycton.h): chunks   *)
(* with boundary tags, 128 bins, the top chunk, the last remainder, and    *)
(* the biggest-free-block size that makes hopeless requests fail early.    *)
(*                                                                         *)
(* Addresses are byte addresses.  head[p] is the struct malloc_chunk at p, *)
(* kept for the chunks that exist: a header that a merge leaves behind     *)
(* inside a larger chunk is dropped.  prev_size belongs to the program     *)
(* while the chunk before p is in use; it is then 0 here, and no step      *)
(* reads it.  The links fd and bk are the order of the sequences in bins:  *)
(* first(b) is Head, last(b) is the last element.                          *)
(*                                                                         *)
(* The allocator runs on one processor and is never interrupted, so a call *)
(* is one step.                                                            *)
(***************************************************************************)
EXTENDS Integers, Sequences, FiniteSets, SequencesExt

CONSTANTS
  heap_base,      (* first address of the heap                             *)
  heap_max_size,  (* its size in bytes                                     *)
  Word,           (* 2^w, for the w-bit words of the processor             *)
  Requests,       (* the sizes the program asks for                        *)
  MaxLive         (* bound: blocks in use at once                          *)

ASSUME HeapAssumption ==
  /\ heap_base \in Nat \ {0} /\ heap_base % 8 = 0
  /\ heap_max_size \in Nat /\ heap_max_size % 4 = 0 /\ heap_max_size > 16
  /\ Word \in Nat /\ Word % 16 = 0 /\ heap_base + heap_max_size < Word
  /\ Requests \subseteq 0 .. Word - 1
  /\ MaxLive \in Nat

VARIABLES
  alloc_context,  (* the Heap_ctx of this heap                             *)
  live            (* history: block -> bytes asked, for each block in use  *)

vars == <<alloc_context, live>>

SIZE_SZ == 4
MINSIZE == 16
MALLOC_ALIGNMENT == 8
MAX_SMALLBIN_SIZE == 512
SMALLBIN_WIDTH == 8
BINBLOCKWIDTH == 4
INT_MAX == Word \div 2 - 1
NoChunk == 0

Bins == 2 .. 127

chunk2mem(p) == p + 2 * SIZE_SZ
mem2chunk(ptr) == ptr - 2 * SIZE_SZ

(***************************************************************************)
(* Sizes and bins.                                                         *)
(***************************************************************************)

(* Mutant: no room for the size field of the chunk. *)
request2sizeBare(req) ==
  LET padded == (req + MALLOC_ALIGNMENT - 1) % Word
  IN IF padded < MINSIZE + MALLOC_ALIGNMENT - 1
     THEN MINSIZE
     ELSE padded - (padded % MALLOC_ALIGNMENT)

(* The sum is computed in a word: a request near 2^w wraps around.         *)
request2size(req) ==
  LET padded == (req + SIZE_SZ + MALLOC_ALIGNMENT - 1) % Word
  IN IF padded < MINSIZE + MALLOC_ALIGNMENT - 1
     THEN MINSIZE
     ELSE padded - (padded % MALLOC_ALIGNMENT)

is_small_request(nb) == nb < MAX_SMALLBIN_SIZE - SMALLBIN_WIDTH
smallbin_index(sz) == sz \div SMALLBIN_WIDTH

bin_index(sz) ==
  LET h == sz \div 512
  IN CASE h = 0                  -> sz \div 8
       [] 0 < h /\ h <= 4        -> 56 + sz \div 64
       [] 4 < h /\ h <= 20       -> 91 + sz \div 512
       [] 20 < h /\ h <= 84      -> 110 + sz \div 4096
       [] 84 < h /\ h <= 340     -> 119 + sz \div 32768
       [] 340 < h /\ h <= 1364   -> 124 + sz \div 262144
       [] OTHER                  -> 126

idx2binblock(i) == i \div BINBLOCKWIDTH

(***************************************************************************)
(* Chunks and lists of a context c.                                        *)
(***************************************************************************)
chunksize(c, p) == IF p = NoChunk THEN 0 ELSE c.head[p].size

(* The header of a chunk of n bytes behind one that is the program's.      *)
Header(n) == [prev_size |-> 0, size |-> n, prev_inuse |-> TRUE]

(* The map f, with v for x.                                                *)
Bind(f, x, v) == [y \in DOMAIN f \cup {x} |-> IF y = x THEN v ELSE f[y]]

(* Mutant: the chunk behind is not told. *)
SetInuseSilently(c, p) == c

(* p becomes, or stays, in use: the foot of p is the program's again.      *)
SetInuse(c, p) ==
  [c EXCEPT !.head[p + c.head[p].size] = [@ EXCEPT !.prev_inuse = TRUE, !.prev_size = 0]]

(* Take p off the list it is on, a bin or that of the last remainder.      *)
unlink(c, p) ==
  [c EXCEPT !.bins = [i \in Bins |-> RemoveFirst(c.bins[i], p)],
            !.last_remainder = IF @ = p THEN NoChunk ELSE @]

(* Put p in its bin ahead of the chunks of its size, behind larger ones.   *)
frontlink(c, p) ==
  LET s == chunksize(c, p)
      i == bin_index(s)
      larger == Cardinality({j \in DOMAIN c.bins[i] : s < chunksize(c, c.bins[i][j])})
  IN [c EXCEPT !.bins[i] = InsertAt(@, larger + 1, p),
               !.binblocks = IF s < MAX_SMALLBIN_SIZE \/ c.bins[i] = << >>
                             THEN @ \cup {idx2binblock(i)} ELSE @]

(* Cut nb bytes off the front of the free chunk p for the program; what is *)
(* left becomes the last remainder.                                        *)
Split(c, p, nb) ==
  LET r == p + nb
      rem == chunksize(c, p) - nb
      end == p + chunksize(c, p)
      cut == [c.head EXCEPT ![p].size = nb, ![p].prev_inuse = TRUE,
                            ![end].prev_size = rem]
  IN [c EXCEPT !.head = Bind(cut, r, Header(rem)),
               !.last_remainder = r]

(***************************************************************************)
(* malloc.                                                                 *)
(***************************************************************************)

(* The chunk of bin i met first from its end that holds nb bytes, as a set *)
(* of at most one chunk.                                                   *)
FirstFit(c, i, nb) ==
  LET fits == {j \in DOMAIN c.bins[i] : chunksize(c, c.bins[i][j]) >= nb}
  IN IF fits = {} THEN {} ELSE {c.bins[i][Max(fits)]}

(* Small requests look at the end of two bins, whose sizes they know;      *)
(* large ones take a chunk of their bin that leaves too little to split.   *)
ExactFit(c, nb) ==
  IF is_small_request(nb)
  THEN LET i == smallbin_index(nb)
           q == IF c.bins[i] # << >> THEN i ELSE i + 1
       IN IF c.bins[q] # << >> THEN {c.bins[q][Len(c.bins[q])]} ELSE {}
  ELSE {p \in FirstFit(c, bin_index(nb), nb) : chunksize(c, p) - nb < MINSIZE}

(* Mutant: one bin too many is skipped after the two of the exact search. *)
ScanStartLate(c, nb) ==
  IF is_small_request(nb) THEN smallbin_index(nb) + 3
  ELSE IF FirstFit(c, bin_index(nb), nb) # {} THEN bin_index(nb)
  ELSE bin_index(nb) + 1

(* Where the scan of the bins starts when there is no exact fit.           *)
ScanStart(c, nb) ==
  IF is_small_request(nb) THEN smallbin_index(nb) + 2
  ELSE IF FirstFit(c, bin_index(nb), nb) # {} THEN bin_index(nb)
  ELSE bin_index(nb) + 1

TooBig(bytes) == request2size(bytes) > INT_MAX \/ request2size(bytes) < bytes

(* The early failure: no free block is thought to be big enough.           *)
Hopeless(c, nb) == nb + MINSIZE >= c.bfbs

(* The last remainder, too small for nb, is filed in its bin.              *)
FileRemainder(c) ==
  IF c.last_remainder = NoChunk THEN c
  ELSE frontlink([c EXCEPT !.last_remainder = NoChunk], c.last_remainder)

(* Bins of marked blocks, from the start of the scan on, that have a fit.  *)
Hits(c, nb, start) ==
  {i \in Bins : i >= start /\ idx2binblock(i) \in c.binblocks /\ FirstFit(c, i, nb) # {}}

(* Mutant: the bins of the block below the first scanned one are forgotten. *)
ScannedCarelessly(c, nb, start) ==
  LET hits == Hits(c, nb, start)
      Left(b) == b >= idx2binblock(start) /\ (hits # {} => b < idx2binblock(Min(hits)))
  IN [c EXCEPT !.binblocks = {b \in @ : ~Left(b)}]

(* The scan clears the bit of a block it leaves without a fit, unless a    *)
(* bin of the block below the first scanned one has chunks.                *)
Scanned(c, nb, start) ==
  LET hits == Hits(c, nb, start)
      Left(b) == /\ b >= idx2binblock(start)
                 /\ hits # {} => b < idx2binblock(Min(hits))
                 /\ \A i \in Bins : idx2binblock(i) = b /\ i < start => c.bins[i] = << >>
  IN [c EXCEPT !.binblocks = {b \in @ : ~Left(b)}]

(* Mutant: the whole heap is asked of sbrk. *)
extend_top_whole(c) ==
  [c EXCEPT !.heap_end = heap_base + heap_max_size,
            !.top = heap_base,
            !.head = Bind(@, heap_base, Header(heap_max_size))]

(* All of the heap but one word is asked of sbrk, once.                    *)
malloc_extend_top(c) ==
  [c EXCEPT !.heap_end = heap_base + heap_max_size - 4,
            !.top = heap_base,
            !.head = Bind(@, heap_base, Header(heap_max_size - 4))]

TopFits(c, nb) == chunksize(c, c.top) >= nb + MINSIZE

Extended(c, nb) ==
  IF ~TopFits(c, nb) /\ c.heap_end = 0 THEN malloc_extend_top(c) ELSE c

(* After a failure the biggest free block is looked up, in the top and in  *)
(* the bins of chunks of at least 512 bytes.                               *)
NoteBiggest(c) ==
  LET big == {i \in 64 .. 127 : c.bins[i] # << >>}
      top_size == chunksize(c, c.top)
  IN [c EXCEPT !.bfbs =
        IF big = {} THEN top_size
        ELSE Max({top_size, chunksize(c, Head(c.bins[Max(big)]))})]

(* nb bytes off the front of the top.                                      *)
CutTop(c, nb) ==
  [c EXCEPT !.head = Bind(Bind(@, c.top, Header(nb)), c.top + nb,
                          Header(chunksize(c, c.top) - nb)),
            !.top = c.top + nb]

(* The call hands the chunk p of the context c to the program.             *)
Allocate(c, p, bytes) ==
  /\ alloc_context' = c
  /\ live' = Bind(live, chunk2mem(p), bytes)

Refuse(bytes) ==
  /\ TooBig(bytes) \/ Hopeless(alloc_context, request2size(bytes))
  /\ UNCHANGED vars

(* Mutant: the chunk stays in its bin. *)
TakeExactLinked(bytes) ==
  LET c == alloc_context
      nb == request2size(bytes)
  IN \E p \in ExactFit(c, nb) : Allocate(SetInuse(c, p), p, bytes)

TakeExact(bytes) ==
  LET c == alloc_context
      nb == request2size(bytes)
  IN \E p \in ExactFit(c, nb) : Allocate(SetInuse(unlink(c, p), p), p, bytes)

TakeRemainder(bytes) ==
  LET c == alloc_context
      nb == request2size(bytes)
      p == c.last_remainder
  IN /\ ExactFit(c, nb) = {}
     /\ p # NoChunk /\ chunksize(c, p) >= nb
     /\ IF chunksize(c, p) - nb >= MINSIZE
        THEN Allocate(Split(c, p, nb), p, bytes)
        ELSE Allocate(SetInuse(unlink(c, p), p), p, bytes)

(* Best fit, then the top, then failure.                                   *)
Search(bytes) ==
  LET nb == request2size(bytes)
      start == ScanStart(alloc_context, nb)
      c == FileRemainder(alloc_context)
      hits == Hits(c, nb, start)
      s == Scanned(c, nb, start)
  IN IF hits # {}
     THEN \E p \in FirstFit(c, Min(hits), nb) :
            IF chunksize(c, p) - nb >= MINSIZE
            THEN Allocate(Split(unlink(s, p), p, nb), p, bytes)
            ELSE Allocate(SetInuse(unlink(s, p), p), p, bytes)
     ELSE LET t == Extended(s, nb)
          IN IF TopFits(t, nb)
             THEN Allocate(CutTop(t, nb), t.top, bytes)
             ELSE alloc_context' = NoteBiggest(t) /\ UNCHANGED live

mALLOc(bytes) ==
  LET nb == request2size(bytes)
      c == alloc_context
  IN \/ Refuse(bytes)
     \/ /\ ~TooBig(bytes) /\ ~Hopeless(c, nb)
        /\ \/ TakeExact(bytes)
           \/ TakeRemainder(bytes)
           \/ /\ ExactFit(c, nb) = {}
              /\ c.last_remainder # NoChunk => chunksize(c, c.last_remainder) < nb
              /\ Search(bytes)

(***************************************************************************)
(* free.                                                                   *)
(***************************************************************************)

(* The chunk at p takes over everything up to the end of the chunk q.      *)
Absorb(c, p, q) ==
  [c EXCEPT !.head = [a \in DOMAIN c.head \ {b \in DOMAIN c.head : p < b /\ b <= q} |->
                        IF a = p THEN Header(q + c.head[q].size - p) ELSE c.head[a]]]

(* The free chunk before p, or p itself.                                   *)
Backward(c, p) ==
  IF c.head[p].prev_inuse THEN p ELSE p - c.head[p].prev_size

(* Mutant: no merge forward. *)
ForwardNever(c, p) == p

(* The free chunk behind p, or p itself.                                   *)
Forward(c, p) ==
  LET next == p + chunksize(c, p)
  IN IF c.head[next + chunksize(c, next)].prev_inuse THEN p ELSE next

(* Mutant: free does not look at the size of what it has merged. *)
NoteFreedNot(c, p) == c

NoteFreed(c, p) == [c EXCEPT !.bfbs = Max({@, chunksize(c, p)})]

(* p borders the top: it becomes the top, with the free chunk before it.   *)
FreeIntoTop(c, p) ==
  LET first == Backward(c, p)
      kept == IF first = p THEN c ELSE unlink(c, first)
  IN NoteFreed([Absorb(kept, first, c.top) EXCEPT !.top = first], first)

(* p is merged with its free neighbours and filed, or takes the place of   *)
(* the last remainder when it has merged with it.                          *)
FreeIntoBin(c, p) ==
  LET first == Backward(c, p)
      last == Forward(c, p)
      merged == Absorb(unlink(unlink(c, first), last), first, last)
      end == first + chunksize(merged, first)
      footed == [merged EXCEPT !.head[end] =
                   [@ EXCEPT !.prev_size = chunksize(merged, first), !.prev_inuse = FALSE]]
      filed == IF c.last_remainder \in {first, last}
               THEN [footed EXCEPT !.last_remainder = first]
               ELSE frontlink(footed, first)
  IN NoteFreed(filed, first)

fREe(ptr) ==
  LET c == alloc_context
      p == mem2chunk(ptr)
  IN /\ alloc_context' = IF p + chunksize(c, p) = c.top
                         THEN FreeIntoTop(c, p) ELSE FreeIntoBin(c, p)
     /\ live' = [q \in DOMAIN live \ {ptr} |-> live[q]]

(***************************************************************************)
(* The heap and its program.                                               *)
(***************************************************************************)
Init ==
  /\ alloc_context = [head |-> << >>, bins |-> [i \in Bins |-> << >>], binblocks |-> {},
                      top |-> NoChunk, last_remainder |-> NoChunk, heap_end |-> 0,
                      bfbs |-> heap_max_size]
  /\ live = << >>

Malloc ==
  /\ Cardinality(DOMAIN live) < MaxLive
  /\ \E bytes \in Requests : mALLOc(bytes)

Free == \E ptr \in DOMAIN live : fREe(ptr)

Next == Malloc \/ Free

Spec == Init /\ [][Next]_vars

(***************************************************************************)
(* Properties.                                                             *)
(***************************************************************************)
ctx == alloc_context
Chunks == DOMAIN ctx.head
EndOf(p) == p + chunksize(ctx, p)
InUse == {mem2chunk(ptr) : ptr \in DOMAIN live}
FreeChunks == Chunks \ (InUse \cup {ctx.top})

(* The context and the history have their types: headers of chunks of the  *)
(* heap, lists of chunks, known blocks of bins.                            *)
TypeOK ==
  /\ Chunks \subseteq heap_base .. heap_base + heap_max_size
  /\ ctx.head \in [Chunks -> [prev_size : 0 .. heap_max_size, size : 0 .. heap_max_size,
                              prev_inuse : BOOLEAN]]
  /\ \A i \in Bins : ctx.bins[i] \in Seq(Chunks)
  /\ ctx.binblocks \subseteq 0 .. 31
  /\ {ctx.top, ctx.last_remainder} \subseteq Chunks \cup {NoChunk}
  /\ ctx.heap_end \in {0, heap_base + heap_max_size - 4}
  /\ ctx.bfbs \in 0 .. heap_max_size
  /\ live \in [DOMAIN live -> Requests]

(* Boundary tags: every chunk ends where another begins, the last one, the *)
(* top, at the end of the heap; a chunk's prev_inuse bit says whether the  *)
(* chunk before it is the program's, and its prev_size finds a free one.   *)
BoundaryTags ==
  ctx.top # NoChunk =>
    /\ {EndOf(p) : p \in Chunks \ {ctx.top}} = Chunks \ {heap_base}
    /\ EndOf(ctx.top) = ctx.heap_end
    /\ \A p \in Chunks \ {ctx.top} :
         /\ ctx.head[EndOf(p)].prev_inuse = (p \in InUse)
         /\ p \in FreeChunks => ctx.head[EndOf(p)].prev_size = chunksize(ctx, p)

(* Free memory is consolidated: two free chunks never touch, and none      *)
(* touches the top, so what the program gives back can serve larger        *)
(* requests.                                                               *)
Consolidated ==
  \A p \in FreeChunks : EndOf(p) \in InUse

(* Every free chunk can be found again: it is the last remainder, or it is *)
(* once in the bin of its size, largest first, in a block whose bit says   *)
(* that it may have chunks.                                                *)
FreeChunksFiled ==
  LET filed == [i \in Bins |-> {ctx.bins[i][j] : j \in DOMAIN ctx.bins[i]}]
      Listed == UNION {filed[i] : i \in Bins}
  IN /\ FreeChunks = Listed \cup ({ctx.last_remainder} \ {NoChunk})
     /\ ctx.last_remainder \notin Listed
     /\ \A i \in Bins : ctx.bins[i] # << >> =>
          /\ idx2binblock(i) \in ctx.binblocks
          /\ Cardinality(filed[i]) = Len(ctx.bins[i])
          /\ \A p \in filed[i] : bin_index(chunksize(ctx, p)) = i
          /\ \A j \in 1 .. Len(ctx.bins[i]) - 1 :
               chunksize(ctx, ctx.bins[i][j]) >= chunksize(ctx, ctx.bins[i][j + 1])

(* A free block of 512 bytes or more, or the top, is never believed to be  *)
(* smaller than it is, so requests that only they can serve are tried.     *)
LargeBlocksKnown ==
  \A p \in FreeChunks \cup ({ctx.top} \ {NoChunk}) :
    p = ctx.top \/ chunksize(ctx, p) >= MAX_SMALLBIN_SIZE => chunksize(ctx, p) <= ctx.bfbs

(* The allocator's own words stay out of the program's blocks: a header of *)
(* a chunk, the links of a free one and the foot behind it.                *)
Metadata ==
  LET Links(p) == IF p \in FreeChunks THEN p + 8 .. p + 15 ELSE {}
      Foot(p) == IF p \in FreeChunks THEN EndOf(p) .. EndOf(p) + 3 ELSE {}
  IN UNION {(p + 4 .. p + 7) \cup Links(p) \cup Foot(p) : p \in Chunks}

BlocksUntouched ==
  \A ptr \in DOMAIN live : (ptr .. ptr + live[ptr] - 1) \cap Metadata = {}

(* The search is by best fit: a chunk taken from a bin is the smallest free *)
(* chunk that fits, unless it fits within MINSIZE, and the top is cut only  *)
(* when no free chunk fits.  The last remainder is the one exception.       *)
BestFit ==
  [][\A ptr \in DOMAIN live' \ DOMAIN live :
       LET p == mem2chunk(ptr)
           nb == request2size(live'[ptr])
           fits == {q \in FreeChunks : chunksize(ctx, q) >= nb}
       IN /\ p = ctx.top => fits = {}
          /\ p \in FreeChunks \ {ctx.last_remainder} =>
               \A q \in fits : \/ chunksize(ctx, q) >= chunksize(ctx, p)
                               \/ chunksize(ctx, p) - nb < MINSIZE]_vars

(* The heap keeps the promise of BlockHeap.                                *)
Abstract ==
  INSTANCE BlockHeap WITH Base <- heap_base, Size <- heap_max_size,
                          Alignment <- MALLOC_ALIGNMENT, Sizes <- Requests

ImplementsBlockHeap == Abstract!Spec

(***************************************************************************)
(* What comments of newlib_malloc.c say and the early failure undoes.      *)
(***************************************************************************)

(* "biggest free block size tracking": no free block is bigger than bfbs.  *)
BiggestBlockKnown ==
  \A p \in FreeChunks : chunksize(ctx, p) <= ctx.bfbs
=============================================================================
