-------------------------- MODULE Dispatcher_proofs --------------------------
(***************************************************************************)
(* Theorems about Dispatcher, for heaps of any sizes and any program: the  *)
(* log of objects agrees with the heaps, accesses are counted to the right *)
(* object, and two heaps look like one.  What a heap does is taken from    *)
(* the theorems about DLMalloc, once for each heap.                        *)
(***************************************************************************)
EXTENDS Dispatcher, TLAPS

FastP == INSTANCE DLMalloc_proofs WITH
  heap_base <- HEAP_BASE, heap_max_size <- HEAP_0_SIZE, alloc_context <- ctx0, live <- live0

SlowP == INSTANCE DLMalloc_proofs WITH
  heap_base <- HEAP_1_BASE, heap_max_size <- HEAP_1_SIZE, alloc_context <- ctx1, live <- live1

-----------------------------------------------------------------------------
(* Both heaps are what the theorems about DLMalloc assume.                 *)
LEMMA HeapsAssumed ==
  /\ HEAP_BASE \in Nat \ {0} /\ HEAP_BASE % 8 = 0
  /\ HEAP_0_SIZE \in Nat /\ HEAP_0_SIZE % 4 = 0 /\ HEAP_0_SIZE > 16
  /\ HEAP_BASE + HEAP_0_SIZE < Word
  /\ HEAP_1_BASE \in Nat \ {0} /\ HEAP_1_BASE % 8 = 0
  /\ HEAP_1_SIZE \in Nat /\ HEAP_1_SIZE % 4 = 0 /\ HEAP_1_SIZE > 16
  /\ HEAP_1_BASE + HEAP_1_SIZE < Word
  /\ Word \in Nat /\ Word % 16 = 0 /\ MaxLive \in Nat
  /\ Requests \subseteq 0 .. Word - 1
  /\ HEAP_1_BASE = HEAP_BASE + HEAP_0_SIZE /\ HeapEnd = HEAP_1_BASE + HEAP_1_SIZE
<1>1. /\ HEAP_BASE \in Nat \ {0} /\ HEAP_BASE % 8 = 0
      /\ HEAP_0_SIZE \in Nat /\ HEAP_0_SIZE % 16 = 0 /\ HEAP_0_SIZE > 16
      /\ HEAP_1_SIZE \in Nat /\ HEAP_1_SIZE % 16 = 0 /\ HEAP_1_SIZE > 16
      /\ Word \in Nat /\ Word % 16 = 0 /\ HeapEnd < Word /\ MaxLive \in Nat
      /\ Sizes \subseteq 0 .. Word - 1 /\ Counts \subseteq 0 .. Word - 1
  BY DispatcherAssumption
<1>2. HEAP_1_BASE = HEAP_BASE + HEAP_0_SIZE /\ HeapEnd = HEAP_1_BASE + HEAP_1_SIZE
  BY DEF HEAP_1_BASE, HeapEnd
<1>3. HEAP_0_SIZE % 4 = 0 /\ HEAP_1_SIZE % 4 = 0 /\ (HEAP_BASE + HEAP_0_SIZE) % 8 = 0
  BY <1>1
<1>4. ASSUME NEW n \in Requests PROVE n \in 0 .. Word - 1
  <2>1. CASE n \in Sizes
    BY <1>1, <2>1
  <2>2. CASE n \notin Sizes
    <3>1. PICK num \in Counts, size \in Sizes : n = (size * num) % Word
      BY <2>2 DEF Requests, CallocSize
    <3>2. PICK product \in Nat : product = size * num
      <4>1. num \in Nat /\ size \in Nat
        BY <1>1
      <4>. QED BY <4>1
    <3>3. Word > 0
      BY <1>1, <1>2
    <3>. QED BY <1>1, <3>1, <3>2, <3>3
  <2>. QED BY <2>1, <2>2
<1>. QED BY <1>1, <1>2, <1>3, <1>4

(* The operators of the fast heap are those that the theorems are about.   *)
LEMMA FastIsFast ==
  /\ Fast!Init = FastP!Init
  /\ \A n : Fast!mALLOc(n) = FastP!mALLOc(n)
  /\ \A n : Fast!fREe(n) = FastP!fREe(n)
<1>lib1. ASSUME NEW S PROVE Fast!Max(S) = FastP!Max(S)
  BY DEF Fast!Max, FastP!Max
<1>lib2. ASSUME NEW S PROVE Fast!Min(S) = FastP!Min(S)
  BY DEF Fast!Min, FastP!Min
<1>lib3. ASSUME NEW S PROVE Fast!Cardinality(S) = FastP!Cardinality(S)
  BY DEF Fast!Cardinality, FastP!Cardinality
<1>lib4. ASSUME NEW s, NEW e PROVE Fast!RemoveFirst(s, e) = FastP!RemoveFirst(s, e)
  BY DEF Fast!RemoveFirst, FastP!RemoveFirst, Fast!RemoveAt, FastP!RemoveAt, Fast!SelectInSeq,
     FastP!SelectInSeq, Fast!Min, FastP!Min
<1>lib5. ASSUME NEW s, NEW i, NEW e PROVE Fast!InsertAt(s, i, e) = FastP!InsertAt(s, i, e)
  BY DEF Fast!InsertAt, FastP!InsertAt
<1>1. ASSUME NEW c, NEW p PROVE Fast!chunksize(c, p) = FastP!chunksize(c, p)
  BY DEF Fast!chunksize, FastP!chunksize, Fast!NoChunk, FastP!NoChunk
<1>2. ASSUME NEW sz PROVE Fast!bin_index(sz) = FastP!bin_index(sz)
  BY DEF Fast!bin_index, FastP!bin_index
<1>3. ASSUME NEW i PROVE Fast!idx2binblock(i) = FastP!idx2binblock(i)
  BY DEF Fast!idx2binblock, FastP!idx2binblock, Fast!BINBLOCKWIDTH, FastP!BINBLOCKWIDTH
<1>4. ASSUME NEW req PROVE Fast!request2size(req) = FastP!request2size(req)
  BY DEF Fast!request2size, FastP!request2size, Fast!SIZE_SZ, FastP!SIZE_SZ,
     Fast!MALLOC_ALIGNMENT, FastP!MALLOC_ALIGNMENT, Fast!MINSIZE, FastP!MINSIZE
<1>5. ASSUME NEW f, NEW x, NEW v PROVE Fast!Bind(f, x, v) = FastP!Bind(f, x, v)
  BY DEF Fast!Bind, FastP!Bind
<1>6. ASSUME NEW n PROVE Fast!Header(n) = FastP!Header(n)
  BY DEF Fast!Header, FastP!Header
<1>7. ASSUME NEW c, NEW p PROVE Fast!SetInuse(c, p) = FastP!SetInuse(c, p)
  BY DEF Fast!SetInuse, FastP!SetInuse
<1>8. ASSUME NEW c, NEW p PROVE Fast!unlink(c, p) = FastP!unlink(c, p)
  BY <1>lib4 DEF Fast!unlink, FastP!unlink, Fast!Bins, FastP!Bins, Fast!NoChunk, FastP!NoChunk
<1>9. ASSUME NEW c, NEW p PROVE Fast!frontlink(c, p) = FastP!frontlink(c, p)
  BY <1>2, <1>3, <1>lib5, <1>lib3 DEF Fast!frontlink, FastP!frontlink, Fast!chunksize,
     FastP!chunksize, Fast!NoChunk, FastP!NoChunk, Fast!MAX_SMALLBIN_SIZE,
     FastP!MAX_SMALLBIN_SIZE
<1>10. ASSUME NEW c, NEW p, NEW nb PROVE Fast!Split(c, p, nb) = FastP!Split(c, p, nb)
  BY <1>1, <1>5, <1>6 DEF Fast!Split, FastP!Split
<1>11. ASSUME NEW c, NEW i, NEW nb PROVE Fast!FirstFit(c, i, nb) = FastP!FirstFit(c, i, nb)
  BY <1>lib1 DEF Fast!FirstFit, FastP!FirstFit, Fast!chunksize, FastP!chunksize, Fast!NoChunk,
     FastP!NoChunk
<1>12. ASSUME NEW c, NEW nb PROVE Fast!ExactFit(c, nb) = FastP!ExactFit(c, nb)
  BY <1>11, <1>2, <1>1 DEF Fast!ExactFit, FastP!ExactFit, Fast!is_small_request,
     FastP!is_small_request, Fast!MAX_SMALLBIN_SIZE, FastP!MAX_SMALLBIN_SIZE,
     Fast!SMALLBIN_WIDTH, FastP!SMALLBIN_WIDTH, Fast!smallbin_index, FastP!smallbin_index,
     Fast!MINSIZE, FastP!MINSIZE
<1>13. ASSUME NEW c, NEW nb PROVE Fast!ScanStart(c, nb) = FastP!ScanStart(c, nb)
  BY <1>11, <1>2 DEF Fast!ScanStart, FastP!ScanStart, Fast!is_small_request,
     FastP!is_small_request, Fast!MAX_SMALLBIN_SIZE, FastP!MAX_SMALLBIN_SIZE,
     Fast!SMALLBIN_WIDTH, FastP!SMALLBIN_WIDTH, Fast!smallbin_index, FastP!smallbin_index
<1>14. ASSUME NEW bytes PROVE Fast!TooBig(bytes) = FastP!TooBig(bytes)
  BY <1>4 DEF Fast!TooBig, FastP!TooBig, Fast!INT_MAX, FastP!INT_MAX
<1>15. ASSUME NEW c, NEW nb PROVE Fast!Hopeless(c, nb) = FastP!Hopeless(c, nb)
  BY DEF Fast!Hopeless, FastP!Hopeless, Fast!MINSIZE, FastP!MINSIZE
<1>16. ASSUME NEW c PROVE Fast!FileRemainder(c) = FastP!FileRemainder(c)
  BY <1>9 DEF Fast!FileRemainder, FastP!FileRemainder, Fast!NoChunk, FastP!NoChunk
<1>17. ASSUME NEW c, NEW nb, NEW start PROVE Fast!Hits(c, nb, start) = FastP!Hits(c, nb, start)
  BY <1>3, <1>11 DEF Fast!Hits, FastP!Hits, Fast!Bins, FastP!Bins
<1>18. ASSUME NEW c, NEW nb, NEW start PROVE Fast!Scanned(c, nb, start) = FastP!Scanned(c, nb,
     start)
  BY <1>17, <1>3, <1>lib2 DEF Fast!Scanned, FastP!Scanned, Fast!Bins, FastP!Bins
<1>19. ASSUME NEW c PROVE Fast!malloc_extend_top(c) = FastP!malloc_extend_top(c)
  BY <1>5, <1>6 DEF Fast!malloc_extend_top, FastP!malloc_extend_top
<1>20. ASSUME NEW c, NEW nb PROVE Fast!TopFits(c, nb) = FastP!TopFits(c, nb)
  BY <1>1 DEF Fast!TopFits, FastP!TopFits, Fast!MINSIZE, FastP!MINSIZE
<1>21. ASSUME NEW c, NEW nb PROVE Fast!Extended(c, nb) = FastP!Extended(c, nb)
  BY <1>20, <1>19 DEF Fast!Extended, FastP!Extended
<1>22. ASSUME NEW c PROVE Fast!NoteBiggest(c) = FastP!NoteBiggest(c)
  BY <1>1, <1>lib1 DEF Fast!NoteBiggest, FastP!NoteBiggest
<1>23. ASSUME NEW c, NEW nb PROVE Fast!CutTop(c, nb) = FastP!CutTop(c, nb)
  BY <1>5, <1>6, <1>1 DEF Fast!CutTop, FastP!CutTop
<1>24. ASSUME NEW c, NEW p, NEW q PROVE Fast!Absorb(c, p, q) = FastP!Absorb(c, p, q)
  BY <1>6 DEF Fast!Absorb, FastP!Absorb
<1>25. ASSUME NEW c, NEW p PROVE Fast!Backward(c, p) = FastP!Backward(c, p)
  BY DEF Fast!Backward, FastP!Backward
<1>26. ASSUME NEW c, NEW p PROVE Fast!Forward(c, p) = FastP!Forward(c, p)
  BY <1>1 DEF Fast!Forward, FastP!Forward
<1>27. ASSUME NEW c, NEW p PROVE Fast!NoteFreed(c, p) = FastP!NoteFreed(c, p)
  BY <1>1, <1>lib1 DEF Fast!NoteFreed, FastP!NoteFreed
<1>28. ASSUME NEW c, NEW p PROVE Fast!FreeIntoTop(c, p) = FastP!FreeIntoTop(c, p)
  BY <1>25, <1>8, <1>27, <1>24 DEF Fast!FreeIntoTop, FastP!FreeIntoTop
<1>29. ASSUME NEW c, NEW p PROVE Fast!FreeIntoBin(c, p) = FastP!FreeIntoBin(c, p)
  BY <1>25, <1>26, <1>24, <1>8, <1>1, <1>9, <1>27 DEF Fast!FreeIntoBin, FastP!FreeIntoBin
<1>30. ASSUME NEW c, NEW p, NEW bytes PROVE Fast!Allocate(c, p, bytes) = FastP!Allocate(c, p,
     bytes)
  BY <1>5 DEF Fast!Allocate, FastP!Allocate, Fast!chunk2mem, FastP!chunk2mem, Fast!SIZE_SZ,
     FastP!SIZE_SZ
<1>31. ASSUME NEW bytes PROVE Fast!Refuse(bytes) = FastP!Refuse(bytes)
  BY <1>14, <1>15, <1>4 DEF Fast!Refuse, FastP!Refuse, Fast!vars, FastP!vars
<1>32. ASSUME NEW bytes PROVE Fast!TakeExact(bytes) = FastP!TakeExact(bytes)
  BY <1>4, <1>12, <1>30, <1>7, <1>8 DEF Fast!TakeExact, FastP!TakeExact
<1>33. ASSUME NEW bytes PROVE Fast!TakeRemainder(bytes) = FastP!TakeRemainder(bytes)
  BY <1>4, <1>12, <1>1, <1>30, <1>10, <1>7, <1>8 DEF Fast!TakeRemainder, FastP!TakeRemainder,
     Fast!NoChunk, FastP!NoChunk, Fast!MINSIZE, FastP!MINSIZE
<1>34. ASSUME NEW bytes PROVE Fast!Search(bytes) = FastP!Search(bytes)
  BY <1>4, <1>13, <1>16, <1>17, <1>18, <1>11, <1>1, <1>30, <1>10, <1>8, <1>7, <1>21, <1>20,
     <1>23, <1>22, <1>lib2 DEF Fast!Search, FastP!Search, Fast!MINSIZE, FastP!MINSIZE
<1>35. ASSUME NEW bytes PROVE Fast!mALLOc(bytes) = FastP!mALLOc(bytes)
  BY <1>4, <1>31, <1>14, <1>15, <1>32, <1>33, <1>12, <1>1, <1>34 DEF Fast!mALLOc, FastP!mALLOc,
     Fast!NoChunk, FastP!NoChunk
<1>36. ASSUME NEW ptr PROVE Fast!fREe(ptr) = FastP!fREe(ptr)
  BY <1>1, <1>28, <1>29 DEF Fast!fREe, FastP!fREe, Fast!mem2chunk, FastP!mem2chunk,
     Fast!SIZE_SZ, FastP!SIZE_SZ
<1>37. Fast!Init = FastP!Init
  BY DEF Fast!Init, FastP!Init, Fast!NoChunk, FastP!NoChunk, Fast!Bins, FastP!Bins
<1>. QED BY <1>35, <1>36, <1>37

(* The operators of the slow heap are those that the theorems are about.   *)
LEMMA SlowIsSlow ==
  /\ Slow!Init = SlowP!Init
  /\ \A n : Slow!mALLOc(n) = SlowP!mALLOc(n)
  /\ \A n : Slow!fREe(n) = SlowP!fREe(n)
<1>lib1. ASSUME NEW S PROVE Slow!Max(S) = SlowP!Max(S)
  BY DEF Slow!Max, SlowP!Max
<1>lib2. ASSUME NEW S PROVE Slow!Min(S) = SlowP!Min(S)
  BY DEF Slow!Min, SlowP!Min
<1>lib3. ASSUME NEW S PROVE Slow!Cardinality(S) = SlowP!Cardinality(S)
  BY DEF Slow!Cardinality, SlowP!Cardinality
<1>lib4. ASSUME NEW s, NEW e PROVE Slow!RemoveFirst(s, e) = SlowP!RemoveFirst(s, e)
  BY DEF Slow!RemoveFirst, SlowP!RemoveFirst, Slow!RemoveAt, SlowP!RemoveAt, Slow!SelectInSeq,
     SlowP!SelectInSeq, Slow!Min, SlowP!Min
<1>lib5. ASSUME NEW s, NEW i, NEW e PROVE Slow!InsertAt(s, i, e) = SlowP!InsertAt(s, i, e)
  BY DEF Slow!InsertAt, SlowP!InsertAt
<1>1. ASSUME NEW c, NEW p PROVE Slow!chunksize(c, p) = SlowP!chunksize(c, p)
  BY DEF Slow!chunksize, SlowP!chunksize, Slow!NoChunk, SlowP!NoChunk
<1>2. ASSUME NEW sz PROVE Slow!bin_index(sz) = SlowP!bin_index(sz)
  BY DEF Slow!bin_index, SlowP!bin_index
<1>3. ASSUME NEW i PROVE Slow!idx2binblock(i) = SlowP!idx2binblock(i)
  BY DEF Slow!idx2binblock, SlowP!idx2binblock, Slow!BINBLOCKWIDTH, SlowP!BINBLOCKWIDTH
<1>4. ASSUME NEW req PROVE Slow!request2size(req) = SlowP!request2size(req)
  BY DEF Slow!request2size, SlowP!request2size, Slow!SIZE_SZ, SlowP!SIZE_SZ,
     Slow!MALLOC_ALIGNMENT, SlowP!MALLOC_ALIGNMENT, Slow!MINSIZE, SlowP!MINSIZE
<1>5. ASSUME NEW f, NEW x, NEW v PROVE Slow!Bind(f, x, v) = SlowP!Bind(f, x, v)
  BY DEF Slow!Bind, SlowP!Bind
<1>6. ASSUME NEW n PROVE Slow!Header(n) = SlowP!Header(n)
  BY DEF Slow!Header, SlowP!Header
<1>7. ASSUME NEW c, NEW p PROVE Slow!SetInuse(c, p) = SlowP!SetInuse(c, p)
  BY DEF Slow!SetInuse, SlowP!SetInuse
<1>8. ASSUME NEW c, NEW p PROVE Slow!unlink(c, p) = SlowP!unlink(c, p)
  BY <1>lib4 DEF Slow!unlink, SlowP!unlink, Slow!Bins, SlowP!Bins, Slow!NoChunk, SlowP!NoChunk
<1>9. ASSUME NEW c, NEW p PROVE Slow!frontlink(c, p) = SlowP!frontlink(c, p)
  BY <1>2, <1>3, <1>lib5, <1>lib3 DEF Slow!frontlink, SlowP!frontlink, Slow!chunksize,
     SlowP!chunksize, Slow!NoChunk, SlowP!NoChunk, Slow!MAX_SMALLBIN_SIZE,
     SlowP!MAX_SMALLBIN_SIZE
<1>10. ASSUME NEW c, NEW p, NEW nb PROVE Slow!Split(c, p, nb) = SlowP!Split(c, p, nb)
  BY <1>1, <1>5, <1>6 DEF Slow!Split, SlowP!Split
<1>11. ASSUME NEW c, NEW i, NEW nb PROVE Slow!FirstFit(c, i, nb) = SlowP!FirstFit(c, i, nb)
  BY <1>lib1 DEF Slow!FirstFit, SlowP!FirstFit, Slow!chunksize, SlowP!chunksize, Slow!NoChunk,
     SlowP!NoChunk
<1>12. ASSUME NEW c, NEW nb PROVE Slow!ExactFit(c, nb) = SlowP!ExactFit(c, nb)
  BY <1>11, <1>2, <1>1 DEF Slow!ExactFit, SlowP!ExactFit, Slow!is_small_request,
     SlowP!is_small_request, Slow!MAX_SMALLBIN_SIZE, SlowP!MAX_SMALLBIN_SIZE,
     Slow!SMALLBIN_WIDTH, SlowP!SMALLBIN_WIDTH, Slow!smallbin_index, SlowP!smallbin_index,
     Slow!MINSIZE, SlowP!MINSIZE
<1>13. ASSUME NEW c, NEW nb PROVE Slow!ScanStart(c, nb) = SlowP!ScanStart(c, nb)
  BY <1>11, <1>2 DEF Slow!ScanStart, SlowP!ScanStart, Slow!is_small_request,
     SlowP!is_small_request, Slow!MAX_SMALLBIN_SIZE, SlowP!MAX_SMALLBIN_SIZE,
     Slow!SMALLBIN_WIDTH, SlowP!SMALLBIN_WIDTH, Slow!smallbin_index, SlowP!smallbin_index
<1>14. ASSUME NEW bytes PROVE Slow!TooBig(bytes) = SlowP!TooBig(bytes)
  BY <1>4 DEF Slow!TooBig, SlowP!TooBig, Slow!INT_MAX, SlowP!INT_MAX
<1>15. ASSUME NEW c, NEW nb PROVE Slow!Hopeless(c, nb) = SlowP!Hopeless(c, nb)
  BY DEF Slow!Hopeless, SlowP!Hopeless, Slow!MINSIZE, SlowP!MINSIZE
<1>16. ASSUME NEW c PROVE Slow!FileRemainder(c) = SlowP!FileRemainder(c)
  BY <1>9 DEF Slow!FileRemainder, SlowP!FileRemainder, Slow!NoChunk, SlowP!NoChunk
<1>17. ASSUME NEW c, NEW nb, NEW start PROVE Slow!Hits(c, nb, start) = SlowP!Hits(c, nb, start)
  BY <1>3, <1>11 DEF Slow!Hits, SlowP!Hits, Slow!Bins, SlowP!Bins
<1>18. ASSUME NEW c, NEW nb, NEW start PROVE Slow!Scanned(c, nb, start) = SlowP!Scanned(c, nb,
     start)
  BY <1>17, <1>3, <1>lib2 DEF Slow!Scanned, SlowP!Scanned, Slow!Bins, SlowP!Bins
<1>19. ASSUME NEW c PROVE Slow!malloc_extend_top(c) = SlowP!malloc_extend_top(c)
  BY <1>5, <1>6 DEF Slow!malloc_extend_top, SlowP!malloc_extend_top
<1>20. ASSUME NEW c, NEW nb PROVE Slow!TopFits(c, nb) = SlowP!TopFits(c, nb)
  BY <1>1 DEF Slow!TopFits, SlowP!TopFits, Slow!MINSIZE, SlowP!MINSIZE
<1>21. ASSUME NEW c, NEW nb PROVE Slow!Extended(c, nb) = SlowP!Extended(c, nb)
  BY <1>20, <1>19 DEF Slow!Extended, SlowP!Extended
<1>22. ASSUME NEW c PROVE Slow!NoteBiggest(c) = SlowP!NoteBiggest(c)
  BY <1>1, <1>lib1 DEF Slow!NoteBiggest, SlowP!NoteBiggest
<1>23. ASSUME NEW c, NEW nb PROVE Slow!CutTop(c, nb) = SlowP!CutTop(c, nb)
  BY <1>5, <1>6, <1>1 DEF Slow!CutTop, SlowP!CutTop
<1>24. ASSUME NEW c, NEW p, NEW q PROVE Slow!Absorb(c, p, q) = SlowP!Absorb(c, p, q)
  BY <1>6 DEF Slow!Absorb, SlowP!Absorb
<1>25. ASSUME NEW c, NEW p PROVE Slow!Backward(c, p) = SlowP!Backward(c, p)
  BY DEF Slow!Backward, SlowP!Backward
<1>26. ASSUME NEW c, NEW p PROVE Slow!Forward(c, p) = SlowP!Forward(c, p)
  BY <1>1 DEF Slow!Forward, SlowP!Forward
<1>27. ASSUME NEW c, NEW p PROVE Slow!NoteFreed(c, p) = SlowP!NoteFreed(c, p)
  BY <1>1, <1>lib1 DEF Slow!NoteFreed, SlowP!NoteFreed
<1>28. ASSUME NEW c, NEW p PROVE Slow!FreeIntoTop(c, p) = SlowP!FreeIntoTop(c, p)
  BY <1>25, <1>8, <1>27, <1>24 DEF Slow!FreeIntoTop, SlowP!FreeIntoTop
<1>29. ASSUME NEW c, NEW p PROVE Slow!FreeIntoBin(c, p) = SlowP!FreeIntoBin(c, p)
  BY <1>25, <1>26, <1>24, <1>8, <1>1, <1>9, <1>27 DEF Slow!FreeIntoBin, SlowP!FreeIntoBin
<1>30. ASSUME NEW c, NEW p, NEW bytes PROVE Slow!Allocate(c, p, bytes) = SlowP!Allocate(c, p,
     bytes)
  BY <1>5 DEF Slow!Allocate, SlowP!Allocate, Slow!chunk2mem, SlowP!chunk2mem, Slow!SIZE_SZ,
     SlowP!SIZE_SZ
<1>31. ASSUME NEW bytes PROVE Slow!Refuse(bytes) = SlowP!Refuse(bytes)
  BY <1>14, <1>15, <1>4 DEF Slow!Refuse, SlowP!Refuse, Slow!vars, SlowP!vars
<1>32. ASSUME NEW bytes PROVE Slow!TakeExact(bytes) = SlowP!TakeExact(bytes)
  BY <1>4, <1>12, <1>30, <1>7, <1>8 DEF Slow!TakeExact, SlowP!TakeExact
<1>33. ASSUME NEW bytes PROVE Slow!TakeRemainder(bytes) = SlowP!TakeRemainder(bytes)
  BY <1>4, <1>12, <1>1, <1>30, <1>10, <1>7, <1>8 DEF Slow!TakeRemainder, SlowP!TakeRemainder,
     Slow!NoChunk, SlowP!NoChunk, Slow!MINSIZE, SlowP!MINSIZE
<1>34. ASSUME NEW bytes PROVE Slow!Search(bytes) = SlowP!Search(bytes)
  BY <1>4, <1>13, <1>16, <1>17, <1>18, <1>11, <1>1, <1>30, <1>10, <1>8, <1>7, <1>21, <1>20,
     <1>23, <1>22, <1>lib2 DEF Slow!Search, SlowP!Search, Slow!MINSIZE, SlowP!MINSIZE
<1>35. ASSUME NEW bytes PROVE Slow!mALLOc(bytes) = SlowP!mALLOc(bytes)
  BY <1>4, <1>31, <1>14, <1>15, <1>32, <1>33, <1>12, <1>1, <1>34 DEF Slow!mALLOc, SlowP!mALLOc,
     Slow!NoChunk, SlowP!NoChunk
<1>36. ASSUME NEW ptr PROVE Slow!fREe(ptr) = SlowP!fREe(ptr)
  BY <1>1, <1>28, <1>29 DEF Slow!fREe, SlowP!fREe, Slow!mem2chunk, SlowP!mem2chunk,
     Slow!SIZE_SZ, SlowP!SIZE_SZ
<1>37. Slow!Init = SlowP!Init
  BY DEF Slow!Init, SlowP!Init, Slow!NoChunk, SlowP!NoChunk, Slow!Bins, SlowP!Bins
<1>. QED BY <1>35, <1>36, <1>37

-----------------------------------------------------------------------------
(* What a program may rely on: the blocks of lv are aligned, in the size   *)
(* bytes from base on, and apart.                                          *)
Within(lv, base, size) ==
  \A a \in DOMAIN lv :
    /\ a \in Nat /\ lv[a] \in Nat /\ lv[a] \in Requests /\ a % 8 = 0
    /\ base < a /\ a < base + size - 4 /\ a + lv[a] <= base + size
    /\ \A b \in DOMAIN lv : a # b => a + lv[a] < b \/ b + lv[b] < a

HeapsHold == FastP!HeapInv /\ SlowP!HeapInv

(* Both heaps start well.                                                  *)
LEMMA HeapsInit ==
  ASSUME Fast!Init, Slow!Init
  PROVE  HeapsHold
<1>1. FastP!Init /\ SlowP!Init
  BY FastIsFast, SlowIsSlow
<1>2. FastP!Init => FastP!HeapInv
  BY HeapsAssumed, FastP!HeapInvInit
<1>3. SlowP!Init => SlowP!HeapInv
  BY HeapsAssumed, SlowP!HeapInvInit
<1>. QED BY <1>1, <1>2, <1>3 DEF HeapsHold

(* The blocks of each heap are where they should be, and free finds them.  *)
LEMMA FastBlocks ==
  ASSUME FastP!HeapInv
  PROVE  /\ Within(live0, HEAP_BASE, HEAP_0_SIZE)
         /\ live0 # << >> => ctx0.heap_end = HEAP_BASE + HEAP_0_SIZE - 4
         /\ ctx0.heap_end \in {0, HEAP_BASE + HEAP_0_SIZE - 4}
<1>1. /\ FastP!Usable(live0)
      /\ live0 # << >> => FastP!ctx.heap_end = FastP!Limit
      /\ FastP!ctx.heap_end \in {0, FastP!Limit}
  BY HeapsAssumed, FastP!BlocksUsable
<1>2. FastP!ctx = ctx0 /\ FastP!Limit = HEAP_BASE + HEAP_0_SIZE - 4
  BY DEF FastP!ctx, FastP!Limit
<1>. QED BY <1>1, <1>2 DEF FastP!Usable, Within

LEMMA SlowBlocks ==
  ASSUME SlowP!HeapInv
  PROVE  /\ Within(live1, HEAP_1_BASE, HEAP_1_SIZE)
         /\ live1 # << >> => ctx1.heap_end = HEAP_1_BASE + HEAP_1_SIZE - 4
         /\ ctx1.heap_end \in {0, HEAP_1_BASE + HEAP_1_SIZE - 4}
<1>1. /\ SlowP!Usable(live1)
      /\ live1 # << >> => SlowP!ctx.heap_end = SlowP!Limit
      /\ SlowP!ctx.heap_end \in {0, SlowP!Limit}
  BY HeapsAssumed, SlowP!BlocksUsable
<1>2. SlowP!ctx = ctx1 /\ SlowP!Limit = HEAP_1_BASE + HEAP_1_SIZE - 4
  BY DEF SlowP!ctx, SlowP!Limit
<1>. QED BY <1>1, <1>2 DEF SlowP!Usable, Within

(* A heap that is not called stays as it is.                               *)
LEMMA FastRests ==
  ASSUME FastP!HeapInv, UNCHANGED heap0
  PROVE  FastP!HeapInv'
<1>1. [FastP!Next]_FastP!vars
  BY DEF heap0, FastP!vars
<1>. QED BY <1>1, HeapsAssumed, FastP!HeapInvStep

LEMMA SlowRests ==
  ASSUME SlowP!HeapInv, UNCHANGED heap1
  PROVE  SlowP!HeapInv'
<1>1. [SlowP!Next]_SlowP!vars
  BY DEF heap1, SlowP!vars
<1>. QED BY <1>1, HeapsAssumed, SlowP!HeapInvStep

(* A request to a heap hands out one new block, or nothing.                *)
LEMMA FastServes ==
  ASSUME FastP!HeapInv, NEW sz \in Requests, Fast!mALLOc(sz)
  PROVE  /\ FastP!HeapInv'
         /\ live0' = live0 \/ \E a : a \notin DOMAIN live0 /\ live0' = With(live0, a, sz)
<1>1. FastP!mALLOc(sz)
  BY FastIsFast
<1>2. FastP!HeapInv' /\ (live0' = live0 \/ \E a : FastP!Given(a, sz))
  BY <1>1, HeapsAssumed, FastP!MallocAnswers
<1>. QED BY <1>2 DEF FastP!Given, FastP!Bind, With

LEMMA SlowServes ==
  ASSUME SlowP!HeapInv, NEW sz \in Requests, Slow!mALLOc(sz)
  PROVE  /\ SlowP!HeapInv'
         /\ live1' = live1 \/ \E a : a \notin DOMAIN live1 /\ live1' = With(live1, a, sz)
<1>1. SlowP!mALLOc(sz)
  BY SlowIsSlow
<1>2. SlowP!HeapInv' /\ (live1' = live1 \/ \E a : SlowP!Given(a, sz))
  BY <1>1, HeapsAssumed, SlowP!MallocAnswers
<1>. QED BY <1>2 DEF SlowP!Given, SlowP!Bind, With

(* A free takes the block out of its heap.                                 *)
LEMMA FastFrees ==
  ASSUME FastP!HeapInv, NEW ptr \in DOMAIN live0, Fast!fREe(ptr)
  PROVE  FastP!HeapInv' /\ live0' = Without(live0, ptr)
<1>1. FastP!fREe(ptr)
  BY FastIsFast
<1>2. FastP!HeapInv'
  BY <1>1, HeapsAssumed, FastP!FreeStep
<1>. QED BY <1>1, <1>2 DEF FastP!fREe, Without

LEMMA SlowFrees ==
  ASSUME SlowP!HeapInv, NEW ptr \in DOMAIN live1, Slow!fREe(ptr)
  PROVE  SlowP!HeapInv' /\ live1' = Without(live1, ptr)
<1>1. SlowP!fREe(ptr)
  BY SlowIsSlow
<1>2. SlowP!HeapInv'
  BY <1>1, HeapsAssumed, SlowP!FreeStep
<1>. QED BY <1>1, <1>2 DEF SlowP!fREe, Without

-----------------------------------------------------------------------------
(* The two heaps together.                                                 *)

HeapSizes == HEAP_0_SIZE + HEAP_1_SIZE

(* Blocks of different heaps are apart too.                                *)
LEMMA BlocksTogether ==
  HeapsHold => /\ Within(live0, HEAP_BASE, HEAP_0_SIZE)
               /\ Within(live1, HEAP_1_BASE, HEAP_1_SIZE)
               /\ Within(InUse, HEAP_BASE, HeapSizes)
               /\ DOMAIN live0 \cap DOMAIN live1 = {}
<1>. SUFFICES ASSUME HeapsHold
              PROVE  /\ Within(live0, HEAP_BASE, HEAP_0_SIZE)
                     /\ Within(live1, HEAP_1_BASE, HEAP_1_SIZE)
                     /\ Within(InUse, HEAP_BASE, HeapSizes)
                     /\ DOMAIN live0 \cap DOMAIN live1 = {}
  OBVIOUS
<1>1. /\ Within(live0, HEAP_BASE, HEAP_0_SIZE)
      /\ Within(live1, HEAP_1_BASE, HEAP_1_SIZE)
  BY FastBlocks, SlowBlocks DEF HeapsHold
<1>2. /\ HEAP_BASE \in Nat /\ HEAP_0_SIZE \in Nat /\ HEAP_1_SIZE \in Nat /\ HEAP_1_BASE \in Nat
      /\ HEAP_1_BASE = HEAP_BASE + HEAP_0_SIZE /\ HEAP_0_SIZE > 16 /\ HEAP_1_SIZE > 16
      /\ HeapSizes = HEAP_0_SIZE + HEAP_1_SIZE
  BY HeapsAssumed DEF HeapSizes
<1>3. ASSUME NEW a \in DOMAIN live0
      PROVE  /\ a \in Nat /\ live0[a] \in Nat /\ live0[a] \in Requests /\ a % 8 = 0
             /\ HEAP_BASE < a /\ a + live0[a] <= HEAP_1_BASE /\ a < HEAP_1_BASE
             /\ \A b \in DOMAIN live0 : a # b => a + live0[a] < b \/ b + live0[b] < a
  BY <1>1, <1>2 DEF Within
<1>4. ASSUME NEW a \in DOMAIN live1
      PROVE  /\ a \in Nat /\ live1[a] \in Nat /\ live1[a] \in Requests /\ a % 8 = 0
             /\ HEAP_1_BASE < a /\ a + live1[a] <= HEAP_BASE + HeapSizes
             /\ a < HEAP_BASE + HeapSizes - 4
             /\ \A b \in DOMAIN live1 : a # b => a + live1[a] < b \/ b + live1[b] < a
  BY <1>1, <1>2 DEF Within
<1>5. DOMAIN live0 \cap DOMAIN live1 = {}
  BY <1>2, <1>3, <1>4
<1>6. /\ DOMAIN InUse = DOMAIN live0 \cup DOMAIN live1
      /\ \A a \in DOMAIN live0 : InUse[a] = live0[a]
      /\ \A a \in DOMAIN live1 : InUse[a] = live1[a]
  BY <1>5 DEF InUse
<1>7. ASSUME NEW a \in DOMAIN InUse
      PROVE  /\ a \in Nat /\ InUse[a] \in Nat /\ InUse[a] \in Requests /\ a % 8 = 0
             /\ HEAP_BASE < a /\ a < HEAP_BASE + HeapSizes - 4
             /\ a + InUse[a] <= HEAP_BASE + HeapSizes
  BY <1>2, <1>3, <1>4, <1>6
<1>8. ASSUME NEW a \in DOMAIN InUse, NEW b \in DOMAIN InUse, a # b
      PROVE  a + InUse[a] < b \/ b + InUse[b] < a
  <2>1. CASE a \in DOMAIN live0 /\ b \in DOMAIN live0
    BY <1>3, <1>6, <1>8, <2>1
  <2>2. CASE a \in DOMAIN live1 /\ b \in DOMAIN live1
    BY <1>4, <1>6, <1>8, <2>2
  <2>3. CASE a \in DOMAIN live0 /\ b \in DOMAIN live1
    BY <1>2, <1>3, <1>4, <1>6, <2>3
  <2>4. CASE a \in DOMAIN live1 /\ b \in DOMAIN live0
    BY <1>2, <1>3, <1>4, <1>6, <2>4
  <2>. QED BY <1>6, <2>1, <2>2, <2>3, <2>4
<1>9. Within(InUse, HEAP_BASE, HeapSizes)
  BY <1>7, <1>8 DEF Within
<1>. QED BY <1>1, <1>5, <1>9

(* The same after a step.                                                  *)
LEMMA BlocksTogetherNext ==
  ASSUME HeapsHold'
  PROVE  /\ Within(live0', HEAP_BASE, HEAP_0_SIZE)
         /\ Within(live1', HEAP_1_BASE, HEAP_1_SIZE)
         /\ Within(InUse', HEAP_BASE, HeapSizes)
         /\ DOMAIN live0' \cap DOMAIN live1' = {}
<1>1. (HeapsHold => /\ Within(live0, HEAP_BASE, HEAP_0_SIZE)
                    /\ Within(live1, HEAP_1_BASE, HEAP_1_SIZE)
                    /\ Within(InUse, HEAP_BASE, HeapSizes)
                    /\ DOMAIN live0 \cap DOMAIN live1 = {})'
  BY BlocksTogether, PTL
<1>. QED BY <1>1 DEF Within, HeapSizes, HEAP_1_BASE

(* Block a of n bytes is new.                                              *)
Handed(a, n) ==
  /\ a # NULL /\ a \notin DOMAIN InUse /\ InUse' = With(InUse, a, n)
  /\ returnPointer = a

Denied == InUse' = InUse /\ returnPointer = NULL

(* What a request does to the fast heap: an object that is not in it after *)
(* the request is one that the fast heap did not give.                     *)
FastShare(first) ==
  /\ \A ptr \in DOMAIN InUse : ptr \in DOMAIN live0' <=> ptr \in DOMAIN live0
  /\ first = 0 => (Taken(0) = {} <=> returnPointer \notin DOMAIN live0')
  /\ NULL \notin DOMAIN live0'

(* Of two numbers, one of which is 0, the greater one is the other one.    *)
LEMMA MaxWithNull ==
  /\ Max({NULL} \cup {} \cup {}) = NULL
  /\ \A a \in Nat : Max({NULL} \cup {a} \cup {}) = a /\ Max({NULL} \cup {} \cup {a}) = a
<1>1. Max({NULL} \cup {} \cup {}) = NULL
  <2>1. {NULL} \cup {} \cup {} = {NULL}
    OBVIOUS
  <2>2. Max({NULL}) \in {NULL}
    BY DEF Max, NULL
  <2>. QED BY <2>1, <2>2
<1>2. ASSUME NEW a \in Nat PROVE Max({NULL, a}) = a
  BY DEF Max, NULL
<1>3. \A a \in Nat : {NULL} \cup {a} \cup {} = {NULL, a} /\ {NULL} \cup {} \cup {a} = {NULL, a}
  OBVIOUS
<1>. QED BY <1>1, <1>2, <1>3

(* No block of a heap has the address 0.                                   *)
LEMMA NoNull ==
  /\ HeapsHold => NULL \notin DOMAIN live0 /\ NULL \notin DOMAIN live1 /\ NULL \notin DOMAIN InUse
  /\ HeapsHold' => NULL \notin DOMAIN live0' /\ NULL \notin DOMAIN live1'
<1>1. HEAP_BASE \in Nat /\ HEAP_1_BASE \in Nat
  BY HeapsAssumed
<1>2. HeapsHold => NULL \notin DOMAIN live0 /\ NULL \notin DOMAIN live1 /\ NULL \notin DOMAIN InUse
  BY <1>1, BlocksTogether DEF Within, NULL
<1>3. HeapsHold' => NULL \notin DOMAIN live0' /\ NULL \notin DOMAIN live1'
  BY <1>1, BlocksTogetherNext DEF Within, NULL
<1>. QED BY <1>2, <1>3

(* A block more or less in one heap is one more or less in both.           *)
LEMMA MoreFast ==
  ASSUME HeapsHold', NEW a, NEW n, a \notin DOMAIN live0,
         live0' = With(live0, a, n), live1' = live1
  PROVE  a \notin DOMAIN InUse /\ InUse' = With(InUse, a, n) /\ Taken(0) = {a} /\ Taken(1) = {}
<1>1. DOMAIN live0' = DOMAIN live0 \cup {a} /\ live0'[a] = n
      /\ \A b \in DOMAIN live0 : live0'[b] = live0[b]
  BY DEF With
<1>2. DOMAIN live0' \cap DOMAIN live1' = {}
  BY BlocksTogetherNext
<1>3. a \notin DOMAIN InUse
  BY <1>1, <1>2 DEF InUse
<1>4. InUse' = With(InUse, a, n)
  BY <1>1 DEF InUse, With
<1>. QED BY <1>1, <1>3, <1>4 DEF Taken

LEMMA MoreSlow ==
  ASSUME HeapsHold', NEW a, NEW n, a \notin DOMAIN live1,
         live1' = With(live1, a, n), live0' = live0
  PROVE  a \notin DOMAIN InUse /\ InUse' = With(InUse, a, n) /\ Taken(1) = {a} /\ Taken(0) = {}
<1>1. DOMAIN live1' = DOMAIN live1 \cup {a} /\ live1'[a] = n
      /\ \A b \in DOMAIN live1 : live1'[b] = live1[b]
  BY DEF With
<1>2. DOMAIN live0' \cap DOMAIN live1' = {}
  BY BlocksTogetherNext
<1>3. a \notin DOMAIN InUse
  BY <1>1, <1>2 DEF InUse
<1>4. InUse' = With(InUse, a, n)
  BY <1>1, <1>3 DEF InUse, With
<1>. QED BY <1>1, <1>3, <1>4 DEF Taken

(* A request is answered by one heap or by none.                           *)
LEMMA PlaceStep ==
  ASSUME HeapsHold, NEW sz \in Requests, NEW first \in {0, 1}, Place(sz, first)
  PROVE  /\ HeapsHold'
         /\ Denied \/ \E a : Handed(a, sz)
         /\ FastShare(first)
<1>1. /\ FastP!HeapInv' /\ SlowP!HeapInv'
      /\ \/ live0' = live0 /\ live1' = live1
         \/ \E a : a \notin DOMAIN live0 /\ live0' = With(live0, a, sz) /\ live1' = live1
         \/ \E a : a \notin DOMAIN live1 /\ live1' = With(live1, a, sz) /\ live0' = live0
  <2>. USE DEF HeapsHold
  <2>0. /\ \A a : live0' = With(live0, a, sz) /\ a \notin DOMAIN live0 => Taken(0) # {}
        /\ \A a : live1' = With(live1, a, sz) /\ a \notin DOMAIN live1 => Taken(1) # {}
    BY DEF Taken, With
  <2>1. CASE first = 0
    <3>1. /\ Fast!mALLOc(sz)
          /\ IF Taken(0) # {} THEN UNCHANGED heap1 ELSE Slow!mALLOc(sz)
      BY <2>1 DEF Place, newlib_malloc
    <3>2. /\ FastP!HeapInv'
          /\ live0' = live0 \/ \E a : a \notin DOMAIN live0 /\ live0' = With(live0, a, sz)
      BY <3>1, FastServes
    <3>3. CASE UNCHANGED heap1
      <4>1. SlowP!HeapInv' /\ live1' = live1
        BY <3>3, SlowRests DEF heap1
      <4>. QED BY <3>2, <4>1
    <3>4. CASE Taken(0) = {} /\ Slow!mALLOc(sz)
      <4>1. /\ SlowP!HeapInv'
            /\ live1' = live1 \/ \E a : a \notin DOMAIN live1 /\ live1' = With(live1, a, sz)
        BY <3>4, SlowServes
      <4>2. live0' = live0
        BY <2>0, <3>2, <3>4
      <4>. QED BY <3>2, <4>1, <4>2
    <3>. QED BY <3>1, <3>3, <3>4
  <2>2. CASE first = 1
    <3>1. /\ Slow!mALLOc(sz)
          /\ IF Taken(1) # {} THEN UNCHANGED heap0 ELSE Fast!mALLOc(sz)
      BY <2>2 DEF Place, newlib_malloc
    <3>2. /\ SlowP!HeapInv'
          /\ live1' = live1 \/ \E a : a \notin DOMAIN live1 /\ live1' = With(live1, a, sz)
      BY <3>1, SlowServes
    <3>3. CASE UNCHANGED heap0
      <4>1. FastP!HeapInv' /\ live0' = live0
        BY <3>3, FastRests DEF heap0
      <4>. QED BY <3>2, <4>1
    <3>4. CASE Taken(1) = {} /\ Fast!mALLOc(sz)
      <4>1. /\ FastP!HeapInv'
            /\ live0' = live0 \/ \E a : a \notin DOMAIN live0 /\ live0' = With(live0, a, sz)
        BY <3>4, FastServes
      <4>2. live1' = live1
        BY <2>0, <3>2, <3>4
      <4>. QED BY <3>2, <4>1, <4>2
    <3>. QED BY <3>1, <3>3, <3>4
  <2>. QED BY <2>1, <2>2
<1>2. HeapsHold'
  BY <1>1 DEF HeapsHold
<1>3. NULL \notin DOMAIN live0' /\ NULL \notin DOMAIN live1'
  BY <1>2, NoNull
<1>4. DOMAIN InUse = DOMAIN live0 \cup DOMAIN live1
  BY DEF InUse
<1>5. CASE live0' = live0 /\ live1' = live1
  <2>1. Taken(0) = {} /\ Taken(1) = {}
    BY <1>5 DEF Taken
  <2>2. returnPointer = NULL
    BY <2>1, MaxWithNull DEF returnPointer
  <2>3. InUse' = InUse
    BY <1>5 DEF InUse
  <2>4. Denied
    BY <2>2, <2>3 DEF Denied
  <2>5. FastShare(first)
    BY <1>3, <1>5, <2>1, <2>2 DEF FastShare
  <2>. QED BY <1>2, <2>4, <2>5
<1>6. CASE \E a : a \notin DOMAIN live0 /\ live0' = With(live0, a, sz) /\ live1' = live1
  <2>1. PICK a : a \notin DOMAIN live0 /\ live0' = With(live0, a, sz) /\ live1' = live1
    BY <1>6
  <2>2. a \notin DOMAIN InUse /\ InUse' = With(InUse, a, sz) /\ Taken(0) = {a} /\ Taken(1) = {}
    BY <1>2, <2>1, MoreFast
  <2>3. a \in DOMAIN live0' /\ DOMAIN live0' = DOMAIN live0 \cup {a}
    BY <2>1 DEF With
  <2>4. a \in Nat
    BY <1>2, <2>3, BlocksTogetherNext DEF Within
  <2>5. returnPointer = a
    BY <2>2, <2>4, MaxWithNull DEF returnPointer
  <2>6. Handed(a, sz)
    BY <1>3, <2>2, <2>3, <2>5 DEF Handed
  <2>7. FastShare(first)
    BY <1>3, <2>2, <2>3, <2>5 DEF FastShare
  <2>. QED BY <1>2, <2>6, <2>7
<1>7. CASE \E a : a \notin DOMAIN live1 /\ live1' = With(live1, a, sz) /\ live0' = live0
  <2>1. PICK a : a \notin DOMAIN live1 /\ live1' = With(live1, a, sz) /\ live0' = live0
    BY <1>7
  <2>2. a \notin DOMAIN InUse /\ InUse' = With(InUse, a, sz) /\ Taken(1) = {a} /\ Taken(0) = {}
    BY <1>2, <2>1, MoreSlow
  <2>3. a \in DOMAIN live1'
    BY <2>1 DEF With
  <2>4. a \in Nat
    BY <1>2, <2>3, BlocksTogetherNext DEF Within
  <2>5. returnPointer = a
    BY <2>2, <2>4, MaxWithNull DEF returnPointer
  <2>6. Handed(a, sz)
    BY <1>3, <2>2, <2>3, <2>5 DEF Handed
  <2>7. a \notin DOMAIN live0'
    BY <1>4, <2>1, <2>2
  <2>8. FastShare(first)
    BY <1>3, <2>1, <2>2, <2>5, <2>7 DEF FastShare
  <2>. QED BY <1>2, <2>6, <2>8
<1>. QED BY <1>1, <1>5, <1>6, <1>7

(* A free takes one block from the heap it is in, or does nothing.         *)
LEMMA FreeHeaps ==
  ASSUME HeapsHold, NEW ptr \in DOMAIN InUse \cup {NULL} \cup Foreign, free(ptr)
  PROVE  /\ HeapsHold'
         /\ InUse' = Without(InUse, ptr)
         /\ DOMAIN live0' = DOMAIN live0 \ {ptr}
<1>1. /\ HEAP_BASE \in Nat \ {0} /\ HEAP_0_SIZE \in Nat /\ HEAP_1_SIZE \in Nat
      /\ HEAP_1_BASE = HEAP_BASE + HEAP_0_SIZE /\ HeapEnd = HEAP_1_BASE + HEAP_1_SIZE
  BY HeapsAssumed
<1>2. /\ Within(live0, HEAP_BASE, HEAP_0_SIZE) /\ Within(live1, HEAP_1_BASE, HEAP_1_SIZE)
      /\ DOMAIN live0 \cap DOMAIN live1 = {}
  BY BlocksTogether
<1>3. /\ live0 # << >> => ctx0.heap_end = HEAP_BASE + HEAP_0_SIZE - 4
      /\ live1 # << >> => ctx1.heap_end = HEAP_1_BASE + HEAP_1_SIZE - 4
      /\ ctx0.heap_end \in {0, HEAP_BASE + HEAP_0_SIZE - 4}
      /\ ctx1.heap_end \in {0, HEAP_1_BASE + HEAP_1_SIZE - 4}
  BY FastBlocks, SlowBlocks DEF HeapsHold
<1>4. /\ 0 \in Owners(ptr) <=> HEAP_BASE <= ptr /\ ptr <= ctx0.heap_end
      /\ 1 \in Owners(ptr) <=> HEAP_1_BASE <= ptr /\ ptr <= ctx1.heap_end
      /\ Owners(ptr) \subseteq {0, 1}
  BY DEF Owners, HEAP_COUNT, base_of, end_of
<1>5. DOMAIN InUse = DOMAIN live0 \cup DOMAIN live1
  BY DEF InUse
<1>6. CASE ptr \in DOMAIN live0
  <2>1. ptr \in Nat /\ HEAP_BASE < ptr /\ ptr < HEAP_BASE + HEAP_0_SIZE - 4 /\ live0 # << >>
    BY <1>2, <1>6 DEF Within
  <2>2. 0 \in Owners(ptr)
    BY <1>1, <1>3, <1>4, <2>1
  <2>3. Fast!fREe(ptr) /\ UNCHANGED heap1
    BY <2>2 DEF free
  <2>4. /\ HeapsHold' /\ live0' = Without(live0, ptr) /\ live1' = live1
    BY <1>6, <2>3, FastFrees, SlowRests DEF HeapsHold, heap1
  <2>5. ptr \notin DOMAIN live1
    BY <1>2, <1>6
  <2>. QED BY <2>4, <2>5 DEF InUse, Without
<1>7. CASE ptr \in DOMAIN live1
  <2>1. ptr \in Nat /\ HEAP_1_BASE < ptr /\ ptr < HEAP_1_BASE + HEAP_1_SIZE - 4 /\ live1 # << >>
    BY <1>2, <1>7 DEF Within
  <2>2. 0 \notin Owners(ptr) /\ 1 \in Owners(ptr)
    BY <1>1, <1>3, <1>4, <2>1
  <2>3. Slow!fREe(ptr) /\ UNCHANGED heap0
    BY <1>4, <2>2 DEF free
  <2>4. /\ HeapsHold' /\ live1' = Without(live1, ptr) /\ live0' = live0
    BY <1>7, <2>3, SlowFrees, FastRests DEF HeapsHold, heap0
  <2>5. ptr \notin DOMAIN live0
    BY <1>2, <1>7
  <2>. QED BY <2>4, <2>5 DEF InUse, Without
<1>8. CASE ptr \notin DOMAIN InUse
  <2>1. Owners(ptr) = {}
    <3>1. CASE ptr = NULL
      BY <1>1, <1>4, <3>1 DEF NULL
    <3>2. CASE ptr \in Foreign
      <4>1. ptr \in Nat /\ (ptr < HEAP_BASE \/ ptr > HeapEnd)
        BY <1>1, <3>2, DispatcherAssumption
      <4>. QED BY <1>1, <1>3, <1>4, <4>1
    <3>. QED BY <1>8, <3>1, <3>2
  <2>2. UNCHANGED <<heap0, heap1>>
    BY <2>1 DEF free
  <2>3. HeapsHold' /\ live0' = live0 /\ live1' = live1
    BY <2>2, FastRests, SlowRests DEF HeapsHold, heap0, heap1
  <2>4. InUse' = InUse /\ InUse = Without(InUse, ptr)
    BY <1>8, <2>3 DEF InUse, Without
  <2>. QED BY <1>5, <1>8, <2>3, <2>4
<1>. QED BY <1>5, <1>6, <1>7, <1>8


-----------------------------------------------------------------------------
(* The inductive invariant.  The log can only be right about fallbacks if  *)
(* the register of the helper was cleared by the request before.           *)
DispInv ==
  /\ HeapsHold
  /\ TypeOK
  /\ LogMatchesHeaps
  /\ status = "running" => fallbacked = 0

(* What a step does to the blocks in use.                                  *)
Stepped ==
  \/ InUse' = InUse
  \/ \E a, n : n \in Requests /\ a \notin DOMAIN InUse /\ InUse' = With(InUse, a, n)
  \/ \E a \in DOMAIN InUse : InUse' = Without(InUse, a)

LEMMA WithTyped ==
  ASSUME NEW T, NEW f, NEW x, NEW v \in T, f \in [DOMAIN f -> T]
  PROVE  /\ With(f, x, v) \in [DOMAIN With(f, x, v) -> T]
         /\ Without(f, x) \in [DOMAIN Without(f, x) -> T]
BY DEF With, Without

(* The blocks of each heap are at its addresses.                           *)
LEMMA Ranges ==
  /\ HeapsHold => /\ DOMAIN live0 \subseteq HEAP_BASE .. HEAP_1_BASE - 1
                  /\ DOMAIN live1 \subseteq HEAP_1_BASE .. HeapEnd - 1
  /\ HeapsHold' => /\ DOMAIN live0' \subseteq HEAP_BASE .. HEAP_1_BASE - 1
                   /\ DOMAIN live1' \subseteq HEAP_1_BASE .. HeapEnd - 1
<1>1. /\ HEAP_BASE \in Nat /\ HEAP_0_SIZE \in Nat /\ HEAP_1_SIZE \in Nat /\ HEAP_1_BASE \in Nat
      /\ HEAP_1_BASE = HEAP_BASE + HEAP_0_SIZE /\ HeapEnd = HEAP_1_BASE + HEAP_1_SIZE
  BY HeapsAssumed
<1>2. ASSUME NEW lv, NEW base \in Nat, NEW size \in Nat, Within(lv, base, size)
      PROVE  DOMAIN lv \subseteq base .. base + size - 1
  BY <1>2 DEF Within
<1>3. ASSUME HeapsHold
      PROVE  /\ DOMAIN live0 \subseteq HEAP_BASE .. HEAP_1_BASE - 1
             /\ DOMAIN live1 \subseteq HEAP_1_BASE .. HeapEnd - 1
  <2>1. /\ Within(live0, HEAP_BASE, HEAP_0_SIZE)
        /\ Within(live1, HEAP_1_BASE, HEAP_1_SIZE)
    BY <1>3, BlocksTogether
  <2>. QED BY <1>1, <1>2, <2>1
<1>4. ASSUME HeapsHold'
      PROVE  /\ DOMAIN live0' \subseteq HEAP_BASE .. HEAP_1_BASE - 1
             /\ DOMAIN live1' \subseteq HEAP_1_BASE .. HeapEnd - 1
  <2>1. /\ Within(live0', HEAP_BASE, HEAP_0_SIZE)
        /\ Within(live1', HEAP_1_BASE, HEAP_1_SIZE)
    BY <1>4, BlocksTogetherNext
  <2>. QED BY <1>1, <1>2, <2>1
<1>. QED BY <1>3, <1>4

-----------------------------------------------------------------------------
(* The first state.                                                        *)
LEMMA DispInvInit ==
  ASSUME Init
  PROVE  DispInv /\ InUse = << >>
<1>1. HeapsHold
  BY HeapsInit DEF Init
<1>2. live0 = << >> /\ live1 = << >>
  BY DEF Init, Fast!Init, Slow!Init
<1>3. InUse = << >> /\ DOMAIN InUse = {}
  BY <1>2 DEF InUse
<1>4. TypeOK
  <2>1. m_log_obj_map \in [DOMAIN m_log_obj_map -> [size : Requests, fallback : {0, 1}]]
    BY DEF Init
  <2>. QED BY <1>1, <2>1, Ranges DEF Init, TypeOK
<1>5. LogMatchesHeaps
  BY <1>3 DEF Init, LogMatchesHeaps
<1>. QED BY <1>1, <1>3, <1>4, <1>5 DEF DispInv, Init

(* A request, however it ends.                                             *)
LEMMA RequestStep ==
  ASSUME DispInv, status = "running", freeing = NULL,
         NEW sz \in Requests, NEW first \in FirstHeaps, NEW old \in DOMAIN InUse \cup {NULL},
         Place(sz, first),
         \/ \E how \in {"exit", "abort", "corrupted"} : Stop(how, first)
         \/ Return(sz, first, old)
  PROVE  DispInv' /\ Stepped
<1>1. first \in {0, 1} /\ (strategy = "DEFAULT" => first = 0)
  BY DEF FirstHeaps
<1>2. HeapsHold' /\ (Denied \/ \E a : Handed(a, sz)) /\ FastShare(first)
  BY <1>1, PlaceStep DEF DispInv
<1>3. Stepped /\ DOMAIN InUse \subseteq DOMAIN InUse'
  BY <1>2 DEF Denied, Handed, Stepped, With
<1>4. Fallback(first) \in {0, 1} /\ (Fallback(first) = 1 <=> Taken(first) = {})
  BY DEF Fallback, DispInv
<1>5. CASE \E how \in {"exit", "abort", "corrupted"} : Stop(how, first)
  <2>1. /\ status' \in {"exit", "abort", "corrupted"} /\ fallbacked' = Fallback(first)
        /\ UNCHANGED <<strategy, freeing, m_log_obj_map>>
    BY <1>5 DEF Stop
  <2>2. TypeOK'
    BY <1>2, <1>3, <1>4, <2>1, Ranges DEF TypeOK, DispInv
  <2>3. LogMatchesHeaps' /\ status' # "running"
    BY <2>1 DEF LogMatchesHeaps
  <2>. QED BY <1>2, <1>3, <2>2, <2>3 DEF DispInv
<1>6. CASE Return(sz, first, old)
  <2>. DEFINE new == [size |-> sz, fallback |-> Fallback(first)]
  <2>1. /\ m_log_obj_map' = With(m_log_obj_map, returnPointer, new) /\ fallbacked' = 0
        /\ freeing' = old /\ strategy' = strategy /\ status' = "running"
    BY <1>6 DEF Return, log_malloc
  <2>2. TypeOK'
    <3>1. new \in [size : Requests, fallback : {0, 1}]
      BY <1>4
    <3>2. m_log_obj_map' \in [DOMAIN m_log_obj_map' -> [size : Requests, fallback : {0, 1}]]
      BY <2>1, <3>1, WithTyped DEF DispInv, TypeOK
    <3>. QED BY <1>2, <1>3, <2>1, <3>2, Ranges DEF TypeOK, DispInv
  <2>3. /\ DOMAIN m_log_obj_map' = DOMAIN m_log_obj_map \cup {returnPointer}
        /\ m_log_obj_map'[returnPointer] = new
        /\ \A ptr \in DOMAIN m_log_obj_map :
             ptr # returnPointer => m_log_obj_map'[ptr] = m_log_obj_map[ptr]
    BY <2>1 DEF With
  <2>4. /\ DOMAIN m_log_obj_map \ {NULL} = DOMAIN InUse
        /\ \A ptr \in DOMAIN InUse : m_log_obj_map[ptr].size = InUse[ptr]
        /\ strategy = "DEFAULT" =>
             \A ptr \in DOMAIN m_log_obj_map :
               m_log_obj_map[ptr].fallback = 1 <=> ptr \notin DOMAIN live0
    BY DEF DispInv, LogMatchesHeaps
  <2>5. DOMAIN m_log_obj_map' \ {NULL} = DOMAIN InUse'
    BY <1>2, <2>3, <2>4 DEF Denied, Handed, With
  <2>6. \A ptr \in DOMAIN InUse' : m_log_obj_map'[ptr].size = InUse'[ptr]
    <3>1. CASE Denied
      BY <2>3, <2>4, <3>1 DEF Denied
    <3>2. CASE \E a : Handed(a, sz)
      <4>1. PICK a : Handed(a, sz)
        BY <3>2
      <4>2. /\ DOMAIN InUse' = DOMAIN InUse \cup {a} /\ InUse'[a] = sz
            /\ \A ptr \in DOMAIN InUse : InUse'[ptr] = InUse[ptr] /\ ptr # a
            /\ returnPointer = a
        BY <4>1 DEF Handed, With
      <4>. QED BY <2>3, <2>4, <4>2
    <3>. QED BY <1>2, <3>1, <3>2
  <2>7. ASSUME strategy = "DEFAULT", NEW ptr \in DOMAIN m_log_obj_map'
        PROVE  m_log_obj_map'[ptr].fallback = 1 <=> ptr \notin DOMAIN live0'
    <3>1. CASE ptr = returnPointer
      <4>1. first = 0
        BY <1>1, <2>7
      <4>2. Fallback(first) = 1 <=> returnPointer \notin DOMAIN live0'
        BY <1>2, <1>4, <4>1 DEF FastShare
      <4>. QED BY <2>3, <3>1, <4>2
    <3>2. CASE ptr # returnPointer /\ ptr = NULL
      <4>1. NULL \notin DOMAIN live0 /\ NULL \notin DOMAIN live0'
        BY <1>2, NoNull DEF DispInv
      <4>. QED BY <2>3, <2>4, <2>7, <3>2, <4>1
    <3>3. CASE ptr # returnPointer /\ ptr # NULL
      <4>1. ptr \in DOMAIN InUse /\ ptr \in DOMAIN m_log_obj_map
        BY <2>3, <2>4, <3>3
      <4>2. ptr \in DOMAIN live0' <=> ptr \in DOMAIN live0
        BY <1>2, <4>1 DEF FastShare
      <4>. QED BY <2>3, <2>4, <2>7, <3>3, <4>1, <4>2
    <3>. QED BY <3>1, <3>2, <3>3
  <2>8. LogMatchesHeaps'
    BY <2>1, <2>5, <2>6, <2>7 DEF LogMatchesHeaps
  <2>. QED BY <1>2, <1>3, <2>1, <2>2, <2>8 DEF DispInv
<1>. QED BY <1>5, <1>6

(* A free, of a block in use or of no block.                               *)
LEMMA FreeStep ==
  ASSUME DispInv, status = "running",
         NEW ptr \in DOMAIN InUse \cup {NULL} \cup Foreign, free(ptr),
         freeing' = NULL
  PROVE  DispInv' /\ Stepped
<1>1. HeapsHold' /\ InUse' = Without(InUse, ptr) /\ DOMAIN live0' = DOMAIN live0 \ {ptr}
  BY FreeHeaps DEF DispInv
<1>2. /\ m_log_obj_map' = Without(m_log_obj_map, ptr)
      /\ UNCHANGED <<strategy, fallbacked, status>>
  BY DEF free, log_free
<1>3. /\ DOMAIN InUse' = DOMAIN InUse \ {ptr}
      /\ \A a \in DOMAIN InUse' : InUse'[a] = InUse[a]
      /\ DOMAIN m_log_obj_map' = DOMAIN m_log_obj_map \ {ptr}
      /\ \A a \in DOMAIN m_log_obj_map' : m_log_obj_map'[a] = m_log_obj_map[a]
  BY <1>1, <1>2 DEF Without
<1>4. Stepped
  <2>1. CASE ptr \in DOMAIN InUse
    BY <1>1, <2>1 DEF Stepped
  <2>2. CASE ptr \notin DOMAIN InUse
    <3>1. Without(InUse, ptr) = InUse
      BY <2>2 DEF Without, InUse
    <3>. QED BY <1>1, <3>1 DEF Stepped
  <2>. QED BY <2>1, <2>2
<1>5. TypeOK'
  <2>. DEFINE Object == [size : Requests, fallback : {0, 1}]
  <2>1. m_log_obj_map' \in [DOMAIN m_log_obj_map' -> Object]
    <3>1. m_log_obj_map \in [DOMAIN m_log_obj_map -> Object]
      BY DEF DispInv, TypeOK
    <3>. HIDE DEF Object
    <3>. QED BY <1>2, <3>1 DEF Without
  <2>. QED BY <1>1, <1>2, <2>1, Ranges DEF TypeOK, DispInv
<1>6. LogMatchesHeaps'
  <2>1. /\ DOMAIN m_log_obj_map \ {NULL} = DOMAIN InUse
        /\ \A a \in DOMAIN InUse : m_log_obj_map[a].size = InUse[a]
        /\ strategy = "DEFAULT" =>
             \A a \in DOMAIN m_log_obj_map :
               m_log_obj_map[a].fallback = 1 <=> a \notin DOMAIN live0
    BY DEF DispInv, LogMatchesHeaps
  <2>2. DOMAIN m_log_obj_map' \ {NULL} = DOMAIN InUse'
    BY <1>3, <2>1
  <2>3. \A a \in DOMAIN InUse' : m_log_obj_map'[a].size = InUse'[a]
    BY <1>3, <2>1
  <2>4. ASSUME strategy = "DEFAULT", NEW a \in DOMAIN m_log_obj_map'
        PROVE  m_log_obj_map'[a].fallback = 1 <=> a \notin DOMAIN live0'
    BY <1>1, <1>3, <2>1, <2>4
  <2>. QED BY <1>2, <2>2, <2>3, <2>4 DEF LogMatchesHeaps
<1>. QED BY <1>1, <1>2, <1>4, <1>5, <1>6 DEF DispInv

(* Every step keeps the invariant and is a step of the one heap.           *)
LEMMA DispInvStep ==
  ASSUME DispInv, [Next]_vars
  PROVE  DispInv' /\ Stepped
<1>1. \A sz \in Sizes : sz \in Requests
  BY DEF Requests
<1>2. \A num \in Counts, size \in Sizes : CallocSize(num, size) \in Requests
  BY DEF Requests
<1>3. CASE status = "running" /\ freeing = NULL /\ \E sz \in Sizes : malloc(sz)
  <2>1. PICK sz \in Sizes, first \in FirstHeaps :
          Place(sz, first) /\ (Stop("exit", first) \/ Return(sz, first, NULL))
    BY <1>3 DEF malloc
  <2>. QED BY <1>1, <1>3, <2>1, RequestStep
<1>4. CASE status = "running" /\ freeing = NULL
           /\ \E num \in Counts, size \in Sizes : calloc(num, size)
  <2>1. PICK num \in Counts, size \in Sizes : calloc(num, size)
    BY <1>4
  <2>2. PICK sz \in Requests : sz = CallocSize(num, size)
    BY <1>2
  <2>3. PICK first \in FirstHeaps :
          /\ Place(sz, first)
          /\ Stop("exit", first) \/ Stop("corrupted", first) \/ Return(sz, first, NULL)
    BY <2>1, <2>2 DEF calloc
  <2>. QED BY <1>4, <2>3, RequestStep
<1>5. CASE status = "running" /\ freeing = NULL
           /\ \E ptr \in DOMAIN InUse \cup {NULL}, sz \in Sizes : realloc(ptr, sz)
  <2>1. PICK ptr \in DOMAIN InUse \cup {NULL}, sz \in Sizes, first \in FirstHeaps :
          /\ Place(sz, first)
          /\ \/ Stop("exit", first) \/ Stop("abort", first) \/ Stop("corrupted", first)
             \/ Return(sz, first, ptr)
    BY <1>5 DEF realloc
  <2>. QED BY <1>1, <1>5, <2>1, RequestStep
<1>6. CASE NoPrediction
  <2>1. /\ status' = "exit" /\ UNCHANGED <<heap0, heap1>>
        /\ UNCHANGED <<strategy, freeing, fallbacked, m_log_obj_map>>
    BY <1>6 DEF NoPrediction
  <2>2. HeapsHold'
    BY <2>1, FastRests, SlowRests DEF DispInv, HeapsHold
  <2>3. InUse' = InUse
    BY <2>1 DEF InUse, heap0, heap1
  <2>4. TypeOK'
    BY <2>1, <2>2, <2>3, Ranges DEF DispInv, TypeOK
  <2>. QED BY <2>1, <2>2, <2>3, <2>4 DEF DispInv, LogMatchesHeaps, Stepped
<1>7. CASE status = "running" /\ freeing = NULL /\ Free
  <2>1. PICK ptr \in DOMAIN InUse \cup {NULL} \cup Foreign : free(ptr) /\ UNCHANGED freeing
    BY <1>7 DEF Free
  <2>. QED BY <1>7, <2>1, FreeStep
<1>8. CASE status = "running" /\ FinishRealloc
  <2>1. freeing \in DOMAIN InUse \cup {NULL} \cup Foreign
    BY DEF DispInv, TypeOK
  <2>2. free(freeing) /\ freeing' = NULL
    BY <1>8 DEF FinishRealloc
  <2>. QED BY <1>8, <2>1, <2>2, FreeStep
<1>9. CASE UNCHANGED vars
  <2>1. /\ UNCHANGED <<heap0, heap1>>
        /\ UNCHANGED <<status, strategy, freeing, fallbacked, m_log_obj_map>>
    BY <1>9 DEF vars
  <2>2. HeapsHold'
    BY <2>1, FastRests, SlowRests DEF DispInv, HeapsHold
  <2>3. InUse' = InUse /\ live0' = live0
    BY <2>1 DEF InUse, heap0, heap1
  <2>4. TypeOK'
    BY <2>1, <2>2, <2>3, Ranges DEF DispInv, TypeOK
  <2>5. LogMatchesHeaps'
    BY <2>1, <2>3 DEF DispInv, LogMatchesHeaps
  <2>. QED BY <2>1, <2>2, <2>3, <2>4, <2>5 DEF DispInv, Stepped
<1>. QED BY <1>3, <1>4, <1>5, <1>6, <1>7, <1>8, <1>9 DEF Next, Request

-----------------------------------------------------------------------------
(* The invariant tells to which object an access is counted: the objects   *)
(* of the log that lie before it end with the one it is in.                *)
LEMMA InvAttributes ==
  ASSUME DispInv
  PROVE  AccessesAttributed
<1>. SUFFICES ASSUME status = "running", NEW ptr \in DOMAIN InUse,
                     NEW addr \in ptr .. ptr + InUse[ptr] - 1
              PROVE  Accessed(addr) = {ptr}
  BY DEF AccessesAttributed
<1>1. /\ DOMAIN m_log_obj_map \ {NULL} = DOMAIN InUse
      /\ \A p \in DOMAIN InUse : m_log_obj_map[p].size = InUse[p]
  BY DEF DispInv, LogMatchesHeaps
<1>2. Within(InUse, HEAP_BASE, HeapSizes)
  BY BlocksTogether DEF DispInv
<1>3. /\ ptr \in Nat /\ InUse[ptr] \in Nat /\ addr \in Nat /\ NULL < ptr
      /\ ptr <= addr /\ addr < ptr + InUse[ptr]
  BY <1>2, HeapsAssumed DEF Within, NULL
<1>4. ASSUME NEW p \in DOMAIN m_log_obj_map
      PROVE  p \in Nat /\ (p <= addr => p <= ptr)
  <2>1. CASE p = NULL
    BY <1>3, <2>1 DEF NULL
  <2>2. CASE p # NULL
    <3>1. p \in DOMAIN InUse
      BY <1>1, <2>2
    <3>2. p \in Nat /\ InUse[p] \in Nat
          /\ (p # ptr => p + InUse[p] < ptr \/ ptr + InUse[ptr] < p)
      BY <1>2, <3>1 DEF Within
    <3>. QED BY <1>3, <3>2
  <2>. QED BY <2>1, <2>2
<1>. DEFINE after == {p \in DOMAIN m_log_obj_map : p > addr}
            before == DOMAIN m_log_obj_map \ after
<1>5. ptr \in before /\ \A p \in before : p \in Nat /\ p <= ptr
  BY <1>1, <1>3, <1>4
<1>6. Max(before) = ptr
  <2>. HIDE DEF before
  <2>1. \A q \in before : (\A p \in before : q >= p) => q = ptr
    BY <1>5
  <2>2. \A p \in before : ptr >= p
    BY <1>5
  <2>. QED BY <1>5, <2>1, <2>2 DEF Max
<1>7. ptr + m_log_obj_map[ptr].size > addr
  BY <1>1, <1>3
<1>8. Accessed(addr) = {Max(before)} \cap {p \in before : addr < p + m_log_obj_map[p].size}
  BY <1>5, <1>6, <1>7 DEF Accessed
<1>9. {ptr} \cap {p \in before : addr < p + m_log_obj_map[p].size} = {ptr}
  <2>1. addr < ptr + m_log_obj_map[ptr].size
    BY <1>1, <1>3
  <2>. HIDE DEF before
  <2>. QED BY <1>5, <2>1
<1>. QED BY <1>6, <1>8, <1>9

(* A step of the library is a step of the one heap, or none.               *)
LEMMA OneHeapStep ==
  ASSUME DispInv', Stepped
  PROVE  [OneHeap!Next]_InUse
<1>1. CASE InUse' = InUse
  BY <1>1
<1>2. ASSUME NEW a, NEW n \in Requests, a \notin DOMAIN InUse, InUse' = With(InUse, a, n)
      PROVE  OneHeap!Malloc(n)
  <2>1. /\ DOMAIN InUse' = DOMAIN InUse \cup {a} /\ InUse'[a] = n
        /\ \A q \in DOMAIN InUse : InUse'[q] = InUse[q]
    BY <1>2 DEF With
  <2>2. Within(InUse', HEAP_BASE, HeapSizes)
    BY BlocksTogetherNext DEF DispInv
  <2>3. /\ a \in Nat /\ n \in Nat /\ a % 8 = 0
        /\ HEAP_BASE < a /\ a + n <= HEAP_BASE + HeapSizes
        /\ \A q \in DOMAIN InUse :
             /\ q \in Nat /\ InUse[q] \in Nat
             /\ a + n < q \/ q + InUse[q] < a
    BY <1>2, <2>1, <2>2 DEF Within
  <2>4. HEAP_BASE \in Nat /\ HeapSizes \in Nat /\ HeapSizes = HEAP_0_SIZE + HEAP_1_SIZE
    BY HeapsAssumed DEF HeapSizes
  <2>5. a \in HEAP_BASE .. HEAP_BASE + (HEAP_0_SIZE + HEAP_1_SIZE) - n
    BY <2>3, <2>4
  <2>6. \A q \in DOMAIN InUse : a + n <= q \/ q + InUse[q] <= a
    BY <2>3
  <2>7. a \in OneHeap!Places(n)
    BY <2>3, <2>5, <2>6 DEF OneHeap!Places
  <2>. QED BY <1>2, <2>7 DEF OneHeap!Malloc, With
<1>3. CASE \E a \in DOMAIN InUse : InUse' = Without(InUse, a)
  BY <1>3 DEF Without, OneHeap!Next, OneHeap!Free
<1>. QED BY <1>1, <1>2, <1>3 DEF Stepped, OneHeap!Next

-----------------------------------------------------------------------------
(* The variables keep their types, each block is in the heap that counts   *)
(* it, and realloc frees an object that is in use.                         *)
THEOREM TypeCorrect == Spec => []TypeOK
<1>1. Init => DispInv
  BY DispInvInit
<1>2. DispInv /\ [Next]_vars => DispInv'
  BY DispInvStep
<1>3. DispInv => TypeOK
  BY DEF DispInv
<1>. QED BY <1>1, <1>2, <1>3, PTL DEF Spec

(* While the program runs, the objects that the platform has in its log    *)
(* are the blocks in use of both heaps, with the sizes asked, and with the *)
(* default strategy those marked as fallbacks are the ones outside the     *)
(* fast heap, whatever malloc, calloc, realloc and free are called with.   *)
THEOREM LogAgrees == Spec => []LogMatchesHeaps
<1>1. Init => DispInv
  BY DispInvInit
<1>2. DispInv /\ [Next]_vars => DispInv'
  BY DispInvStep
<1>3. DispInv => LogMatchesHeaps
  BY DEF DispInv
<1>. QED BY <1>1, <1>2, <1>3, PTL DEF Spec

(* The log counts every access to a byte of a block in use to that block.  *)
THEOREM Attributed == Spec => []AccessesAttributed
<1>1. Init => DispInv
  BY DispInvInit
<1>2. DispInv /\ [Next]_vars => DispInv'
  BY DispInvStep
<1>3. DispInv => AccessesAttributed
  BY InvAttributes
<1>. QED BY <1>1, <1>2, <1>3, PTL DEF Spec

(* The library with its two heaps is one heap to the program: a request is *)
(* answered by one new block, apart from all blocks in use, or by none,    *)
(* and a free takes back the block it names.                               *)
THEOREM Refinement == Spec => ImplementsOneHeap
<1>1. Init => DispInv /\ OneHeap!Init
  BY DispInvInit DEF OneHeap!Init
<1>2. DispInv /\ [Next]_vars => DispInv' /\ [OneHeap!Next]_InUse
  BY DispInvStep, OneHeapStep
<1>. QED BY <1>1, <1>2, PTL DEF Spec, ImplementsOneHeap, OneHeap!Spec
=============================================================================
