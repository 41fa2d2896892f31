--------------------------- MODULE DLMalloc_proofs ---------------------------
(***************************************************************************)
(* Theorems about DLMalloc, for any heap, any sizes of requests and any    *)
(* number of blocks: whatever the program asks for and gives back, the     *)
(* boundary tags, the bins and the biggest free block describe the same    *)
(* free memory, blocks keep clear of each other and of the allocator's own *)
(* words, the search is by best fit, and the heap is a BlockHeap.          *)
(*                                                                         *)
(* The parts of the invariant take the fields of a context, so that what   *)
(* only changes the lists leaves the tiling alone, and the reverse.        *)
(***************************************************************************)
EXTENDS DLMalloc, FiniteSetTheorems, SequenceTheorems, WellFoundedInduction, TLAPS

-----------------------------------------------------------------------------
(* Numbers.                                                                *)

(* The heap lies at positive addresses, is longer than a chunk and shorter *)
(* than the address space.                                                 *)
LEMMA HeapNumbers ==
  /\ heap_base \in Nat /\ heap_base >= 8 /\ heap_base % 8 = 0
  /\ heap_max_size \in Nat /\ heap_max_size >= 20
  /\ Word \in Nat /\ Word >= 32 /\ Word % 16 = 0
  /\ \A n \in Requests : n \in Nat /\ n < Word
BY HeapAssumption

(* A set of natural numbers that is not empty has a least element.         *)
LEMMA Least ==
  ASSUME NEW S \in SUBSET Nat, S # {}
  PROVE  \E m \in S : \A k \in S : m <= k
<1> DEFINE R == OpToRel(<, Nat)
<1>1. IsWellFoundedOn(R, Nat)
  BY NatLessThanWellFounded, Zenon
<1>2. PICK m \in S : \A k \in S : ~ (<<k, m>> \in R)
  <2>. HIDE DEF R
  <2>. QED BY <1>1, WFMin, Zenon
<1>3. \A k \in S : ~ (k < m)
  BY <1>2, Zenon DEF OpToRel
<1>. QED BY <1>3

(* Min finds the least element of a set of natural numbers.                *)
LEMMA MinIsLeast ==
  ASSUME NEW S \in SUBSET Nat, S # {}
  PROVE  Min(S) \in S /\ \A k \in S : Min(S) <= k
BY Least DEF Min

(* Max finds the greatest element of a bounded set of natural numbers.     *)
LEMMA MaxIsGreatest ==
  ASSUME NEW S \in SUBSET Nat, S # {}, NEW n \in Nat, \A k \in S : k <= n
  PROVE  Max(S) \in S /\ \A k \in S : k <= Max(S)
<1> DEFINE T == {n - k : k \in S}
<1>1. T \in SUBSET Nat /\ T # {}
  OBVIOUS
<1>2. PICK m \in T : \A k \in T : m <= k
  BY <1>1, Least
<1>3. n - m \in S /\ \A k \in S : k <= n - m
  BY <1>2
<1>. QED BY <1>3 DEF Max

(* A request that is not too big becomes a chunk with room for it and for  *)
(* the size field, of a multiple of 8 and at least 16 bytes.               *)
LEMMA RequestSize ==
  ASSUME NEW n \in Requests, ~TooBig(n)
  PROVE  /\ request2size(n) \in Nat /\ request2size(n) % 8 = 0
         /\ request2size(n) >= 16 /\ request2size(n) >= n + 4
<1> DEFINE padded == (n + 11) % Word
<1>1. n \in Nat /\ n < Word /\ Word \in Nat /\ Word >= 32
  BY HeapNumbers
<1>2. request2size(n) = IF padded < 23 THEN 16 ELSE padded - (padded % 8)
  <2>1. n + SIZE_SZ + MALLOC_ALIGNMENT - 1 = n + 11
    BY <1>1 DEF SIZE_SZ, MALLOC_ALIGNMENT
  <2>. QED BY <2>1 DEF request2size, SIZE_SZ, MALLOC_ALIGNMENT, MINSIZE
<1>3. request2size(n) >= n
  BY <1>1, <1>2 DEF TooBig
<1>4. CASE n + 11 < Word
  <2>1. padded = n + 11
    BY <1>1, <1>4
  <2>. QED BY <1>1, <1>2, <2>1
<1>5. CASE n + 11 >= Word
  <2>1. padded = n + 11 - Word
    BY <1>1, <1>5
  <2>. QED BY <1>1, <1>2, <1>3, <1>5, <2>1
<1>. QED BY <1>1, <1>4, <1>5

(* The bin of a size, range by range.                                      *)
LEMMA BinRanges ==
  ASSUME NEW s \in Nat
  PROVE  /\ s < 512 => bin_index(s) = s \div 8
         /\ 512 <= s /\ s < 2560 => bin_index(s) = 56 + s \div 64
         /\ 2560 <= s /\ s < 10752 => bin_index(s) = 91 + s \div 512
         /\ 10752 <= s /\ s < 43520 => bin_index(s) = 110 + s \div 4096
         /\ 43520 <= s /\ s < 174592 => bin_index(s) = 119 + s \div 32768
         /\ 174592 <= s /\ s < 698880 => bin_index(s) = 124 + s \div 262144
         /\ 698880 <= s => bin_index(s) = 126
<1> DEFINE h == s \div 512
<1>1. h \in Nat
  OBVIOUS
<1>2. bin_index(s) =
        CASE h = 0                -> s \div 8
          [] 0 < h /\ h <= 4      -> 56 + s \div 64
          [] 4 < h /\ h <= 20     -> 91 + s \div 512
          [] 20 < h /\ h <= 84    -> 110 + s \div 4096
          [] 84 < h /\ h <= 340   -> 119 + s \div 32768
          [] 340 < h /\ h <= 1364 -> 124 + s \div 262144
          [] OTHER                -> 126
  BY DEF bin_index
<1>3. /\ h = 0 <=> s < 512
      /\ (0 < h /\ h <= 4) <=> (512 <= s /\ s < 2560)
      /\ (4 < h /\ h <= 20) <=> (2560 <= s /\ s < 10752)
      /\ (20 < h /\ h <= 84) <=> (10752 <= s /\ s < 43520)
      /\ (84 < h /\ h <= 340) <=> (43520 <= s /\ s < 174592)
      /\ (340 < h /\ h <= 1364) <=> (174592 <= s /\ s < 698880)
  OBVIOUS
<1> HIDE DEF h
<1>. QED BY <1>1, <1>2, <1>3, SMT

(* Bins are numbered by size: a larger chunk is in the same bin or in a    *)
(* later one.                                                              *)
LEMMA BinMonotone ==
  ASSUME NEW s \in Nat, NEW t \in Nat, s <= t
  PROVE  bin_index(s) <= bin_index(t)
<1>1. /\ s \div 8 <= t \div 8 /\ s \div 64 <= t \div 64 /\ s \div 512 <= t \div 512
      /\ s \div 4096 <= t \div 4096 /\ s \div 32768 <= t \div 32768
      /\ s \div 262144 <= t \div 262144
  BY SMT
<1>2. \A r \in Nat :
        /\ r < 512 => bin_index(r) <= 63
        /\ 512 <= r /\ r < 2560 => 64 <= bin_index(r) /\ bin_index(r) <= 95
        /\ 2560 <= r /\ r < 10752 => 96 <= bin_index(r) /\ bin_index(r) <= 111
        /\ 10752 <= r /\ r < 43520 => 112 <= bin_index(r) /\ bin_index(r) <= 120
        /\ 43520 <= r /\ r < 174592 => 120 <= bin_index(r) /\ bin_index(r) <= 124
        /\ 174592 <= r /\ r < 698880 => 124 <= bin_index(r) /\ bin_index(r) <= 126
        /\ 698880 <= r => bin_index(r) = 126
  BY BinRanges, SMT
<1>. QED BY <1>1, <1>2, BinRanges, SMT

(* The bin of a chunk is one of the bins; those below 64 hold one size.    *)
LEMMA BinNumbers ==
  ASSUME NEW s \in Nat, s >= 16, s % 8 = 0
  PROVE  /\ bin_index(s) \in Nat /\ bin_index(s) \in Bins
         /\ bin_index(s) < 64 <=> s < 512
         /\ bin_index(s) < 64 => s = 8 * bin_index(s)
<1>1. /\ s < 512 => bin_index(s) = s \div 8
      /\ 512 <= s => 64 <= bin_index(s)
      /\ bin_index(s) \in Nat /\ bin_index(s) <= 126
  BY BinRanges, SMT
<1>2. 2 <= bin_index(s)
  BY <1>1
<1>3. \A i \in Nat : 2 <= i /\ i <= 126 => i \in Bins
  BY SMT DEF Bins
<1>. QED BY <1>1, <1>2, <1>3, SMT

-----------------------------------------------------------------------------
(* Lists.                                                                  *)

(* The members of a list, and of a family of lists.                        *)
Members(list) == {list[j] : j \in 1 .. Len(list)}
Listed(bins) == UNION {Members(bins[i]) : i \in Bins}

(* No chunk is twice on a list.                                            *)
Distinct(list) == \A j, k \in 1 .. Len(list) : j < k => list[j] # list[k]

(* The elements of t are elements of s, in the same order.                 *)
InOrderOf(t, s) ==
  \A j, k \in 1 .. Len(t) : j < k =>
    \E m, n \in 1 .. Len(s) : m < n /\ t[j] = s[m] /\ t[k] = s[n]

(* A concatenation, element by element.                                    *)
LEMMA Joined ==
  ASSUME NEW a \in Seq(Nat), NEW b \in Seq(Nat), NEW m \in Nat, Len(a) = m
  PROVE  /\ a \o b \in Seq(Nat)
         /\ Len(a \o b) = m + Len(b)
         /\ \A j \in 1 .. m : (a \o b)[j] = a[j]
         /\ \A j \in 1 .. Len(b) : (a \o b)[m + j] = b[j]
<1>1. PICK c : c = a \o b
  OBVIOUS
<1>2. PICK l \in Nat : l = Len(b)
  BY LenProperties
<1>3. /\ c \in Seq(Nat) /\ Len(c) = m + l
      /\ \A i \in 1 .. m + l : c[i] = IF i <= m THEN a[i] ELSE b[i - m]
  BY <1>1, <1>2, ConcatProperties, Zenon
<1>4. ASSUME NEW j \in 1 .. l PROVE c[m + j] = b[j]
  <2>1. m + j \in 1 .. m + l /\ ~ (m + j <= m) /\ m + j - m = j
    BY <1>2
  <2>. QED BY <1>3, <2>1
<1>5. \A j \in 1 .. m : j \in 1 .. m + l /\ j <= m
  BY <1>2
<1>6. \A j \in 1 .. m : c[j] = a[j]
  BY <1>3, <1>5, Zenon
<1>. QED BY <1>1, <1>2, <1>3, <1>4, <1>6, Zenon

(* A part of a list, element by element.                                   *)
LEMMA Part ==
  ASSUME NEW s \in Seq(Nat), NEW l \in Nat, Len(s) = l,
         NEW m \in 1 .. l + 1, NEW n \in m - 1 .. l
  PROVE  /\ SubSeq(s, m, n) \in Seq(Nat)
         /\ Len(SubSeq(s, m, n)) = n - m + 1
         /\ \A j \in 1 .. n - m + 1 : SubSeq(s, m, n)[j] = s[m + j - 1]
<1>1. \A j \in 1 .. l : s[j] \in Nat
  BY ElementOfSeq
<1>2. m \in Int /\ n \in Int /\ \A j \in m .. n : s[j] \in Nat
  BY <1>1
<1>3. /\ SubSeq(s, m, n) \in Seq(Nat)
      /\ Len(SubSeq(s, m, n)) = IF m <= n THEN n - m + 1 ELSE 0
      /\ \A i \in 1 .. n - m + 1 : SubSeq(s, m, n)[i] = s[m + i - 1]
  BY <1>2, SubSeqProperties
<1>4. (IF m <= n THEN n - m + 1 ELSE 0) = n - m + 1
  OBVIOUS
<1>. QED BY <1>3, <1>4, Zenon

(* What is left of a list without its n-th element.                        *)
LEMMA Removed ==
  ASSUME NEW s \in Seq(Nat), NEW n \in 1 .. Len(s)
  PROVE  LET t == RemoveAt(s, n)
         IN /\ t \in Seq(Nat) /\ Len(t) = Len(s) - 1
            /\ \A j \in 1 .. Len(s) : j < n => t[j] = s[j]
            /\ \A j \in 1 .. Len(s) : j > n => t[j - 1] = s[j]
<1>1. PICK l \in Nat : l = Len(s)
  BY LenProperties
<1>2. PICK a \in Seq(Nat) : /\ a = SubSeq(s, 1, n - 1) /\ Len(a) = n - 1
                            /\ \A j \in 1 .. n - 1 : a[j] = s[j]
  <2>1. /\ 1 \in 1 .. l + 1 /\ n - 1 \in 1 - 1 .. l /\ n - 1 - 1 + 1 = n - 1
        /\ \A j \in 1 .. n - 1 : 1 + j - 1 = j
    BY <1>1
  <2>2. PICK a \in Seq(Nat) : /\ a = SubSeq(s, 1, n - 1) /\ Len(a) = n - 1 - 1 + 1
                              /\ \A j \in 1 .. n - 1 - 1 + 1 : a[j] = s[1 + j - 1]
    BY <1>1, <2>1, Part, Zenon
  <2>. QED BY <2>1, <2>2
<1>3. PICK b \in Seq(Nat) : /\ b = SubSeq(s, n + 1, l) /\ Len(b) = l - n
                            /\ \A j \in 1 .. l - n : b[j] = s[n + j]
  <2>1. PICK k : k = n + 1
    OBVIOUS
  <2>2. /\ k \in 1 .. l + 1 /\ l \in k - 1 .. l /\ l - k + 1 = l - n
        /\ \A j \in 1 .. l - n : k + j - 1 = n + j
    BY <1>1, <2>1
  <2>3. PICK b \in Seq(Nat) : /\ b = SubSeq(s, k, l) /\ Len(b) = l - k + 1
                              /\ \A j \in 1 .. l - k + 1 : b[j] = s[k + j - 1]
    BY <1>1, <2>2, Part, Zenon
  <2>4. Len(b) = l - n /\ 1 .. l - k + 1 = 1 .. l - n
    BY <2>2, <2>3, Zenon
  <2>5. \A j \in 1 .. l - n : b[j] = s[n + j]
    BY <2>2, <2>3, <2>4, Zenon
  <2>. QED BY <2>1, <2>3, <2>4, <2>5, Zenon
<1>4. n - 1 \in Nat
  BY <1>1
<1>5. PICK t \in Seq(Nat) : /\ t = a \o b
                            /\ Len(t) = n - 1 + Len(b)
                            /\ \A j \in 1 .. n - 1 : t[j] = a[j]
                            /\ \A j \in 1 .. Len(b) : t[n - 1 + j] = b[j]
  BY <1>2, <1>4, Joined, Zenon
<1>6. t = RemoveAt(s, n)
  BY <1>1, <1>2, <1>3, <1>5, Zenon DEF RemoveAt
<1>7. ASSUME NEW j \in 1 .. l, j < n PROVE t[j] = s[j]
  <2>1. j \in 1 .. n - 1
    BY <1>1, <1>7
  <2>. QED BY <1>2, <1>5, <2>1, Zenon
<1>8. ASSUME NEW j \in 1 .. l, j > n PROVE t[j - 1] = s[j]
  <2>1. j - n \in 1 .. l - n /\ n - 1 + (j - n) = j - 1 /\ n + (j - n) = j
    BY <1>1, <1>8
  <2>2. t[n - 1 + (j - n)] = b[j - n] /\ b[j - n] = s[n + (j - n)]
    BY <1>3, <1>5, <2>1, Zenon
  <2>. QED BY <2>1, <2>2
<1>9. Len(t) = l - 1
  <2>1. Len(t) = n - 1 + (l - n)
    BY <1>3, <1>5, Zenon
  <2>. QED BY <1>1, <2>1
<1>. QED BY <1>1, <1>6, <1>7, <1>8, <1>9, Zenon

(* A list with an element more, the n-th.                                  *)
LEMMA Inserted ==
  ASSUME NEW s \in Seq(Nat), NEW n \in 1 .. Len(s) + 1, NEW p \in Nat
  PROVE  LET t == InsertAt(s, n, p)
         IN /\ t \in Seq(Nat) /\ Len(t) = Len(s) + 1 /\ t[n] = p
            /\ \A j \in 1 .. Len(s) : j < n => t[j] = s[j]
            /\ \A j \in 1 .. Len(s) : j >= n => t[j + 1] = s[j]
<1>1. PICK l \in Nat : l = Len(s)
  BY LenProperties
<1>2. PICK a \in Seq(Nat) : /\ a = SubSeq(s, 1, n - 1) /\ Len(a) = n - 1
                            /\ \A j \in 1 .. n - 1 : a[j] = s[j]
  <2>1. /\ 1 \in 1 .. l + 1 /\ n - 1 \in 1 - 1 .. l /\ n - 1 - 1 + 1 = n - 1
        /\ \A j \in 1 .. n - 1 : 1 + j - 1 = j
    BY <1>1
  <2>2. PICK a \in Seq(Nat) : /\ a = SubSeq(s, 1, n - 1) /\ Len(a) = n - 1 - 1 + 1
                              /\ \A j \in 1 .. n - 1 - 1 + 1 : a[j] = s[1 + j - 1]
    BY <1>1, <2>1, Part, Zenon
  <2>. QED BY <2>1, <2>2
<1>3. PICK b \in Seq(Nat) : /\ b = SubSeq(s, n, l) /\ Len(b) = l - n + 1
                            /\ \A j \in 1 .. l - n + 1 : b[j] = s[n + j - 1]
  <2>1. n \in 1 .. l + 1 /\ l \in n - 1 .. l
    BY <1>1
  <2>. QED BY <1>1, <2>1, Part, Zenon
<1>4. PICK q \in Seq(Nat) : q = <<p>> /\ Len(q) = 1 /\ q[1] = p
  <2>1. <<p>> \in Seq(Nat) /\ Len(<<p>>) = 1 /\ <<p>>[1] = p
    OBVIOUS
  <2>. QED BY <2>1, Zenon
<1>5. n - 1 \in Nat /\ n \in Nat /\ n - 1 + 1 = n
  BY <1>1
<1>6. PICK c \in Seq(Nat) : /\ c = a \o q /\ Len(c) = n
                            /\ \A j \in 1 .. n - 1 : c[j] = a[j]
                            /\ c[n] = p
  <2>a. PICK m \in Nat : m = n - 1
    BY <1>5
  <2>b. a \in Seq(Nat) /\ q \in Seq(Nat) /\ m \in Nat /\ Len(a) = m
    BY <1>2, <1>4, <2>a, Zenon
  <2>c. PICK c \in Seq(Nat) : /\ c = a \o q /\ Len(c) = m + Len(q)
                              /\ \A j \in 1 .. m : c[j] = a[j]
                              /\ \A j \in 1 .. Len(q) : c[m + j] = q[j]
    <3>1. /\ a \o q \in Seq(Nat)
          /\ Len(a \o q) = m + Len(q)
          /\ \A j \in 1 .. m : (a \o q)[j] = a[j]
          /\ \A j \in 1 .. Len(q) : (a \o q)[m + j] = q[j]
      BY <2>b, Joined, Zenon
    <3>. QED BY <3>1, Zenon
  <2>1. /\ c = a \o q /\ Len(c) = n - 1 + Len(q)
        /\ \A j \in 1 .. n - 1 : c[j] = a[j]
        /\ \A j \in 1 .. Len(q) : c[n - 1 + j] = q[j]
    BY <2>a, <2>c, Zenon
  <2>2. 1 \in 1 .. Len(q)
    BY <1>4
  <2>3. c[n - 1 + 1] = q[1]
    BY <2>1, <2>2, Zenon
  <2>. QED BY <1>4, <1>5, <2>1, <2>3
<1>7. PICK t \in Seq(Nat) : /\ t = c \o b
                            /\ Len(t) = n + Len(b)
                            /\ \A j \in 1 .. n : t[j] = c[j]
                            /\ \A j \in 1 .. Len(b) : t[n + j] = b[j]
  <2>1. c \in Seq(Nat) /\ b \in Seq(Nat) /\ n \in Nat /\ Len(c) = n
    BY <1>3, <1>5, <1>6, Zenon
  <2>. QED BY <2>1, Joined
<1>8. t = InsertAt(s, n, p)
  BY <1>1, <1>2, <1>3, <1>4, <1>6, <1>7, Zenon DEF InsertAt
<1>9. ASSUME NEW j \in 1 .. l, j < n PROVE t[j] = s[j]
  <2>1. j \in 1 .. n - 1 /\ j \in 1 .. n
    BY <1>1, <1>9
  <2>. QED BY <1>2, <1>6, <1>7, <2>1, Zenon
<1>10. ASSUME NEW j \in 1 .. l, j >= n PROVE t[j + 1] = s[j]
  <2>1. /\ j - n + 1 \in 1 .. l - n + 1 /\ n + (j - n + 1) = j + 1
        /\ n + (j - n + 1) - 1 = j
    BY <1>1, <1>10
  <2>2. t[n + (j - n + 1)] = b[j - n + 1] /\ b[j - n + 1] = s[n + (j - n + 1) - 1]
    BY <1>3, <1>7, <2>1, Zenon
  <2>. QED BY <2>1, <2>2
<1>11. Len(t) = l + 1 /\ t[n] = p
  <2>1. Len(t) = n + (l - n + 1)
    BY <1>3, <1>7, Zenon
  <2>2. n \in 1 .. n
    BY <1>5
  <2>. QED BY <1>1, <1>6, <1>7, <2>1, <2>2
<1>. QED BY <1>1, <1>8, <1>9, <1>10, <1>11, Zenon

(* Taking a chunk off a list on which it is at most once leaves the others *)
(* where they were.                                                        *)
LEMMA Unlinked ==
  ASSUME NEW s \in Seq(Nat), Distinct(s), NEW p
  PROVE  /\ RemoveFirst(s, p) \in Seq(Nat)
         /\ Members(RemoveFirst(s, p)) = Members(s) \ {p}
         /\ InOrderOf(RemoveFirst(s, p), s)
<1>1. PICK l \in Nat : l = Len(s)
  BY LenProperties
<1>2. CASE \E i \in 1 .. Len(s) : s[i] = p
  <2> DEFINE I == {i \in 1 .. Len(s) : s[i] = p}
  <2>1. I \in SUBSET Nat /\ I # {}
    BY <1>1, <1>2
  <2>2. PICK n \in I : n = Min(I)
    BY <1>1, <2>1, MinIsLeast
  <2>3. n \in 1 .. l /\ s[n] = p
    BY <1>1, <2>2
  <2>4. RemoveFirst(s, p) = RemoveAt(s, n)
    BY <1>2, <2>1, <2>2 DEF RemoveFirst, SelectInSeq
  <2> HIDE DEF I
  <2>5. PICK t \in Seq(Nat) :
          /\ t = RemoveAt(s, n) /\ Len(t) = l - 1
          /\ \A j \in 1 .. l : j < n => t[j] = s[j]
          /\ \A j \in 1 .. l : j > n => t[j - 1] = s[j]
    BY <1>1, <2>3, Removed, Zenon
  <2> DEFINE Was(k) == IF k < n THEN k ELSE k + 1
  <2>a. \A k \in 1 .. l - 1 : Was(k) \in 1 .. l /\ Was(k) # n
    BY <1>1, <2>3
  <2>b. \A j, k \in 1 .. l - 1 : j < k => Was(j) < Was(k)
    BY <1>1, <2>3
  <2>6. \A k \in 1 .. l - 1 : t[k] = s[Was(k)]
    <3>1. ASSUME NEW k \in 1 .. l - 1, ~ (k < n) PROVE t[k] = s[k + 1]
      <4>1. PICK m \in 1 .. l : m = k + 1 /\ m > n
        BY <1>1, <2>3, <3>1
      <4>2. t[m - 1] = s[m]
        BY <2>5, <4>1, Zenon
      <4>. QED BY <4>1, <4>2
    <3>2. \A k \in 1 .. l - 1 : k \in 1 .. l
      BY <1>1
    <3>. QED BY <2>5, <3>1, <3>2
  <2> HIDE DEF Was
  <2>7. \A k \in 1 .. l : s[k] # p => \E j \in 1 .. l - 1 : t[j] = s[k]
    <3>1. ASSUME NEW k \in 1 .. l, s[k] # p PROVE \E j \in 1 .. l - 1 : t[j] = s[k]
      <4>1. CASE k < n
        <5>1. k \in 1 .. l - 1
          BY <1>1, <2>3, <4>1
        <5>. QED BY <1>1, <2>5, <4>1, <5>1
      <4>2. CASE k > n
        <5>1. k - 1 \in 1 .. l - 1
          BY <1>1, <2>3, <4>2
        <5>. QED BY <1>1, <2>5, <4>2, <5>1
      <4>. QED BY <1>1, <2>3, <3>1, <4>1, <4>2
    <3>. QED BY <1>1, <3>1
  <2>8. \A k \in 1 .. l - 1 : \E m \in 1 .. l : t[k] = s[m] /\ s[m] # p
    <3>1. \A m \in 1 .. l : m # n => s[m] # p
      BY <1>1, <2>3 DEF Distinct
    <3>. QED BY <2>a, <2>6, <3>1, Zenon
  <2>9. \A j, k \in 1 .. l - 1 : j < k =>
          \E x, y \in 1 .. l : x < y /\ t[j] = s[x] /\ t[k] = s[y]
    BY <2>a, <2>b, <2>6, Zenon
  <2>10. Members(t) = Members(s) \ {p}
    <3>1. Len(t) = l - 1 /\ Len(s) = l
      BY <1>1, <2>5
    <3>2. /\ \A x : x \in Members(t) <=> \E k \in 1 .. l - 1 : x = t[k]
          /\ \A x : x \in Members(s) <=> \E k \in 1 .. l : x = s[k]
      BY <3>1, Zenon DEF Members
    <3>3. ASSUME NEW x \in Members(t) PROVE x \in Members(s) \ {p}
      <4>1. PICK k \in 1 .. l - 1 : x = t[k]
        BY <3>2, <3>3, Zenon
      <4>2. PICK m \in 1 .. l : t[k] = s[m] /\ s[m] # p
        BY <2>8, Zenon
      <4>3. x = s[m] /\ x # p
        BY <4>1, <4>2
      <4>. QED BY <3>2, <4>3, Zenon
    <3>4. ASSUME NEW x \in Members(s), x # p PROVE x \in Members(t)
      BY <2>7, <3>2, <3>4, Zenon
    <3>. QED BY <3>3, <3>4, Zenon
  <2>11. InOrderOf(t, s)
    <3>1. 1 .. Len(t) = 1 .. l - 1 /\ 1 .. Len(s) = 1 .. l
      BY <1>1, <2>5
    <3>2. \A j, k \in 1 .. Len(t) : j \in 1 .. l - 1 /\ k \in 1 .. l - 1
      BY <3>1
    <3>3. ASSUME NEW j \in 1 .. Len(t), NEW k \in 1 .. Len(t), j < k
          PROVE  \E x, y \in 1 .. Len(s) : x < y /\ t[j] = s[x] /\ t[k] = s[y]
      <4>1. PICK x \in 1 .. l, y \in 1 .. l : x < y /\ t[j] = s[x] /\ t[k] = s[y]
        BY <2>9, <3>2, <3>3, Zenon
      <4>2. x \in 1 .. Len(s) /\ y \in 1 .. Len(s)
        BY <3>1, <4>1
      <4>. QED BY <4>1, <4>2, Zenon
    <3>. QED BY <3>3, Zenon DEF InOrderOf
  <2>. QED BY <2>4, <2>5, <2>10, <2>11
<1>3. CASE ~ \E i \in 1 .. Len(s) : s[i] = p
  <2>1. RemoveFirst(s, p) = s
    BY <1>3 DEF RemoveFirst
  <2>. QED BY <1>3, <2>1 DEF Members, InOrderOf
<1>. QED BY <1>2, <1>3

-----------------------------------------------------------------------------
(* The bins: lists of distinct chunks, each of the sizes of its bin, the   *)
(* largest first.                                                          *)

Descending(list, head) ==
  \A j, k \in 1 .. Len(list) : j < k => head[list[k]].size <= head[list[j]].size

OfBin(list, i, head) ==
  \A p \in Members(list) : head[p].size \in Nat /\ bin_index(head[p].size) = i

Binned(bins, head) ==
  /\ bins = [i \in Bins |-> bins[i]]
  /\ \A i \in Bins : /\ bins[i] \in Seq(Nat) /\ Distinct(bins[i])
                     /\ Descending(bins[i], head) /\ OfBin(bins[i], i, head)

(* A bin that has chunks is in a marked block.                             *)
Marked(bins, marks) ==
  /\ \A b \in marks : b \in Nat /\ b <= 31
  /\ \A i \in Bins : bins[i] # << >> => idx2binblock(i) \in marks

(* A list without members is the empty list.                               *)
LEMMA NoMembers ==
  ASSUME NEW list \in Seq(Nat)
  PROVE  list = << >> <=> Members(list) = {}
<1>1. PICK l \in Nat : l = Len(list)
  BY LenProperties
<1>2. ASSUME list # << >> PROVE list[1] \in Members(list)
  <2>1. Len(list) \in Nat \ {0}
    BY <1>2, EmptySeq
  <2>. QED BY <2>1 DEF Members
<1>3. ASSUME list = << >>, NEW m \in Members(list) PROVE FALSE
  <2>1. l = 0
    BY <1>1, <1>3, EmptySeq
  <2>2. PICK j \in 1 .. l : m = list[j]
    BY <1>1 DEF Members
  <2>. QED BY <2>1, <2>2
<1>. QED BY <1>2, <1>3

(* A number from 2 to 127 is that of a bin.                                *)
LEMMA InBins ==
  ASSUME NEW i \in Nat, 2 <= i, i <= 127
  PROVE  i \in Bins
<1>1. PICK lo \in Nat, hi \in Nat : lo = 2 /\ hi = 127
  OBVIOUS
<1>2. i \in lo .. hi
  BY <1>1
<1>. QED BY <1>1, <1>2 DEF Bins

(* The blocks of bins are numbered from 0 to 31.                           *)
LEMMA BlockNumbers ==
  ASSUME NEW i \in Bins
  PROVE  /\ idx2binblock(i) \in Nat /\ idx2binblock(i) <= 31
         /\ i \in Nat /\ 2 <= i /\ i <= 127
<1>1. i \in Nat /\ 2 <= i /\ i <= 127
  BY SMT DEF Bins
<1>. QED BY <1>1, SMT DEF idx2binblock, BINBLOCKWIDTH

(* A list whose elements come in the order of a list of a bin is one.      *)
LEMMA InOrderKeeps ==
  ASSUME NEW s, NEW t, NEW head, InOrderOf(t, s), Distinct(s), Descending(s, head)
  PROVE  Distinct(t) /\ Descending(t, head)
<1>1. ASSUME NEW j \in 1 .. Len(t), NEW k \in 1 .. Len(t), j < k
      PROVE  t[j] # t[k] /\ head[t[k]].size <= head[t[j]].size
  <2>1. PICK m \in 1 .. Len(s), n \in 1 .. Len(s) : m < n /\ t[j] = s[m] /\ t[k] = s[n]
    BY <1>1, Zenon DEF InOrderOf
  <2>2. s[m] # s[n] /\ head[s[n]].size <= head[s[m]].size
    BY <2>1, Zenon DEF Distinct, Descending
  <2>. QED BY <2>1, <2>2, Zenon
<1>. QED BY <1>1, Zenon DEF Distinct, Descending

SameSizes(S, head, changed) == \A p \in S : changed[p].size = head[p].size

(* Only the sizes of the listed chunks matter.                             *)
LEMMA BinnedKept ==
  ASSUME NEW bins, NEW head, NEW changed, Binned(bins, head),
         SameSizes(Listed(bins), head, changed)
  PROVE  Binned(bins, changed)
<1>1. ASSUME NEW i \in Bins
      PROVE  Descending(bins[i], changed) /\ OfBin(bins[i], i, changed)
  <2>1. \A p \in Members(bins[i]) : changed[p].size = head[p].size
    BY Zenon DEF Listed, SameSizes
  <2>2. \A j \in 1 .. Len(bins[i]) : changed[bins[i][j]].size = head[bins[i][j]].size
    BY <2>1, Zenon DEF Members
  <2>3. Descending(bins[i], head) /\ OfBin(bins[i], i, head)
    BY Zenon DEF Binned
  <2>4. OfBin(bins[i], i, changed)
    BY <2>1, <2>3 DEF OfBin
  <2>5. Descending(bins[i], changed)
    BY <2>2, <2>3 DEF Descending
  <2>. QED BY <2>4, <2>5
<1>. QED BY <1>1, Zenon DEF Binned

(* The lists without p, and with p in its bin behind the larger chunks.    *)
Unlist(bins, p) == [i \in Bins |-> RemoveFirst(bins[i], p)]

Enlist(bins, head, p) ==
  LET i == bin_index(head[p].size)
      n == Cardinality({j \in 1 .. Len(bins[i]) : head[p].size < head[bins[i][j]].size})
  IN [bins EXCEPT ![i] = InsertAt(bins[i], n + 1, p)]

(* A chunk off the lists.                                                  *)
LEMMA BinsUnlinked ==
  ASSUME NEW bins, NEW head, Binned(bins, head), NEW p
  PROVE  LET left == Unlist(bins, p)
         IN /\ Binned(left, head)
            /\ Listed(left) = Listed(bins) \ {p}
            /\ \A i \in Bins : Members(left[i]) = Members(bins[i]) \ {p}
            /\ \A i \in Bins : left[i] # << >> => bins[i] # << >>
<1>0. PICK left : left = Unlist(bins, p)
  OBVIOUS
<1>1. ASSUME NEW i \in Bins
      PROVE  /\ left[i] \in Seq(Nat) /\ Distinct(left[i])
             /\ Descending(left[i], head) /\ OfBin(left[i], i, head)
             /\ Members(left[i]) = Members(bins[i]) \ {p}
             /\ left[i] # << >> => bins[i] # << >>
  <2>1. PICK s \in Seq(Nat) : s = bins[i] /\ Distinct(s) /\ Descending(s, head)
                              /\ OfBin(s, i, head)
    BY Zenon DEF Binned
  <2>2. left[i] = RemoveFirst(s, p)
    BY <1>0, <2>1 DEF Unlist
  <2>3. /\ left[i] \in Seq(Nat) /\ Members(left[i]) = Members(s) \ {p}
        /\ InOrderOf(left[i], s)
    BY <2>1, <2>2, Unlinked
  <2>4. Distinct(left[i]) /\ Descending(left[i], head)
    BY <2>1, <2>3, InOrderKeeps
  <2>5. OfBin(left[i], i, head)
    BY <2>1, <2>3 DEF OfBin
  <2>6. left[i] # << >> => s # << >>
    BY <2>3, NoMembers
  <2>. QED BY <2>1, <2>3, <2>4, <2>5, <2>6, Zenon
<1>2. left = [i \in Bins |-> left[i]]
  BY <1>0 DEF Unlist
<1>3. Binned(left, head)
  BY <1>1, <1>2, Zenon DEF Binned
<1>4. Listed(left) = Listed(bins) \ {p}
  <2>1. \A i \in Bins : Members(left[i]) = Members(bins[i]) \ {p}
    BY <1>1
  <2>. QED BY <2>1 DEF Listed
<1>5. \A i \in Bins : /\ Members(left[i]) = Members(bins[i]) \ {p}
                      /\ left[i] # << >> => bins[i] # << >>
  BY <1>1
<1>6. Binned(Unlist(bins, p), head)
  BY <1>0, <1>3, Zenon
<1>7. Listed(Unlist(bins, p)) = Listed(bins) \ {p}
  BY <1>0, <1>4, Zenon
<1>8. \A i \in Bins : Members(Unlist(bins, p)[i]) = Members(bins[i]) \ {p}
  BY <1>0, <1>5
<1>9. \A i \in Bins : Unlist(bins, p)[i] # << >> => bins[i] # << >>
  BY <1>0, <1>5
<1>. QED BY <1>6, <1>7, <1>8, <1>9, Zenon

(* The place of a chunk in a list: behind the larger ones.                 *)
LEMMA LargerFirst ==
  ASSUME NEW list \in Seq(Nat), NEW head, Descending(list, head),
         \A p \in Members(list) : head[p].size \in Nat, NEW s \in Nat
  PROVE  LET n == Cardinality({j \in 1 .. Len(list) : s < head[list[j]].size})
         IN /\ n \in 0 .. Len(list)
            /\ \A j \in 1 .. Len(list) : j <= n <=> s < head[list[j]].size
<1>1. PICK l \in Nat : l = Len(list)
  BY LenProperties
<1>2. PICK size : size = [j \in 1 .. l |-> head[list[j]].size]
  OBVIOUS
<1>z. \A j \in 1 .. l : size[j] \in Nat /\ size[j] = head[list[j]].size
  BY <1>1, <1>2 DEF Members
<1>3. \A j, k \in 1 .. l : j < k => size[k] <= size[j]
  BY <1>1, <1>z DEF Descending
<1> DEFINE S == {j \in 1 .. l : s < size[j]}
<1>4. S = {j \in 1 .. Len(list) : s < head[list[j]].size}
  BY <1>1, <1>z
<1>5. CASE S = {}
  <2>1. Cardinality(S) = 0
    BY <1>5, FS_EmptySet
  <2>2. \A j \in 1 .. l : ~ (j <= 0) /\ ~ (s < size[j])
    BY <1>1, <1>5
  <2>3. 0 \in 0 .. l
    BY <1>1
  <2>. QED BY <1>1, <1>z, <1>4, <2>1, <2>2, <2>3
<1>6. CASE S # {}
  <2>1. S \in SUBSET Nat /\ \A k \in S : k <= l
    BY <1>1
  <2>2. PICK m \in S : \A k \in S : k <= m
    BY <1>1, <1>6, <2>1, MaxIsGreatest
  <2>3. m \in 1 .. l /\ s < size[m]
    BY <2>2
  <2>4. \A j \in 1 .. l : j <= m => s < size[j]
    BY <1>1, <1>z, <1>3, <2>3
  <2>5. \A j \in 1 .. l : s < size[j] => j <= m
    BY <2>2
  <2>6. S = 1 .. m
    <3>1. \A j \in 1 .. m : j \in 1 .. l /\ j <= m
      BY <1>1, <2>3
    <3>2. \A j \in 1 .. l : j <= m => j \in 1 .. m
      BY <1>1, <2>3
    <3>. QED BY <2>4, <2>5, <3>1, <3>2, Zenon
  <2>7. Cardinality(S) = m
    <3>1. 1 \in Int /\ m \in Int /\ ~ (1 > m) /\ m - 1 + 1 = m
      BY <1>1, <2>3
    <3>2. Cardinality(1 .. m) = IF 1 > m THEN 0 ELSE m - 1 + 1
      BY <3>1, FS_Interval, Zenon
    <3>. QED BY <2>6, <3>1, <3>2, Zenon
  <2>8. m \in 0 .. l
    BY <1>1, <2>3
  <2>. QED BY <1>1, <1>z, <1>4, <2>4, <2>5, <2>7, <2>8
<1>. QED BY <1>5, <1>6

(* A chunk of s bytes belongs behind the first n chunks of a list.         *)
Behind(n, s, list, head) ==
  /\ n \in 0 .. Len(list)
  /\ \A j \in 1 .. Len(list) : j <= n <=> s < head[list[j]].size

(* A list with one more chunk in its place is still one of its bin.        *)
LEMMA ListFiled ==
  ASSUME NEW s \in Seq(Nat), NEW head, NEW i, Distinct(s), Descending(s, head),
         OfBin(s, i, head), NEW p \in Nat, p \notin Members(s),
         head[p].size \in Nat, bin_index(head[p].size) = i,
         NEW n, Behind(n, head[p].size, s, head)
  PROVE  LET filed == InsertAt(s, n + 1, p)
         IN /\ filed \in Seq(Nat) /\ Distinct(filed) /\ Descending(filed, head)
            /\ OfBin(filed, i, head)
            /\ Members(filed) = Members(s) \cup {p}
<1>1. PICK l \in Nat : l = Len(s)
  BY LenProperties
<1>y. /\ n \in 0 .. Len(s)
      /\ \A j \in 1 .. Len(s) : j <= n <=> head[p].size < head[s[j]].size
  BY DEF Behind
<1>2. PICK m : m = n + 1
  OBVIOUS
<1>3. m \in 1 .. l + 1 /\ n = m - 1 /\ m \in Nat
  BY <1>1, <1>y, <1>2
<1>4. PICK t \in Seq(Nat) :
        /\ t = InsertAt(s, m, p) /\ Len(t) = l + 1 /\ t[m] = p
        /\ \A j \in 1 .. l : j < m => t[j] = s[j]
        /\ \A j \in 1 .. l : j >= m => t[j + 1] = s[j]
  <2>1. m \in 1 .. Len(s) + 1
    BY <1>1, <1>3
  <2>2. /\ InsertAt(s, m, p) \in Seq(Nat) /\ Len(InsertAt(s, m, p)) = Len(s) + 1
        /\ InsertAt(s, m, p)[m] = p
        /\ \A j \in 1 .. Len(s) : j < m => InsertAt(s, m, p)[j] = s[j]
        /\ \A j \in 1 .. Len(s) : j >= m => InsertAt(s, m, p)[j + 1] = s[j]
    BY <2>1, Inserted, SMTT(30)
  <2>. QED BY <1>1, <2>2, Zenon
(* Where an element of the new list was.                                   *)
<1> DEFINE Was(k) == IF k < m THEN k ELSE k - 1
<1>5. \A k \in 1 .. l + 1 : k # m => Was(k) \in 1 .. l
  BY <1>1, <1>3
<1>6. \A j, k \in 1 .. l + 1 : j # m /\ k # m /\ j < k => Was(j) < Was(k)
  BY <1>1, <1>3
<1>7. \A k \in 1 .. l + 1 : k # m => t[k] = s[Was(k)]
  <2>1. ASSUME NEW k \in 1 .. l + 1, k > m PROVE t[k] = s[k - 1]
    <3>1. PICK j \in 1 .. l : j = k - 1 /\ j >= m /\ k = j + 1
      BY <1>1, <1>3, <2>1
    <3>2. t[j + 1] = s[j]
      BY <1>4, <3>1, Zenon
    <3>. QED BY <3>1, <3>2, Zenon
  <2>2. ASSUME NEW k \in 1 .. l + 1, k < m PROVE t[k] = s[k]
    <3>1. k \in 1 .. l
      BY <1>1, <1>3, <2>2
    <3>. QED BY <1>4, <2>2, <3>1, Zenon
  <2>3. \A k \in 1 .. l + 1 : k # m => (k < m /\ Was(k) = k) \/ (k > m /\ Was(k) = k - 1)
    BY <1>1, <1>3
  <2> HIDE DEF Was
  <2>. QED BY <2>1, <2>2, <2>3, Zenon
<1>8. \A j \in 1 .. l : \E k \in 1 .. l + 1 : k # m /\ t[k] = s[j]
  <2>1. ASSUME NEW j \in 1 .. l, j < m PROVE j \in 1 .. l + 1 /\ j # m /\ t[j] = s[j]
    BY <1>1, <1>3, <1>4, <2>1
  <2>2. ASSUME NEW j \in 1 .. l, j >= m
        PROVE  j + 1 \in 1 .. l + 1 /\ j + 1 # m /\ t[j + 1] = s[j]
    BY <1>1, <1>3, <1>4, <2>2
  <2>3. \A j \in 1 .. l : j < m \/ j >= m
    BY <1>1, <1>3
  <2>. QED BY <2>1, <2>2, <2>3, Zenon
<1>9. \A k \in 1 .. l + 1 : k # m =>
        /\ k < m => head[p].size < head[s[Was(k)]].size
        /\ k > m => ~ (head[p].size < head[s[Was(k)]].size)
  <2>1. \A k \in 1 .. l + 1 : k # m => (k < m /\ Was(k) <= n) \/ (k > m /\ ~ (Was(k) <= n))
    BY <1>1, <1>3
  <2>2. \A k \in 1 .. l + 1 : k < m => ~ (k > m)
    BY <1>1, <1>3
  <2>3. \A j \in 1 .. l : j <= n <=> head[p].size < head[s[j]].size
    BY <1>1, <1>y
  <2> HIDE DEF Was
  <2>. QED BY <1>5, <2>1, <2>2, <2>3, Zenon
<1> HIDE DEF Was
<1>10. m \in 1 .. l + 1 /\ 1 .. Len(t) = 1 .. l + 1 /\ 1 .. Len(s) = 1 .. l
  BY <1>1, <1>3, <1>4
<1>11. Members(t) = Members(s) \cup {p}
  <2>1. ASSUME NEW k \in 1 .. l + 1 PROVE t[k] \in Members(s) \cup {p}
    <3>1. k # m => s[Was(k)] \in Members(s)
      BY <1>5, <1>10 DEF Members
    <3>. QED BY <1>4, <1>7, <3>1
  <2>2. ASSUME NEW j \in 1 .. l PROVE s[j] \in Members(t)
    BY <1>8, <1>10 DEF Members
  <2>3. p \in Members(t)
    BY <1>4, <1>10 DEF Members
  <2>4. \A x \in Members(t) : \E k \in 1 .. l + 1 : x = t[k]
    BY <1>10, Zenon DEF Members
  <2>5. \A x \in Members(s) : \E k \in 1 .. l : x = s[k]
    BY <1>10, Zenon DEF Members
  <2>6. \A x \in Members(t) : x \in Members(s) \cup {p}
    BY <2>1, <2>4, Zenon
  <2>7. \A x \in Members(s) \cup {p} : x \in Members(t)
    BY <2>2, <2>3, <2>5
  <2>. QED BY <2>6, <2>7, Zenon
<1>12. \A j, k \in 1 .. l + 1 : j < k => t[j] # t[k]
  <2>1. \A j \in 1 .. l : s[j] # p
    BY <1>10 DEF Members
  <2>2. \A j, k \in 1 .. l + 1 : j < k => j # k
    BY <1>1
  <2>3. \A j, k \in 1 .. l : j < k => s[j] # s[k]
    BY <1>10 DEF Distinct
  <2>4. \A j, k \in 1 .. l + 1 : j < k /\ j # m /\ k # m => t[j] # t[k]
    BY <1>5, <1>6, <1>7, <2>3, Zenon
  <2>5. \A k \in 1 .. l + 1 : k # m => t[k] # p
    BY <1>5, <1>7, <2>1, Zenon
  <2>. QED BY <1>4, <2>2, <2>4, <2>5, Zenon
<1>13. \A j, k \in 1 .. l + 1 : j < k => head[t[k]].size <= head[t[j]].size
  <2>1. \A j \in 1 .. l : head[s[j]].size \in Nat
    BY <1>10 DEF OfBin, Members
  <2>2. \A j, k \in 1 .. l : j < k => head[s[k]].size <= head[s[j]].size
    BY <1>10 DEF Descending
  <2>3. ASSUME NEW j \in 1 .. l + 1, NEW k \in 1 .. l + 1, j < k
        PROVE  head[t[k]].size <= head[t[j]].size
    <3>1. CASE j # m /\ k # m
      BY <1>5, <1>6, <1>7, <2>2, <2>3, <3>1
    <3>2. CASE j = m
      <4>1. k # m /\ k > m
        BY <1>1, <1>3, <2>3, <3>2
      <4>2. ~ (head[p].size < head[s[Was(k)]].size) /\ head[s[Was(k)]].size \in Nat
        BY <1>5, <1>9, <2>1, <4>1
      <4>3. head[s[Was(k)]].size <= head[p].size
        BY <4>2
      <4>. QED BY <1>4, <1>7, <3>2, <4>1, <4>3, Zenon
    <3>3. CASE k = m
      <4>1. j # m /\ j < m
        BY <1>1, <1>3, <2>3, <3>3
      <4>2. head[p].size < head[s[Was(j)]].size /\ head[s[Was(j)]].size \in Nat
        BY <1>5, <1>9, <2>1, <4>1
      <4>3. head[p].size <= head[s[Was(j)]].size
        BY <4>2
      <4>. QED BY <1>4, <1>7, <3>3, <4>1, <4>3, Zenon
    <3>. QED BY <3>1, <3>2, <3>3
  <2>. QED BY <2>3
<1>14. OfBin(t, i, head)
  BY <1>11 DEF OfBin
<1>15. Distinct(t) /\ Descending(t, head)
  BY <1>10, <1>12, <1>13, Zenon DEF Distinct, Descending
<1>. QED BY <1>2, <1>4, <1>11, <1>14, <1>15, Zenon

(* A chunk into the lists, in its bin and its place there.                 *)
LEMMA BinsFiled ==
  ASSUME NEW bins, NEW head, Binned(bins, head), NEW p \in Nat, p \notin Listed(bins),
         head[p].size \in Nat, head[p].size >= 16, head[p].size % 8 = 0
  PROVE  LET i == bin_index(head[p].size)
             filed == Enlist(bins, head, p)
         IN /\ i \in Bins /\ filed[i] # << >> /\ \A k \in Bins : k # i => filed[k] = bins[k]
            /\ Binned(filed, head)
            /\ Listed(filed) = Listed(bins) \cup {p}
<1>a. PICK i : i = bin_index(head[p].size)
  OBVIOUS
<1>b. PICK n : n = Cardinality({j \in 1 .. Len(bins[i]) : head[p].size < head[bins[i][j]].size})
  OBVIOUS
<1>c. PICK filed : filed = Enlist(bins, head, p)
  OBVIOUS
<1>1. i \in Bins
  BY <1>a, BinNumbers
<1>2. PICK s \in Seq(Nat) : s = bins[i] /\ Distinct(s) /\ Descending(s, head)
                            /\ OfBin(s, i, head)
  BY <1>1, Zenon DEF Binned
<1>3. p \notin Members(s)
  BY <1>1, <1>2, Zenon DEF Listed
<1>4. Behind(n, head[p].size, s, head)
  <2>1. \A q \in Members(s) : head[q].size \in Nat
    BY <1>2 DEF OfBin
  <2>2. n = Cardinality({j \in 1 .. Len(s) : head[p].size < head[s[j]].size})
    BY <1>b, <1>2, Zenon
  <2>3. s \in Seq(Nat) /\ Descending(s, head)
    BY <1>2
  <2>4. PICK larger : larger = Cardinality({j \in 1 .. Len(s) : head[p].size < head[s[j]].size})
    OBVIOUS
  <2>5. /\ larger \in 0 .. Len(s)
        /\ \A j \in 1 .. Len(s) : j <= larger <=> head[p].size < head[s[j]].size
    BY <2>1, <2>3, <2>4, LargerFirst
  <2>. QED BY <2>2, <2>4, <2>5, Zenon DEF Behind
<1>5. PICK t :
        /\ t = InsertAt(s, n + 1, p)
        /\ t \in Seq(Nat) /\ Distinct(t) /\ Descending(t, head)
        /\ OfBin(t, i, head) /\ Members(t) = Members(s) \cup {p}
  <2>1. /\ s \in Seq(Nat) /\ Distinct(s) /\ Descending(s, head) /\ OfBin(s, i, head)
        /\ p \in Nat /\ p \notin Members(s)
        /\ bin_index(head[p].size) = i /\ head[p].size \in Nat
    BY <1>a, <1>2, <1>3
  <2>. QED BY <1>4, <2>1, ListFiled, Zenon
<1>6. bins = [k \in Bins |-> bins[k]]
  BY Zenon DEF Binned
<1>7. filed = [k \in Bins |-> filed[k]] /\ \A k \in Bins : filed[k] = IF k = i THEN t ELSE bins[k]
  <2>1. filed = [bins EXCEPT ![i] = InsertAt(bins[i], n + 1, p)]
    BY <1>a, <1>b, <1>c DEF Enlist
  <2>. QED BY <1>1, <1>2, <1>5, <1>6, <2>1
<1>8. filed[i] # << >>
  BY <1>1, <1>5, <1>7, NoMembers
<1>9. Binned(filed, head)
  BY <1>2, <1>5, <1>7, Zenon DEF Binned
<1>10. Listed(filed) = Listed(bins) \cup {p}
  <2>1. \A k \in Bins : \A x :
          x \in Members(filed[k]) <=> x \in Members(bins[k]) \/ (k = i /\ x = p)
    <3>1. \A k \in Bins : k # i => Members(filed[k]) = Members(bins[k])
      BY <1>7, Zenon
    <3>2. Members(filed[i]) = Members(bins[i]) \cup {p}
      BY <1>1, <1>2, <1>5, <1>7, Zenon
    <3>. QED BY <3>1, <3>2
  <2>2. \A x : x \in Listed(filed) <=> \E k \in Bins : x \in Members(filed[k])
    BY Zenon DEF Listed
  <2>3. \A x : x \in Listed(bins) <=> \E k \in Bins : x \in Members(bins[k])
    BY Zenon DEF Listed
  <2>4. \A x : x \in Listed(filed) <=> x \in Listed(bins) \/ x = p
    BY <1>1, <2>1, <2>2, <2>3, Zenon
  <2>. QED BY <2>4
<1>11. \A k \in Bins : k # i => filed[k] = bins[k]
  BY <1>7
<1>. QED BY <1>a, <1>c, <1>1, <1>8, <1>9, <1>10, <1>11, Zenon

-----------------------------------------------------------------------------
(* The tiling of the heap by chunks.                                       *)

Limit == heap_base + heap_max_size - 4

Headers == [prev_size : 0 .. heap_max_size, size : 0 .. heap_max_size, prev_inuse : BOOLEAN]

After(head, p) == p + head[p].size

(* Chunks are aligned parts of the heap, no two of which overlap.          *)
Placed(head, top) ==
  /\ \A p \in DOMAIN head : /\ p \in Nat /\ p % 8 = 0 /\ heap_base <= p
                            /\ head[p].size \in Nat /\ head[p].size >= 16
                            /\ After(head, p) <= Limit
                            /\ p # top => head[p].size % 8 = 0
  /\ \A p, q \in DOMAIN head : p < q => After(head, p) <= q

(* They leave no gap, from the first one to the top.                       *)
Covered(head, top) ==
  /\ top = NoChunk => DOMAIN head = {}
  /\ top # NoChunk => /\ top \in DOMAIN head /\ After(head, top) = Limit
                      /\ heap_base \in DOMAIN head
  /\ \A p \in DOMAIN head \ {top} : After(head, p) \in DOMAIN head
  /\ \A q \in DOMAIN head \ {heap_base} : \E p \in DOMAIN head \ {top} : After(head, p) = q

(* Each chunk knows of the one before it; free chunks are consolidated.    *)
Told(head, top, used) ==
  /\ top # NoChunk => head[heap_base].prev_inuse = TRUE
  /\ \A p \in used : p \in DOMAIN head /\ p # top
  /\ \A p \in DOMAIN head \ {top} :
       /\ p \in used => head[After(head, p)].prev_inuse = TRUE
       /\ p \notin used => /\ head[After(head, p)].prev_inuse = FALSE
                           /\ head[After(head, p)].prev_size = head[p].size
                           /\ After(head, p) \in used

Tiled(head, top, used) ==
  /\ head \in [DOMAIN head -> Headers]
  /\ Placed(head, top) /\ Covered(head, top) /\ Told(head, top, used)

(* Two chunks do not end at the same place, and none is followed by itself.*)
LEMMA OneBefore ==
  ASSUME NEW head, NEW top, Placed(head, top),
         NEW p \in DOMAIN head, NEW q \in DOMAIN head
  PROVE  /\ After(head, p) = After(head, q) => p = q
         /\ After(head, p) \in Nat /\ p < After(head, p)
         /\ p < q \/ p = q \/ q < p
BY SMT DEF Placed, After

(* A chunk and the free chunk before it, if there is one.                  *)
Leads(head, top, used, first, p) ==
  \/ first = p /\ head[p].prev_inuse = TRUE
  \/ first \in DOMAIN head /\ first # top /\ first \notin used /\ After(head, first) = p

(* The chunk before one that is marked free.                               *)
LEMMA Before ==
  ASSUME NEW head, NEW top, NEW used, Tiled(head, top, used),
         NEW p \in DOMAIN head, head[p].prev_inuse = FALSE
  PROVE  Leads(head, top, used, p - head[p].prev_size, p)
<1>1. p # heap_base
  BY DEF Tiled, Told, Covered
<1>2. PICK q \in DOMAIN head \ {top} : After(head, q) = p
  BY <1>1, Zenon DEF Tiled, Covered
<1>3. q \notin used /\ head[p].prev_size = head[q].size
  BY <1>2 DEF Tiled, Told
<1>4. q \in Nat /\ p \in Nat /\ head[q].size \in Nat /\ q + head[q].size = p
  BY <1>2 DEF Tiled, Placed, After
<1>5. q = p - head[p].prev_size
  BY <1>3, <1>4
<1>6. Leads(head, top, used, q, p)
  BY <1>2, <1>3 DEF Leads
<1>. QED BY <1>5, <1>6

(* In taken, the chunk behind p is told that p is the program's.           *)
Claimed(head, p, taken) ==
  /\ taken \in [DOMAIN head -> Headers]
  /\ \A q \in DOMAIN head : taken[q].size = head[q].size
  /\ \A q \in DOMAIN head : q # After(head, p) => taken[q] = head[q]
  /\ taken[After(head, p)].prev_inuse = TRUE

(* A free chunk becomes a block.                                           *)
LEMMA TileTaken ==
  ASSUME NEW head, NEW top, NEW used, Tiled(head, top, used),
         NEW p \in DOMAIN head, p # top, p \notin used,
         NEW taken, Claimed(head, p, taken)
  PROVE  Tiled(taken, top, used \cup {p})
<1>0. /\ taken \in [DOMAIN head -> Headers]
      /\ \A q \in DOMAIN head : taken[q].size = head[q].size
      /\ \A q \in DOMAIN head : q # After(head, p) => taken[q] = head[q]
      /\ taken[After(head, p)].prev_inuse = TRUE
  BY DEF Claimed
<1>. USE <1>0
<1>1. DOMAIN taken = DOMAIN head
  OBVIOUS
<1>2. \A q \in DOMAIN head : After(taken, q) = After(head, q)
  BY DEF After
<1>3. Placed(taken, top)
  BY <1>1, <1>2 DEF Tiled, Placed
<1>4. Covered(taken, top)
  BY <1>1, <1>2 DEF Tiled, Covered
<1>5. Told(taken, top, used \cup {p})
  <2>1. \A q \in DOMAIN head : q # p => After(head, q) # After(head, p)
    BY OneBefore DEF Tiled
  <2>2. top # NoChunk => taken[heap_base].prev_inuse = TRUE
    BY DEF Tiled, Told, Covered
  <2>3. ASSUME NEW q \in DOMAIN head \ {top}
        PROVE  /\ q \in used \cup {p} => taken[After(taken, q)].prev_inuse = TRUE
               /\ q \notin used \cup {p} =>
                    /\ taken[After(taken, q)].prev_inuse = FALSE
                    /\ taken[After(taken, q)].prev_size = taken[q].size
                    /\ After(taken, q) \in used \cup {p}
    <3>1. After(taken, q) = After(head, q) /\ After(head, q) \in DOMAIN head
      BY <1>2 DEF Tiled, Covered
    <3>2. CASE q = p
      BY <3>1, <3>2
    <3>3. CASE q # p
      <4>1. taken[After(taken, q)] = head[After(head, q)] /\ taken[q].size = head[q].size
        BY <2>1, <3>1, <3>3
      <4>. QED BY <3>1, <3>3, <4>1 DEF Tiled, Told
    <3>. QED BY <3>2, <3>3
  <2>4. \A q \in used \cup {p} : q \in DOMAIN taken /\ q # top
    BY <1>1 DEF Tiled, Told
  <2>. QED BY <1>1, <2>2, <2>3, <2>4, Zenon DEF Told
<1>. QED BY <1>1, <1>3, <1>4, <1>5 DEF Tiled

(* In cut, p has nb bytes, and what is left of it is a chunk of its own.   *)
Halved(head, p, nb, cut) ==
  LET r == p + nb
      e == After(head, p)
  IN /\ cut \in [DOMAIN head \cup {r} -> Headers]
     /\ cut[p].size = nb /\ cut[p].prev_inuse = TRUE
     /\ cut[r] = Header(head[p].size - nb)
     /\ cut[e].size = head[e].size /\ cut[e].prev_inuse = head[e].prev_inuse
     /\ cut[e].prev_size = head[p].size - nb
     /\ \A q \in DOMAIN head : q \notin {p, e} => cut[q] = head[q]

(* The front of a free chunk becomes a block, the rest stays free.         *)
LEMMA TileSplit ==
  ASSUME NEW head, NEW top, NEW used, Tiled(head, top, used),
         NEW p \in DOMAIN head, p # top, p \notin used,
         NEW nb \in Nat, nb >= 16, nb % 8 = 0, head[p].size - nb >= 16,
         NEW cut, Halved(head, p, nb, cut)
  PROVE  Tiled(cut, top, used \cup {p}) /\ p + nb \notin DOMAIN head
<1>a. PICK r : r = p + nb
  OBVIOUS
<1>b. PICK e : e = After(head, p)
  OBVIOUS
<1>0. /\ cut \in [DOMAIN head \cup {r} -> Headers]
      /\ cut[p].size = nb /\ cut[p].prev_inuse = TRUE
      /\ cut[r] = Header(head[p].size - nb)
      /\ cut[e].size = head[e].size /\ cut[e].prev_inuse = head[e].prev_inuse
      /\ cut[e].prev_size = head[p].size - nb
      /\ \A q \in DOMAIN head : q \notin {p, e} => cut[q] = head[q]
  BY <1>a, <1>b DEF Halved
<1>. USE <1>0, <1>a, <1>b
<1>1. DOMAIN cut = DOMAIN head \cup {r}
  OBVIOUS
<1>2. /\ p \in Nat /\ r \in Nat /\ head[p].size \in Nat /\ p % 8 = 0 /\ head[p].size % 8 = 0
      /\ heap_base <= p /\ e = p + head[p].size /\ e <= Limit /\ p < r /\ r + 16 <= e
      /\ heap_base \in Nat /\ Limit \in Nat
  BY HeapNumbers, SMT DEF Tiled, Placed, After, Limit
<1>3. r \notin DOMAIN head
  BY <1>2 DEF Tiled, Placed, After
<1>4. cut[r].size = head[p].size - nb /\ cut[r].prev_inuse = TRUE
  BY DEF Header
<1>5. /\ After(cut, p) = r /\ After(cut, r) = e
      /\ \A q \in DOMAIN head : q # p => cut[q].size = head[q].size
      /\ \A q \in DOMAIN head : q # p => After(cut, q) = After(head, q)
  BY <1>2, <1>4 DEF After
<1>6. e \in used /\ e # p /\ e \in DOMAIN head /\ head[e].prev_inuse = FALSE
  BY <1>2 DEF Tiled, Told
<1>7. Placed(cut, top)
  <2>1. ASSUME NEW q \in DOMAIN cut
        PROVE  /\ q \in Nat /\ q % 8 = 0 /\ heap_base <= q
               /\ cut[q].size \in Nat /\ cut[q].size >= 16
               /\ After(cut, q) <= Limit
               /\ q # top => cut[q].size % 8 = 0
    <3>1. CASE q = p
      BY <1>2, <1>5, <3>1
    <3>2. CASE q = r
      BY <1>2, <1>4, <1>5, <3>2
    <3>3. CASE q \in DOMAIN head /\ q # p
      BY <1>5, <3>3 DEF Tiled, Placed
    <3>. QED BY <1>1, <3>1, <3>2, <3>3
  <2>2. ASSUME NEW q \in DOMAIN cut, NEW s \in DOMAIN cut, q < s PROVE After(cut, q) <= s
    <3>1. CASE q \in DOMAIN head /\ s \in DOMAIN head /\ q # p
      BY <1>5, <2>2, <3>1 DEF Tiled, Placed
    <3>2. CASE q = p
      <4>1. s \in Nat /\ (s = r \/ e <= s)
        BY <1>1, <1>2, <2>1, <2>2, <3>2 DEF Tiled, Placed
      <4>. QED BY <1>2, <1>5, <3>2, <4>1
    <3>3. CASE q = r
      <4>1. s \in DOMAIN head /\ s \in Nat /\ p < s
        BY <1>1, <1>2, <2>1, <2>2, <3>3
      <4>2. e <= s
        BY <4>1 DEF Tiled, Placed
      <4>. QED BY <1>5, <3>3, <4>2
    <3>4. CASE q \in DOMAIN head /\ q # p /\ s = r
      <4>1. q \in Nat /\ (q < p \/ p < q)
        BY <1>2, <2>1, <3>4
      <4>2. q < p
        <5>1. p < q => e <= q
          BY <3>4 DEF Tiled, Placed
        <5>. QED BY <1>2, <2>2, <3>4, <4>1, <5>1
      <4>3. After(head, q) <= p /\ After(head, q) \in Nat
        BY <3>4, <4>2, OneBefore DEF Tiled, Placed
      <4>. QED BY <1>2, <1>5, <3>4, <4>3
    <3>. QED BY <1>1, <3>1, <3>2, <3>3, <3>4
  <2>. QED BY <2>1, <2>2 DEF Placed
<1>8. r # heap_base /\ r # NoChunk
  BY <1>2 DEF NoChunk
<1>9. Covered(cut, top)
  <2>1. top # NoChunk /\ top \in DOMAIN head /\ After(head, top) = Limit /\ heap_base \in DOMAIN head
    BY DEF Tiled, Covered
  <2>2. \A q \in DOMAIN cut \ {top} : After(cut, q) \in DOMAIN cut
    <3>1. \A q \in DOMAIN head \ {top} : After(head, q) \in DOMAIN head
      BY DEF Tiled, Covered
    <3>. QED BY <1>1, <1>5, <1>6, <3>1
  <2>3. ASSUME NEW s \in DOMAIN cut \ {heap_base}
        PROVE  \E q \in DOMAIN cut \ {top} : After(cut, q) = s
    <3>1. CASE s = r
      BY <1>1, <1>5, <3>1
    <3>2. CASE s \in DOMAIN head
      <4>1. PICK q \in DOMAIN head \ {top} : After(head, q) = s
        BY <2>3, <3>2 DEF Tiled, Covered
      <4>2. CASE q = p
        <5>1. r \in DOMAIN cut \ {top} /\ After(cut, r) = s
          BY <1>1, <1>3, <1>5, <2>1, <4>1, <4>2
        <5>. QED BY <5>1
      <4>3. CASE q # p
        <5>1. q \in DOMAIN cut \ {top} /\ After(cut, q) = s
          BY <1>1, <1>5, <4>1, <4>3
        <5>. QED BY <5>1
      <4>. QED BY <4>2, <4>3
    <3>. QED BY <1>1, <3>1, <3>2
  <2>4. After(cut, top) = Limit
    BY <1>5, <2>1
  <2>. QED BY <1>1, <2>1, <2>2, <2>3, <2>4, Zenon DEF Covered
<1>10. Told(cut, top, used \cup {p})
  <2>1. \A q \in DOMAIN head : q # p => After(head, q) # e
    BY OneBefore DEF Tiled
  <2>2. top # NoChunk => cut[heap_base].prev_inuse = TRUE
    <3>1. top # NoChunk => head[heap_base].prev_inuse = TRUE /\ heap_base \in DOMAIN head
      BY DEF Tiled, Told, Covered
    <3>. QED BY <3>1
  <2>3. \A q \in used \cup {p} : q \in DOMAIN cut /\ q # top
    BY <1>1 DEF Tiled, Told
  <2>4. ASSUME NEW q \in DOMAIN cut \ {top}
        PROVE  /\ q \in used \cup {p} => cut[After(cut, q)].prev_inuse = TRUE
               /\ q \notin used \cup {p} =>
                    /\ cut[After(cut, q)].prev_inuse = FALSE
                    /\ cut[After(cut, q)].prev_size = cut[q].size
                    /\ After(cut, q) \in used \cup {p}
    <3>1. CASE q = p
      BY <1>4, <1>5, <3>1
    <3>2. CASE q = r
      BY <1>3, <1>4, <1>5, <1>6, <3>2 DEF Tiled, Told
    <3>3. CASE q \in DOMAIN head /\ q # p
      <4>1. After(cut, q) = After(head, q) /\ After(head, q) \in DOMAIN head /\ After(head, q) # e
        BY <1>5, <2>1, <2>4, <3>3 DEF Tiled, Covered
      <4>2. /\ q \in used => head[After(head, q)].prev_inuse = TRUE
            /\ q \notin used => /\ head[After(head, q)].prev_inuse = FALSE
                                /\ head[After(head, q)].prev_size = head[q].size
                                /\ After(head, q) \in used
        BY <2>4, <3>3 DEF Tiled, Told
      <4>3. CASE After(head, q) = p
        BY <3>3, <4>1, <4>2, <4>3
      <4>4. CASE After(head, q) # p
        <5>1. cut[After(cut, q)] = head[After(head, q)] /\ cut[q].size = head[q].size
          BY <1>5, <3>3, <4>1, <4>4
        <5>. QED BY <3>3, <4>1, <4>2, <5>1
      <4>. QED BY <4>3, <4>4
    <3>. QED BY <1>1, <3>1, <3>2, <3>3
  <2>. QED BY <2>2, <2>3, <2>4, Zenon DEF Told
<1>. QED BY <1>1, <1>3, <1>7, <1>9, <1>10 DEF Tiled

(* In cut, top has nb bytes, and what is left of it is a chunk of its own. *)
Shortened(head, top, nb, cut) ==
  LET r == top + nb
  IN /\ cut \in [DOMAIN head \cup {r} -> Headers]
     /\ cut[top] = Header(nb) /\ cut[r] = Header(head[top].size - nb)
     /\ \A q \in DOMAIN head : q # top => cut[q] = head[q]

(* The front of the top becomes a block, the rest is the top.              *)
LEMMA TileCut ==
  ASSUME NEW head, NEW top, NEW used, Tiled(head, top, used), top # NoChunk,
         NEW nb \in Nat, nb >= 16, nb % 8 = 0, head[top].size - nb >= 16,
         NEW cut, Shortened(head, top, nb, cut)
  PROVE  Tiled(cut, top + nb, used \cup {top}) /\ top + nb \notin DOMAIN head
<1>a. PICK r : r = top + nb
  OBVIOUS
<1>0. /\ cut \in [DOMAIN head \cup {r} -> Headers]
      /\ cut[top] = Header(nb) /\ cut[r] = Header(head[top].size - nb)
      /\ \A q \in DOMAIN head : q # top => cut[q] = head[q]
  BY <1>a DEF Shortened
<1>. USE <1>0, <1>a
<1>1. DOMAIN cut = DOMAIN head \cup {r}
  OBVIOUS
<1>2. top \in DOMAIN head /\ After(head, top) = Limit /\ heap_base \in DOMAIN head
  BY DEF Tiled, Covered
<1>3. /\ top \in Nat /\ r \in Nat /\ head[top].size \in Nat /\ top % 8 = 0
      /\ heap_base <= top /\ Limit = top + head[top].size /\ top < r /\ r + 16 <= Limit
      /\ heap_base \in Nat /\ Limit \in Nat
  BY <1>2, HeapNumbers, SMT DEF Tiled, Placed, After, Limit
<1>4. r \notin DOMAIN head
  BY <1>2, <1>3 DEF Tiled, Placed, After
<1>5. /\ cut[r].size = head[top].size - nb /\ cut[r].prev_inuse = TRUE
      /\ cut[top].size = nb /\ cut[top].prev_inuse = TRUE
  BY DEF Header
<1>6. /\ After(cut, top) = r /\ After(cut, r) = Limit
      /\ \A q \in DOMAIN head : q # top => After(cut, q) = After(head, q)
  BY <1>3, <1>5 DEF After
<1>7. \A q \in DOMAIN head : q < top \/ q = top
  <2>1. \A q \in DOMAIN head : /\ q \in Nat /\ head[q].size >= 16 /\ head[q].size \in Nat
                               /\ q + head[q].size <= Limit
                               /\ top < q => After(head, top) <= q
    BY <1>2 DEF Tiled, Placed, After
  <2>. QED BY <1>2, <1>3, <2>1
<1>8. Placed(cut, r)
  <2>1. ASSUME NEW q \in DOMAIN cut
        PROVE  /\ q \in Nat /\ q % 8 = 0 /\ heap_base <= q
               /\ cut[q].size \in Nat /\ cut[q].size >= 16
               /\ After(cut, q) <= Limit
               /\ q # r => cut[q].size % 8 = 0
    <3>1. CASE q = top
      BY <1>3, <1>5, <1>6, <3>1
    <3>2. CASE q = r
      BY <1>3, <1>5, <1>6, <3>2
    <3>3. CASE q \in DOMAIN head /\ q # top
      BY <1>6, <3>3 DEF Tiled, Placed
    <3>. QED BY <1>1, <3>1, <3>2, <3>3
  <2>2. ASSUME NEW q \in DOMAIN cut, NEW s \in DOMAIN cut, q < s PROVE After(cut, q) <= s
    <3>1. CASE q \in DOMAIN head /\ q # top
      <4>1. q < top /\ After(head, q) <= top /\ After(head, q) \in Nat
        BY <1>2, <1>7, <3>1, OneBefore DEF Tiled, Placed
      <4>2. s \in DOMAIN head => After(head, q) <= s
        BY <2>2, <3>1 DEF Tiled, Placed
      <4>. QED BY <1>1, <1>3, <1>6, <3>1, <4>1, <4>2
    <3>2. CASE q = top \/ q = r
      <4>1. s = r \/ s = top \/ s < top
        BY <1>1, <1>7
      <4>. QED BY <1>3, <1>6, <2>1, <2>2, <3>2, <4>1
    <3>. QED BY <1>1, <3>1, <3>2
  <2>. QED BY <2>1, <2>2 DEF Placed
<1>9. Covered(cut, r)
  <2>1. r # NoChunk
    BY <1>3 DEF NoChunk
  <2>2. \A q \in DOMAIN cut \ {r} : After(cut, q) \in DOMAIN cut
    <3>1. \A q \in DOMAIN head \ {top} : After(head, q) \in DOMAIN head
      BY DEF Tiled, Covered
    <3>. QED BY <1>1, <1>6, <3>1
  <2>3. ASSUME NEW s \in DOMAIN cut \ {heap_base}
        PROVE  \E q \in DOMAIN cut \ {r} : After(cut, q) = s
    <3>1. CASE s = r
      BY <1>1, <1>2, <1>4, <1>6, <3>1
    <3>2. CASE s \in DOMAIN head
      <4>1. PICK q \in DOMAIN head \ {top} : After(head, q) = s
        BY <2>3, <3>2 DEF Tiled, Covered
      <4>2. q \in DOMAIN cut \ {r} /\ After(cut, q) = s
        BY <1>1, <1>4, <1>6, <4>1
      <4>. QED BY <4>2
    <3>. QED BY <1>1, <3>1, <3>2
  <2>4. r \in DOMAIN cut /\ heap_base \in DOMAIN cut
    BY <1>1, <1>2
  <2>. QED BY <1>6, <2>1, <2>2, <2>3, <2>4, Zenon DEF Covered
<1>10. Told(cut, r, used \cup {top})
  <2>1. cut[heap_base].prev_inuse = TRUE
    <3>1. head[heap_base].prev_inuse = TRUE
      BY DEF Tiled, Told
    <3>. QED BY <1>2, <1>5, <3>1
  <2>2. \A q \in used \cup {top} : q \in DOMAIN cut /\ q # r
    BY <1>1, <1>2, <1>4 DEF Tiled, Told
  <2>3. ASSUME NEW q \in DOMAIN cut \ {r}
        PROVE  /\ q \in used \cup {top} => cut[After(cut, q)].prev_inuse = TRUE
               /\ q \notin used \cup {top} =>
                    /\ cut[After(cut, q)].prev_inuse = FALSE
                    /\ cut[After(cut, q)].prev_size = cut[q].size
                    /\ After(cut, q) \in used \cup {top}
    <3>1. CASE q = top
      BY <1>5, <1>6, <3>1
    <3>2. CASE q \in DOMAIN head /\ q # top
      <4>1. After(cut, q) = After(head, q) /\ After(head, q) \in DOMAIN head
        BY <1>6, <3>2 DEF Tiled, Covered
      <4>2. /\ q \in used => head[After(head, q)].prev_inuse = TRUE
            /\ q \notin used => /\ head[After(head, q)].prev_inuse = FALSE
                                /\ head[After(head, q)].prev_size = head[q].size
                                /\ After(head, q) \in used
        BY <3>2 DEF Tiled, Told
      <4>3. CASE After(head, q) = top
        <5>1. q \in used
          BY <4>2, <4>3 DEF Tiled, Told
        <5>. QED BY <1>5, <4>1, <4>3, <5>1
      <4>4. CASE After(head, q) # top
        <5>1. cut[After(cut, q)] = head[After(head, q)] /\ cut[q].size = head[q].size
          BY <3>2, <4>1, <4>4
        <5>. QED BY <3>2, <4>1, <4>2, <5>1
      <4>. QED BY <4>3, <4>4
    <3>. QED BY <1>1, <3>1, <3>2
  <2>. QED BY <2>1, <2>2, <2>3, Zenon DEF Told
<1>. QED BY <1>1, <1>4, <1>8, <1>9, <1>10 DEF Tiled

(* The first pages of the heap make one chunk, the top.                    *)
LEMMA TileExtend ==
  ASSUME NEW head, head = [p \in {heap_base} |-> Header(heap_max_size - 4)]
  PROVE  Tiled(head, heap_base, {})
<1>1. /\ heap_base \in Nat /\ heap_base >= 8 /\ heap_base % 8 = 0
      /\ heap_max_size \in Nat /\ heap_max_size >= 20
  BY HeapNumbers
<1>2. /\ DOMAIN head = {heap_base} /\ head[heap_base] = Header(heap_max_size - 4)
      /\ head[heap_base].size = heap_max_size - 4 /\ head[heap_base].prev_inuse = TRUE
  BY DEF Header
<1>3. head[heap_base] \in Headers
  BY <1>1, <1>2, SMT DEF Header, Headers
<1>4. head \in [DOMAIN head -> Headers]
  BY <1>2, <1>3
<1>5. After(head, heap_base) = Limit
  BY <1>1, <1>2 DEF After, Limit
<1>6. Placed(head, heap_base)
  BY <1>1, <1>2, <1>5, SMT DEF Placed, Limit
<1>7. Covered(head, heap_base)
  <2>1. heap_base # NoChunk
    BY <1>1 DEF NoChunk
  <2>. QED BY <1>2, <1>5, <2>1 DEF Covered
<1>8. Told(head, heap_base, {})
  BY <1>2 DEF Told
<1>. QED BY <1>4, <1>6, <1>7, <1>8 DEF Tiled

(* A chunk and the free chunk behind it, if there is one.                  *)
Trails(head, top, used, last, p) ==
  \/ last = p /\ After(head, p) \in used
  \/ last = After(head, p) /\ last # top /\ last \notin used

(* In merged, first reaches to the end of last, and what follows is told.  *)
Joint(head, first, p, last, merged) ==
  LET e == After(head, last)
  IN /\ merged \in [DOMAIN head \ ({p, last} \ {first}) -> Headers]
     /\ merged[first] = Header(e - first)
     /\ merged[e].size = head[e].size /\ merged[e].prev_inuse = FALSE
     /\ merged[e].prev_size = e - first
     /\ \A q \in DOMAIN merged \ {first, e} : merged[q] = head[q]

(* A block is merged with its free neighbours.                             *)
LEMMA TileMerge ==
  ASSUME NEW head, NEW top, NEW used, Tiled(head, top, used),
         NEW p \in used, After(head, p) # top,
         NEW first, Leads(head, top, used, first, p),
         NEW last, Trails(head, top, used, last, p),
         NEW merged, Joint(head, first, p, last, merged)
  PROVE  Tiled(merged, top, used \ {p})
<1>a. PICK e : e = After(head, last)
  OBVIOUS
<1>0. /\ merged \in [DOMAIN head \ ({p, last} \ {first}) -> Headers]
      /\ merged[first] = Header(e - first)
      /\ merged[e].size = head[e].size /\ merged[e].prev_inuse = FALSE
      /\ merged[e].prev_size = e - first
      /\ \A q \in DOMAIN merged \ {first, e} : merged[q] = head[q]
  BY <1>a DEF Joint
<1>. USE <1>0, <1>a
<1> DEFINE D == DOMAIN merged
<1>1. D = DOMAIN head \ ({p, last} \ {first})
  OBVIOUS
<1>2. /\ p \in DOMAIN head /\ first \in DOMAIN head /\ last \in DOMAIN head
      /\ p # top /\ first # top /\ last # top
      /\ first \notin used \ {p} /\ last \notin used \ {p}
  <2>1. p \in DOMAIN head /\ p # top /\ After(head, p) \in DOMAIN head
    BY DEF Tiled, Told, Covered
  <2>2. first \in DOMAIN head /\ first # top /\ first \notin used \ {p}
    BY <2>1 DEF Leads
  <2>3. last \in DOMAIN head /\ last # top /\ last \notin used \ {p}
    BY <2>1 DEF Trails
  <2>. QED BY <2>1, <2>2, <2>3
<1>3. e \in used /\ e \in DOMAIN head /\ e # top
  BY <1>2, Zenon DEF Tiled, Told, Leads, Trails
<1>4. /\ \A q \in DOMAIN head : /\ q \in Nat /\ q % 8 = 0 /\ heap_base <= q
                                /\ head[q].size \in Nat /\ head[q].size >= 16
                                /\ After(head, q) <= Limit /\ After(head, q) \in Nat
                                /\ q < After(head, q) /\ After(head, q) = q + head[q].size
                                /\ q # top => head[q].size % 8 = 0
      /\ \A q, s \in DOMAIN head : q < s => After(head, q) <= s
  BY DEF Tiled, Placed, After
<1>5. /\ first <= p /\ p <= last /\ last < e
      /\ first # p => After(head, first) = p
      /\ p # last => After(head, p) = last
  BY <1>2, <1>3, <1>4 DEF Leads, Trails
<1>6. first \in D /\ e \in D /\ e # first
  BY <1>1, <1>2, <1>3, <1>4, <1>5
<1>7. e - first \in Nat /\ e - first >= 16 /\ (e - first) % 8 = 0
      /\ merged[first].size = e - first /\ merged[first].prev_inuse = TRUE
      /\ After(merged, first) = e
  <2>1. e \in Nat /\ first \in Nat /\ e % 8 = 0 /\ first % 8 = 0 /\ e > first
    BY <1>2, <1>3, <1>4, <1>5
  <2>2. merged[first].size = e - first /\ merged[first].prev_inuse = TRUE
    BY DEF Header
  <2>3. After(head, first) <= e /\ After(head, first) >= first + 16
    BY <1>2, <1>3, <1>4, <1>5, <2>1
  <2>. QED BY <1>2, <1>4, <2>1, <2>2, <2>3 DEF After
<1>8. \A q \in D \ {first} : /\ merged[q].size = head[q].size
                             /\ After(merged, q) = After(head, q)
                             /\ q \in DOMAIN head
  <2>1. \A q \in D \ {first} : merged[q].size = head[q].size /\ q \in DOMAIN head
    BY <1>1, Zenon
  <2>. QED BY <2>1 DEF After
(* What is left lies before the merged chunk or behind it.                 *)
<1>9. \A q \in D \ {first} : After(head, q) <= first \/ e <= q
  <2>1. ASSUME NEW q \in D \ {first} PROVE After(head, q) <= first \/ e <= q
    <3>1. q \in DOMAIN head /\ q # p /\ q # last
      BY <1>1, <1>2, <2>1
    <3>2. q < first => After(head, q) <= first
      BY <1>2, <1>4, <3>1
    <3>3. last < q => e <= q
      BY <1>2, <1>4, <3>1
    <3>4. first < q => p < q
      <4>1. CASE first = p
        BY <4>1
      <4>2. CASE first # p
        BY <1>2, <1>4, <1>5, <3>1, <4>2
      <4>. QED BY <4>1, <4>2
    <3>5. p < q => last < q
      <4>1. CASE last = p
        BY <4>1
      <4>2. CASE last # p
        BY <1>2, <1>4, <1>5, <3>1, <4>2
      <4>. QED BY <4>1, <4>2
    <3>6. q < first \/ first < q
      BY <1>2, <1>4, <2>1, <3>1
    <3>. QED BY <3>2, <3>3, <3>4, <3>5, <3>6
  <2>. QED BY <2>1
<1>10. Placed(merged, top)
  <2>1. ASSUME NEW q \in D
        PROVE  /\ q \in Nat /\ q % 8 = 0 /\ heap_base <= q
               /\ merged[q].size \in Nat /\ merged[q].size >= 16
               /\ After(merged, q) <= Limit
               /\ q # top => merged[q].size % 8 = 0
    <3>1. CASE q = first
      <4>1. After(merged, q) <= Limit
        BY <1>2, <1>4, <1>7, <3>1
      <4>. QED BY <1>2, <1>4, <1>7, <3>1, <4>1
    <3>2. CASE q # first
      BY <1>4, <1>8, <3>2
    <3>. QED BY <3>1, <3>2
  <2>2. ASSUME NEW q \in D, NEW s \in D, q < s PROVE After(merged, q) <= s
    <3>1. CASE q = first
      <4>1. s \in D \ {first} /\ ~ (After(head, s) <= first)
        BY <1>1, <1>2, <1>4, <2>2, <3>1
      <4>. QED BY <1>7, <1>9, <3>1, <4>1
    <3>2. CASE q # first
      BY <1>1, <1>4, <1>8, <2>2, <3>2
    <3>. QED BY <3>1, <3>2
  <2>. QED BY <2>1, <2>2 DEF Placed
<1>11. Covered(merged, top)
  <2>1. top # NoChunk /\ top \in DOMAIN head /\ After(head, top) = Limit /\ heap_base \in DOMAIN head
    BY <1>2 DEF Tiled, Covered
  <2>2. top \in D /\ top # first /\ After(merged, top) = Limit
    BY <1>1, <1>2, <1>8, <2>1
  <2>3. heap_base \in D
    <3>1. heap_base <= first /\ heap_base \in Nat
      BY <1>2, <1>4, HeapNumbers
    <3>2. heap_base \in {p, last} => first = heap_base
      BY <1>2, <1>4, <1>5, <3>1
    <3>. QED BY <1>1, <2>1, <3>2
  <2>4. ASSUME NEW q \in D \ {top} PROVE After(merged, q) \in D
    <3>1. CASE q = first
      BY <1>6, <1>7, <3>1
    <3>2. CASE q # first
      <4>1. After(merged, q) = After(head, q) /\ q \in DOMAIN head \ {top}
        BY <1>8, <2>4, <3>2
      <4>2. After(head, q) \in DOMAIN head
        BY <4>1 DEF Tiled, Covered
      <4>3. After(head, q) \notin {p, last} \ {first}
        <5>1. After(head, q) <= first \/ e <= q
          BY <1>9, <2>4, <3>2
        <5>. QED BY <1>2, <1>4, <1>5, <4>1, <4>2, <5>1
      <4>. QED BY <1>1, <4>1, <4>2, <4>3
    <3>. QED BY <3>1, <3>2
  <2>5. ASSUME NEW s \in D \ {heap_base} PROVE \E q \in D \ {top} : After(merged, q) = s
    <3>1. s \in DOMAIN head \ {heap_base}
      BY <1>1
    <3>2. PICK q \in DOMAIN head \ {top} : After(head, q) = s
      BY <3>1, Zenon DEF Tiled, Covered
    <3>3. CASE s = e
      BY <1>2, <1>6, <1>7, <3>3
    <3>4. CASE s # e
      <4>1. q # last
        BY <3>2, <3>4
      <4>2. q # first
        <5>1. ASSUME q = first PROVE FALSE
          <6>1. first # p => s = p /\ p # first
            BY <1>5, <3>2, <5>1
          <6>2. first = p => s = last /\ last # first
            BY <1>5, <3>2, <4>1, <5>1
          <6>. QED BY <1>1, <6>1, <6>2
        <5>. QED BY <5>1
      <4>3. q # p
        <5>1. ASSUME q = p PROVE FALSE
          <6>1. p # last /\ s = last
            BY <1>5, <3>2, <4>1, <5>1
          <6>2. last # first
            BY <1>2, <1>4, <1>5, <6>1
          <6>. QED BY <1>1, <6>1, <6>2
        <5>. QED BY <5>1
      <4>4. q \in D \ {first} /\ q \in D \ {top} /\ After(merged, q) = s
        BY <1>1, <1>8, <3>2, <4>1, <4>2, <4>3
      <4>. QED BY <4>4
    <3>. QED BY <3>3, <3>4
  <2>. QED BY <2>1, <2>2, <2>3, <2>4, <2>5, Zenon DEF Covered
<1>12. Told(merged, top, used \ {p})
  <2>1. merged[heap_base].prev_inuse = TRUE
    <3>1. head[heap_base].prev_inuse = TRUE /\ heap_base \in D
      <4>1. top # NoChunk
        BY <1>2 DEF Tiled, Covered
      <4>. QED BY <1>11, <4>1 DEF Tiled, Told, Covered
    <3>2. heap_base # e
      BY <1>2, <1>4, <1>5, <1>3
    <3>. QED BY <1>7, <3>1, <3>2
  <2>2. ASSUME NEW q \in used \ {p} PROVE q \in D /\ q # top
    <3>1. q \in DOMAIN head /\ q # top
      BY DEF Tiled, Told
    <3>2. q # last
      BY <1>2
    <3>. QED BY <1>1, <3>1, <3>2
  <2>3. ASSUME NEW q \in D \ {top}
        PROVE  /\ q \in used \ {p} => merged[After(merged, q)].prev_inuse = TRUE
               /\ q \notin used \ {p} =>
                    /\ merged[After(merged, q)].prev_inuse = FALSE
                    /\ merged[After(merged, q)].prev_size = merged[q].size
                    /\ After(merged, q) \in used \ {p}
    <3>1. CASE q = first
      <4>1. e # p
        BY <1>2, <1>3, <1>4, <1>5
      <4>. QED BY <1>2, <1>3, <1>7, <3>1, <4>1
    <3>2. CASE q # first
      <4>1. /\ q \in DOMAIN head \ {top} /\ q # p /\ q # last
            /\ After(merged, q) = After(head, q) /\ merged[q].size = head[q].size
        BY <1>1, <1>8, <2>3, <3>2
      <4>2. /\ q \in used => head[After(head, q)].prev_inuse = TRUE
            /\ q \notin used => /\ head[After(head, q)].prev_inuse = FALSE
                                /\ head[After(head, q)].prev_size = head[q].size
                                /\ After(head, q) \in used
        BY <4>1 DEF Tiled, Told
      <4>3. After(head, q) # e
        BY <1>2, <4>1, OneBefore DEF Tiled
      <4>4. After(head, q) \in D
        BY <1>11, <2>3, <4>1 DEF Covered
      <4>5. CASE After(head, q) = first
        <5>1. q \in used
          <6>1. CASE first = p
            <7>1. head[p].prev_inuse = TRUE
              BY <1>2, <1>4, <6>1 DEF Leads
            <7>. QED BY <4>2, <4>5, <6>1, <7>1
          <6>2. CASE first # p
            BY <1>2, <4>2, <4>5, <6>2
          <6>. QED BY <6>1, <6>2
        <5>. QED BY <1>7, <4>1, <4>5, <5>1
      <4>6. CASE After(head, q) # first
        <5>1. merged[After(head, q)] = head[After(head, q)]
          BY <4>3, <4>4, <4>6
        <5>2. After(head, q) # p
          BY <1>1, <4>4, <4>6
        <5>. QED BY <4>1, <4>2, <5>1, <5>2
      <4>. QED BY <4>5, <4>6
    <3>. QED BY <3>1, <3>2
  <2>. QED BY <2>1, <2>2, <2>3, Zenon DEF Told
<1>. QED BY <1>1, <1>10, <1>11, <1>12 DEF Tiled

(* In merged, first reaches to the end of the heap.                        *)
JointTop(head, first, p, top, merged) ==
  /\ merged \in [DOMAIN head \ ({p, top} \ {first}) -> Headers]
  /\ merged[first] = Header(Limit - first)
  /\ \A q \in DOMAIN merged \ {first} : merged[q] = head[q]

(* A block before the top becomes the top, with the free chunk before it.  *)
LEMMA TileMergeTop ==
  ASSUME NEW head, NEW top, NEW used, Tiled(head, top, used),
         NEW p \in used, After(head, p) = top,
         NEW first, Leads(head, top, used, first, p),
         NEW merged, JointTop(head, first, p, top, merged)
  PROVE  Tiled(merged, first, used \ {p})
<1>0. /\ merged \in [DOMAIN head \ ({p, top} \ {first}) -> Headers]
      /\ merged[first] = Header(Limit - first)
      /\ \A q \in DOMAIN merged \ {first} : merged[q] = head[q]
  BY DEF JointTop
<1>. USE <1>0
<1> DEFINE D == DOMAIN merged
<1>1. D = DOMAIN head \ ({p, top} \ {first})
  OBVIOUS
<1>2. /\ p \in DOMAIN head /\ p # top
      /\ first \in DOMAIN head /\ first # top /\ first \notin used \ {p}
      /\ top # NoChunk /\ top \in DOMAIN head /\ After(head, top) = Limit
      /\ heap_base \in DOMAIN head
  <2>1. p \in DOMAIN head /\ p # top
    BY DEF Tiled, Told
  <2>2. first \in DOMAIN head /\ first # top /\ first \notin used \ {p}
    BY <2>1 DEF Leads
  <2>3. top # NoChunk
    BY <2>1 DEF Tiled, Covered
  <2>. QED BY <2>1, <2>2, <2>3 DEF Tiled, Covered
<1>3. /\ \A q \in DOMAIN head : /\ q \in Nat /\ q % 8 = 0 /\ heap_base <= q
                                /\ head[q].size \in Nat /\ head[q].size >= 16
                                /\ After(head, q) <= Limit /\ After(head, q) \in Nat
                                /\ q < After(head, q) /\ After(head, q) = q + head[q].size
                                /\ q # top => head[q].size % 8 = 0
      /\ \A q, s \in DOMAIN head : q < s => After(head, q) <= s
      /\ Limit \in Nat
  <2>1. Limit \in Nat
    BY HeapNumbers, SMT DEF Limit
  <2>. QED BY <2>1 DEF Tiled, Placed, After
<1>4. /\ first <= p /\ p < top
      /\ first # p => After(head, first) = p
  BY <1>2, <1>3 DEF Leads
<1>5. first \in D
  BY <1>1, <1>2
<1>6. /\ merged[first].size = Limit - first /\ merged[first].prev_inuse = TRUE
      /\ Limit - first \in Nat /\ Limit - first >= 16
      /\ After(merged, first) = Limit
  <2>1. merged[first].size = Limit - first /\ merged[first].prev_inuse = TRUE
    BY DEF Header
  <2>2. After(head, first) <= Limit /\ After(head, first) >= first + 16 /\ first \in Nat
    BY <1>2, <1>3
  <2>3. After(merged, first) = first + merged[first].size
    BY DEF After
  <2>4. Limit - first >= 16
    <3>1. PICK x \in Nat : x = After(head, first)
      BY <1>2, <1>3
    <3>. QED BY <1>3, <2>2, <3>1
  <2>5. first <= Limit
    BY <1>3, <2>2, <2>4
  <2>. QED BY <1>3, <2>1, <2>2, <2>3, <2>4, <2>5
<1>7. \A q \in D \ {first} : /\ merged[q].size = head[q].size
                             /\ After(merged, q) = After(head, q)
                             /\ q \in DOMAIN head /\ q # p /\ q # top
  <2>1. \A q \in D \ {first} : merged[q].size = head[q].size /\ q \in DOMAIN head
    BY <1>1, Zenon
  <2>2. \A q \in D \ {first} : q # p /\ q # top
    BY <1>1
  <2>. QED BY <2>1, <2>2 DEF After
(* What is left lies before the new top.                                   *)
<1>8. \A q \in D \ {first} : After(head, q) <= first
  <2>1. ASSUME NEW q \in D \ {first} PROVE After(head, q) <= first
    <3>1. q \in DOMAIN head /\ q # p /\ q # top /\ q # first
      BY <1>7, <2>1
    <3>2. ~ (top < q)
      <4>1. top < q => Limit <= q
        BY <1>2, <1>3, <3>1
      <4>2. q < Limit
        BY <1>3, <3>1
      <4>. QED BY <1>3, <3>1, <4>1, <4>2
    <3>3. ~ (p < q)
      <4>1. p < q => top <= q
        BY <1>2, <1>3, <3>1
      <4>. QED BY <1>2, <1>3, <3>1, <3>2, <4>1
    <3>4. ~ (first < q)
      <4>1. CASE first = p
        BY <3>3, <4>1
      <4>2. CASE first # p
        <5>1. first < q => p <= q
          BY <1>2, <1>3, <1>4, <3>1, <4>2
        <5>. QED BY <1>2, <1>3, <3>1, <3>3, <5>1
      <4>. QED BY <4>1, <4>2
    <3>. QED BY <1>2, <1>3, <3>1, <3>4
  <2>. QED BY <2>1
<1>9. Placed(merged, first)
  <2>1. ASSUME NEW q \in D
        PROVE  /\ q \in Nat /\ q % 8 = 0 /\ heap_base <= q
               /\ merged[q].size \in Nat /\ merged[q].size >= 16
               /\ After(merged, q) <= Limit
               /\ q # first => merged[q].size % 8 = 0
    <3>1. CASE q = first
      BY <1>2, <1>3, <1>6, <3>1
    <3>2. CASE q # first
      BY <1>3, <1>7, <3>2
    <3>. QED BY <3>1, <3>2
  <2>2. ASSUME NEW q \in D, NEW s \in D, q < s PROVE After(merged, q) <= s
    <3>1. q # first
      <4>1. s # first => s < first
        BY <1>2, <1>3, <1>7, <1>8
      <4>. QED BY <1>1, <1>2, <1>3, <2>2, <4>1
    <3>. QED BY <1>1, <1>3, <1>7, <2>2, <3>1
  <2>. QED BY <2>1, <2>2 DEF Placed
<1>10. Covered(merged, first)
  <2>1. first # NoChunk
    BY <1>2, <1>3, HeapNumbers, SMT DEF NoChunk
  <2>2. heap_base \in D
    <3>1. heap_base <= first /\ heap_base \in Nat
      BY <1>2, <1>3, HeapNumbers
    <3>2. heap_base \in {p, top} => first = heap_base
      BY <1>2, <1>3, <1>4, <3>1
    <3>. QED BY <1>1, <1>2, <3>2
  <2>3. ASSUME NEW q \in D \ {first} PROVE After(merged, q) \in D
    <3>1. After(merged, q) = After(head, q) /\ q \in DOMAIN head \ {top}
      BY <1>7
    <3>2. After(head, q) \in DOMAIN head
      BY <3>1 DEF Tiled, Covered
    <3>3. After(head, q) <= first
      BY <1>8
    <3>4. After(head, q) \notin {p, top} \ {first}
      BY <1>2, <1>3, <1>4, <3>1, <3>2, <3>3
    <3>. QED BY <1>1, <3>1, <3>2, <3>4
  <2>4. ASSUME NEW s \in D \ {heap_base} PROVE \E q \in D \ {first} : After(merged, q) = s
    <3>1. s \in DOMAIN head \ {heap_base}
      BY <1>1
    <3>2. PICK q \in DOMAIN head \ {top} : After(head, q) = s
      BY <3>1, Zenon DEF Tiled, Covered
    <3>3. q # p
      BY <1>1, <1>2, <3>2
    <3>4. q # first
      <4>1. first # p => s # After(head, first)
        BY <1>1, <1>4
      <4>. QED BY <3>2, <3>3, <4>1
    <3>5. q \in D \ {first} /\ After(merged, q) = s
      BY <1>1, <1>7, <3>2, <3>3, <3>4
    <3>. QED BY <3>5
  <2>. QED BY <1>5, <1>6, <2>1, <2>2, <2>3, <2>4, Zenon DEF Covered
<1>11. Told(merged, first, used \ {p})
  <2>1. merged[heap_base].prev_inuse = TRUE
    <3>1. head[heap_base].prev_inuse = TRUE
      BY <1>2 DEF Tiled, Told
    <3>2. heap_base \in D
      BY <1>10, <1>2, <1>3, HeapNumbers DEF Covered, NoChunk
    <3>. QED BY <1>6, <3>1, <3>2
  <2>2. ASSUME NEW q \in used \ {p} PROVE q \in D /\ q # first
    <3>1. q \in DOMAIN head /\ q # top
      BY DEF Tiled, Told
    <3>. QED BY <1>1, <1>2, <3>1
  <2>3. ASSUME NEW q \in D \ {first}
        PROVE  /\ q \in used \ {p} => merged[After(merged, q)].prev_inuse = TRUE
               /\ q \notin used \ {p} =>
                    /\ merged[After(merged, q)].prev_inuse = FALSE
                    /\ merged[After(merged, q)].prev_size = merged[q].size
                    /\ After(merged, q) \in used \ {p}
    <3>1. /\ q \in DOMAIN head \ {top} /\ q # p
          /\ After(merged, q) = After(head, q) /\ merged[q].size = head[q].size
      BY <1>7
    <3>2. /\ q \in used => head[After(head, q)].prev_inuse = TRUE
          /\ q \notin used => /\ head[After(head, q)].prev_inuse = FALSE
                              /\ head[After(head, q)].prev_size = head[q].size
                              /\ After(head, q) \in used
      BY <3>1 DEF Tiled, Told
    <3>3. After(head, q) \in D
      BY <1>10, <3>1 DEF Covered
    <3>4. CASE After(head, q) = first
      <4>1. q \in used
        <5>1. CASE first = p
          <6>1. head[p].prev_inuse = TRUE
            BY <1>2, <1>3, <5>1 DEF Leads
          <6>. QED BY <3>2, <3>4, <5>1, <6>1
        <5>2. CASE first # p
          BY <1>2, <3>2, <3>4, <5>2
        <5>. QED BY <5>1, <5>2
      <4>. QED BY <1>6, <3>1, <3>4, <4>1
    <3>5. CASE After(head, q) # first
      <4>1. merged[After(head, q)] = head[After(head, q)]
        BY <3>3, <3>5
      <4>2. After(head, q) # p
        BY <1>1, <3>3, <3>5
      <4>. QED BY <3>1, <3>2, <4>1, <4>2
    <3>. QED BY <3>4, <3>5
  <2>. QED BY <2>1, <2>2, <2>3, Zenon DEF Told
<1>. QED BY <1>1, <1>9, <1>10, <1>11 DEF Tiled

-----------------------------------------------------------------------------
(* Contexts, and what the operators of the model do to their fields.       *)

IsContext(c) ==
  c = [head |-> c.head, bins |-> c.bins, binblocks |-> c.binblocks, top |-> c.top,
       last_remainder |-> c.last_remainder, heap_end |-> c.heap_end, bfbs |-> c.bfbs]

(* The lists, and the sizes that the searches go by.                       *)
SameLists(c, d) ==
  /\ d.bins = c.bins /\ d.binblocks = c.binblocks /\ d.bfbs = c.bfbs
  /\ d.heap_end = c.heap_end

SameChunks(c, d) ==
  /\ d.head = c.head /\ d.top = c.top /\ d.bfbs = c.bfbs /\ d.heap_end = c.heap_end

(* A size that fits the heap makes a header.                               *)
LEMMA HeaderTyped ==
  ASSUME NEW n \in Nat, n <= heap_max_size
  PROVE  Header(n) \in Headers /\ Header(n).size = n /\ Header(n).prev_inuse = TRUE
BY HeapNumbers, SMT DEF Header, Headers

(* What the foot of a chunk changes of the header behind it.               *)
LEMMA HeaderFooted ==
  ASSUME NEW h \in Headers, NEW n \in 0 .. heap_max_size, NEW t, t = [h EXCEPT !.prev_size = n]
  PROVE  t \in Headers /\ t.prev_inuse = h.prev_inuse /\ t.prev_size = n /\ t.size = h.size
BY DEF Headers

(* A chunk becomes the program's: the one behind is told.                  *)
LEMMA InuseSet ==
  ASSUME NEW c, IsContext(c), c.head \in [DOMAIN c.head -> Headers],
         NEW p \in DOMAIN c.head, After(c.head, p) \in DOMAIN c.head
  PROVE  LET d == SetInuse(c, p)
         IN /\ IsContext(d) /\ SameLists(c, d)
            /\ d.top = c.top /\ d.last_remainder = c.last_remainder
            /\ Claimed(c.head, p, d.head)
<1> DEFINE d == SetInuse(c, p)
<1> DEFINE e == After(c.head, p)
<1>1. PICK told : told = [c.head[e] EXCEPT !.prev_inuse = TRUE, !.prev_size = 0]
  OBVIOUS
<1>2. told \in Headers /\ told.prev_inuse = TRUE /\ told.size = c.head[e].size
  <2>1. c.head[e] \in Headers /\ 0 \in 0 .. heap_max_size
    BY HeapNumbers
  <2>2. PICK h \in Headers : h = c.head[e]
    BY <2>1
  <2>3. told = [h EXCEPT !.prev_inuse = TRUE, !.prev_size = 0]
    BY <1>1, <2>2
  <2>4. told \in Headers /\ told.prev_inuse = TRUE /\ told.size = h.size
    BY <2>1, <2>3 DEF Headers
  <2>. QED BY <2>2, <2>4
<1>3. PICK head : head = [c.head EXCEPT ![e] = told]
  OBVIOUS
<1>4. d = [c EXCEPT !.head = head]
  BY <1>1, <1>3 DEF SetInuse, After
<1>5. IsContext(d) /\ SameLists(c, d) /\ d.top = c.top /\ d.last_remainder = c.last_remainder
      /\ d.head = head
  BY <1>4 DEF IsContext, SameLists
<1>6. /\ head \in [DOMAIN c.head -> Headers] /\ head[e] = told
      /\ \A q \in DOMAIN c.head : q # e => head[q] = c.head[q]
  BY <1>2, <1>3
<1>7. Claimed(c.head, p, d.head)
  <2>1. \A q \in DOMAIN c.head : head[q].size = c.head[q].size
    BY <1>2, <1>6
  <2>. QED BY <1>2, <1>5, <1>6, <2>1 DEF Claimed
<1>. QED BY <1>5, <1>7

(* A chunk off its list.                                                   *)
LEMMA UnlinkEffect ==
  ASSUME NEW c, IsContext(c), NEW p
  PROVE  LET d == unlink(c, p)
         IN /\ IsContext(d) /\ SameChunks(c, d) /\ d.binblocks = c.binblocks
            /\ d.bins = Unlist(c.bins, p)
            /\ d.last_remainder = IF c.last_remainder = p THEN NoChunk ELSE c.last_remainder
<1>1. PICK bins : bins = Unlist(c.bins, p)
  OBVIOUS
<1>2. PICK kept : kept = IF c.last_remainder = p THEN NoChunk ELSE c.last_remainder
  OBVIOUS
<1>3. unlink(c, p) = [c EXCEPT !.bins = bins, !.last_remainder = kept]
  BY <1>1, <1>2 DEF unlink, Unlist
<1>. QED BY <1>1, <1>2, <1>3 DEF IsContext, SameChunks

(* A chunk into its bin.                                                   *)
LEMMA FrontlinkEffect ==
  ASSUME NEW c, IsContext(c), NEW p \in Nat \ {NoChunk},
         c.bins = [k \in Bins |-> c.bins[k]], bin_index(c.head[p].size) \in Bins,
         c.bins[bin_index(c.head[p].size)] \in Seq(Nat \ {NoChunk})
  PROVE  LET d == frontlink(c, p)
             s == c.head[p].size
             i == bin_index(s)
         IN /\ IsContext(d) /\ SameChunks(c, d) /\ d.last_remainder = c.last_remainder
            /\ d.bins = Enlist(c.bins, c.head, p)
            /\ d.binblocks = IF s < 512 \/ c.bins[i] = << >>
                             THEN c.binblocks \cup {idx2binblock(i)} ELSE c.binblocks
<1> DEFINE d == frontlink(c, p)
<1>a. PICK s : s = c.head[p].size
  OBVIOUS
<1>b. PICK i : i = bin_index(s)
  OBVIOUS
<1>c. PICK n : n = Cardinality({j \in 1 .. Len(c.bins[i]) : s < c.head[c.bins[i][j]].size})
  OBVIOUS
<1>d. i \in Bins /\ c.bins[i] \in Seq(Nat \ {NoChunk})
  BY <1>a, <1>b, Zenon
<1>1. chunksize(c, p) = s
  BY <1>a DEF chunksize
<1>2. DOMAIN c.bins[i] = 1 .. Len(c.bins[i])
  BY <1>d, LenProperties
<1>3. \A j \in 1 .. Len(c.bins[i]) : chunksize(c, c.bins[i][j]) = c.head[c.bins[i][j]].size
  <2>1. \A j \in 1 .. Len(c.bins[i]) : c.bins[i][j] \in Nat \ {NoChunk}
    BY <1>d, ElementOfSeq, Zenon
  <2>. QED BY <2>1 DEF chunksize
<1>4. {j \in DOMAIN c.bins[i] : s < chunksize(c, c.bins[i][j])}
        = {j \in 1 .. Len(c.bins[i]) : s < c.head[c.bins[i][j]].size}
  BY <1>2, <1>3
<1>5. d = [c EXCEPT !.bins[i] = InsertAt(@, n + 1, p),
                    !.binblocks = IF s < MAX_SMALLBIN_SIZE \/ c.bins[i] = << >>
                                  THEN @ \cup {idx2binblock(i)} ELSE @]
  <2>1. PICK place : place = bin_index(chunksize(c, p))
    OBVIOUS
  <2>2. PICK larger :
          larger = Cardinality({j \in DOMAIN c.bins[place] :
                                  chunksize(c, p) < chunksize(c, c.bins[place][j])})
    OBVIOUS
  <2>3. d = [c EXCEPT !.bins[place] = InsertAt(@, larger + 1, p),
                      !.binblocks = IF chunksize(c, p) < MAX_SMALLBIN_SIZE \/ c.bins[place] = << >>
                                    THEN @ \cup {idx2binblock(place)} ELSE @]
    BY <2>1, <2>2 DEF frontlink
  <2>4. place = i
    BY <1>1, <1>b, <2>1
  <2>5. larger = n
    BY <1>1, <1>4, <1>c, <2>2, <2>4
  <2>. QED BY <1>1, <2>3, <2>4, <2>5
<1>6. PICK marks : marks = IF s < 512 \/ c.bins[i] = << >>
                           THEN c.binblocks \cup {idx2binblock(i)} ELSE c.binblocks
  OBVIOUS
<1>7. PICK list : list = InsertAt(c.bins[i], n + 1, p)
  OBVIOUS
<1>8. d = [c EXCEPT !.bins[i] = list, !.binblocks = marks]
  BY <1>5, <1>6, <1>7 DEF MAX_SMALLBIN_SIZE
<1>9. /\ IsContext(d) /\ SameChunks(c, d) /\ d.last_remainder = c.last_remainder
      /\ d.bins = [c.bins EXCEPT ![i] = list] /\ d.binblocks = marks
  BY <1>8 DEF IsContext, SameChunks
<1>10. d.bins = Enlist(c.bins, c.head, p)
  BY <1>a, <1>b, <1>c, <1>7, <1>9 DEF Enlist
<1> HIDE DEF d
<1>. QED BY <1>6, <1>9, <1>10, <1>a, <1>b, Zenon DEF d

(* A chunk is cut in two.                                                  *)
LEMMA SplitEffect ==
  ASSUME NEW c, IsContext(c), c.head \in [DOMAIN c.head -> Headers],
         NEW p \in DOMAIN c.head, p # NoChunk,
         After(c.head, p) \in DOMAIN c.head, After(c.head, p) # p,
         NEW nb \in Nat, nb <= heap_max_size, p + nb \notin DOMAIN c.head,
         c.head[p].size - nb \in Nat, c.head[p].size - nb <= heap_max_size
  PROVE  LET d == Split(c, p, nb)
         IN /\ IsContext(d) /\ SameLists(c, d)
            /\ d.top = c.top /\ d.last_remainder = p + nb
            /\ Halved(c.head, p, nb, d.head)
<1>a. PICK r : r = p + nb
  OBVIOUS
<1>b. PICK e : e = After(c.head, p)
  OBVIOUS
<1>c. PICK rem \in Nat : rem = c.head[p].size - nb
  OBVIOUS
<1>. USE <1>a, <1>b, <1>c
<1> DEFINE d == Split(c, p, nb)
<1>1. chunksize(c, p) = c.head[p].size
  BY DEF chunksize
<1>2. PICK cut : cut = [c.head EXCEPT ![p].size = nb, ![p].prev_inuse = TRUE,
                                      ![e].prev_size = rem]
  OBVIOUS
<1>3. c.head[p] \in Headers /\ c.head[e] \in Headers
  OBVIOUS
<1>4. /\ DOMAIN cut = DOMAIN c.head
      /\ cut[p] = [[c.head[p] EXCEPT !.size = nb] EXCEPT !.prev_inuse = TRUE]
      /\ cut[e] = [c.head[e] EXCEPT !.prev_size = rem]
      /\ \A q \in DOMAIN c.head : q \notin {p, e} => cut[q] = c.head[q]
  BY <1>2
<1>5. /\ cut[p] \in Headers /\ cut[p].size = nb /\ cut[p].prev_inuse = TRUE
      /\ cut[e] \in Headers /\ cut[e].size = c.head[e].size
      /\ cut[e].prev_inuse = c.head[e].prev_inuse /\ cut[e].prev_size = rem
  <2>1. nb \in 0 .. heap_max_size /\ rem \in 0 .. heap_max_size
    BY HeapNumbers
  <2>2. cut[p] \in Headers /\ cut[p].size = nb /\ cut[p].prev_inuse = TRUE
    <3>1. PICK h \in Headers : h = c.head[p]
      BY <1>3
    <3>2. cut[p] = [[h EXCEPT !.size = nb] EXCEPT !.prev_inuse = TRUE]
      BY <1>4, <3>1
    <3>3. PICK t : t = cut[p]
      OBVIOUS
    <3>4. t \in Headers /\ t.size = nb /\ t.prev_inuse = TRUE
      BY <2>1, <3>2, <3>3 DEF Headers
    <3>. QED BY <3>3, <3>4
  <2>3. /\ cut[e] \in Headers /\ cut[e].size = c.head[e].size
        /\ cut[e].prev_inuse = c.head[e].prev_inuse /\ cut[e].prev_size = rem
    <3>1. PICK h \in Headers : h = c.head[e]
      BY <1>3
    <3>2. PICK t : t = cut[e]
      OBVIOUS
    <3>3. t = [h EXCEPT !.prev_size = rem]
      BY <1>4, <3>1, <3>2
    <3>4. t \in Headers /\ t.size = h.size /\ t.prev_inuse = h.prev_inuse /\ t.prev_size = rem
      BY <2>1, <3>3, HeaderFooted
    <3>. QED BY <3>1, <3>2, <3>4
  <2>. QED BY <2>2, <2>3
<1>6. cut \in [DOMAIN c.head -> Headers]
  BY <1>2, <1>4, <1>5
<1>7. PICK head : head = Bind(cut, r, Header(rem))
  OBVIOUS
<1>8. d = [c EXCEPT !.head = head, !.last_remainder = r]
  BY <1>1, <1>2, <1>7 DEF Split, After
<1>9. /\ IsContext(d) /\ SameLists(c, d) /\ d.top = c.top /\ d.last_remainder = r
      /\ d.head = head
  BY <1>8 DEF IsContext, SameLists
<1>10. /\ DOMAIN head = DOMAIN c.head \cup {r}
       /\ head = [y \in DOMAIN c.head \cup {r} |-> head[y]]
       /\ head[r] = Header(rem) /\ \A q \in DOMAIN c.head : head[q] = cut[q]
  <2>1. head = [y \in DOMAIN cut \cup {r} |-> IF y = r THEN Header(rem) ELSE cut[y]]
    BY <1>7 DEF Bind
  <2>. QED BY <1>4, <2>1
<1>11. head \in [DOMAIN c.head \cup {r} -> Headers]
  <2>1. Header(rem) \in Headers
    BY HeaderTyped
  <2>2. \A q \in DOMAIN c.head \cup {r} : head[q] \in Headers
    BY <1>6, <1>10, <2>1
  <2>. QED BY <1>10, <2>2
<1>12. /\ d.head \in [DOMAIN c.head \cup {r} -> Headers]
       /\ d.head[p].size = nb /\ d.head[p].prev_inuse = TRUE /\ d.head[r] = Header(rem)
       /\ d.head[e].size = c.head[e].size /\ d.head[e].prev_inuse = c.head[e].prev_inuse
       /\ d.head[e].prev_size = rem
       /\ \A q \in DOMAIN c.head : q \notin {p, e} => d.head[q] = c.head[q]
  <2>1. head[p] = cut[p] /\ head[e] = cut[e]
    BY <1>10
  <2>2. \A q \in DOMAIN c.head : q \notin {p, e} => head[q] = c.head[q]
    BY <1>4, <1>10, Zenon
  <2>. QED BY <1>5, <1>9, <1>10, <1>11, <2>1, <2>2, Zenon
<1>13. Halved(c.head, p, nb, d.head)
  <2> HIDE DEF d
  <2>. QED BY <1>12 DEF Halved
<1>. QED BY <1>9, <1>13

(* The front is cut off the top.                                           *)
LEMMA CutEffect ==
  ASSUME NEW c, IsContext(c), c.head \in [DOMAIN c.head -> Headers],
         c.top \in DOMAIN c.head, c.top # NoChunk,
         NEW nb \in Nat, nb <= heap_max_size, c.top + nb \notin DOMAIN c.head,
         c.head[c.top].size - nb \in Nat, c.head[c.top].size - nb <= heap_max_size
  PROVE  LET d == CutTop(c, nb)
         IN /\ IsContext(d) /\ SameLists(c, d)
            /\ d.top = c.top + nb /\ d.last_remainder = c.last_remainder
            /\ Shortened(c.head, c.top, nb, d.head)
<1>a. PICK r : r = c.top + nb
  OBVIOUS
<1>c. PICK rem \in Nat : rem = c.head[c.top].size - nb
  OBVIOUS
<1>. USE <1>a, <1>c
<1> DEFINE d == CutTop(c, nb)
<1>1. chunksize(c, c.top) = c.head[c.top].size
  BY DEF chunksize
<1>2. PICK cut : cut = Bind(c.head, c.top, Header(nb))
  OBVIOUS
<1>3. PICK head : head = Bind(cut, r, Header(rem))
  OBVIOUS
<1>4. d = [c EXCEPT !.head = head, !.top = r]
  BY <1>1, <1>2, <1>3 DEF CutTop
<1>5. /\ IsContext(d) /\ SameLists(c, d) /\ d.top = r /\ d.last_remainder = c.last_remainder
      /\ d.head = head
  BY <1>4 DEF IsContext, SameLists
<1>6. /\ DOMAIN cut = DOMAIN c.head /\ cut[c.top] = Header(nb)
      /\ \A q \in DOMAIN c.head : q # c.top => cut[q] = c.head[q]
  <2>1. cut = [y \in DOMAIN c.head \cup {c.top} |-> IF y = c.top THEN Header(nb) ELSE c.head[y]]
    BY <1>2 DEF Bind
  <2>. QED BY <2>1
<1>7. /\ DOMAIN head = DOMAIN c.head \cup {r}
      /\ head = [y \in DOMAIN c.head \cup {r} |-> head[y]]
      /\ head[r] = Header(rem) /\ \A q \in DOMAIN c.head : head[q] = cut[q]
  <2>1. head = [y \in DOMAIN cut \cup {r} |-> IF y = r THEN Header(rem) ELSE cut[y]]
    BY <1>3 DEF Bind
  <2>. QED BY <1>6, <2>1
<1>8. head \in [DOMAIN c.head \cup {r} -> Headers]
  <2>1. Header(rem) \in Headers /\ Header(nb) \in Headers
    BY HeaderTyped
  <2>2. \A q \in DOMAIN c.head \cup {r} : head[q] \in Headers
    BY <1>6, <1>7, <2>1
  <2>. QED BY <1>7, <2>2
<1>9. Shortened(c.head, c.top, nb, d.head)
  <2>1. PICK top : top = c.top
    OBVIOUS
  <2>2. head[top] = Header(nb) /\ \A q \in DOMAIN c.head : q # top => head[q] = c.head[q]
    BY <1>6, <1>7, <2>1
  <2>3. Shortened(c.head, top, nb, head)
    BY <1>7, <1>8, <2>1, <2>2 DEF Shortened
  <2>. QED BY <1>5, <2>1, <2>3
<1>. QED BY <1>5, <1>9

(* The heap gets its memory.                                               *)
LEMMA ExtendEffect ==
  ASSUME NEW c, IsContext(c), DOMAIN c.head = {}
  PROVE  LET d == malloc_extend_top(c)
         IN /\ IsContext(d) /\ d.bins = c.bins /\ d.binblocks = c.binblocks
            /\ d.bfbs = c.bfbs /\ d.last_remainder = c.last_remainder
            /\ d.heap_end = Limit /\ d.top = heap_base
            /\ d.head = [p \in {heap_base} |-> Header(heap_max_size - 4)]
<1>1. PICK head : head = Bind(c.head, heap_base, Header(heap_max_size - 4))
  OBVIOUS
<1>2. head = [p \in {heap_base} |-> Header(heap_max_size - 4)]
  BY <1>1 DEF Bind
<1>3. PICK limit : limit = heap_base + heap_max_size - 4
  OBVIOUS
<1>4. malloc_extend_top(c) = [c EXCEPT !.heap_end = limit, !.top = heap_base, !.head = head]
  BY <1>1, <1>3 DEF malloc_extend_top
<1>. QED BY <1>2, <1>3, <1>4 DEF IsContext, Limit

(* A chunk takes over its neighbours.                                      *)
LEMMA AbsorbEffect ==
  ASSUME NEW c, IsContext(c), NEW first \in DOMAIN c.head, NEW last \in DOMAIN c.head,
         first \in Nat, last \in Nat, c.head[last].size \in Nat,
         NEW gone, gone = {b \in DOMAIN c.head : first < b /\ b <= last}, first \notin gone
  PROVE  LET d == Absorb(c, first, last)
         IN /\ IsContext(d) /\ SameLists(c, d)
            /\ d.top = c.top /\ d.last_remainder = c.last_remainder
            /\ d.head = [a \in DOMAIN d.head |-> d.head[a]]
            /\ DOMAIN d.head = DOMAIN c.head \ gone
            /\ d.head[first] = Header(After(c.head, last) - first)
            /\ \A a \in DOMAIN d.head \ {first} : d.head[a] = c.head[a]
<1>1. PICK after : after = [a \in DOMAIN c.head \ {b \in DOMAIN c.head : first < b /\ b <= last} |->
                            IF a = first THEN Header(last + c.head[last].size - first) ELSE c.head[a]]
  OBVIOUS
<1>2. Absorb(c, first, last) = [c EXCEPT !.head = after]
  BY <1>1 DEF Absorb
<1>3. PICK n : n = last + c.head[last].size - first
  OBVIOUS
<1>4. /\ after = [a \in DOMAIN after |-> after[a]] /\ DOMAIN after = DOMAIN c.head \ gone
      /\ after[first] = Header(n) /\ \A a \in DOMAIN after \ {first} : after[a] = c.head[a]
  BY <1>1, <1>3
<1>5. n = After(c.head, last) - first
  BY <1>3 DEF After
<1>6. /\ IsContext(Absorb(c, first, last)) /\ SameLists(c, Absorb(c, first, last))
      /\ Absorb(c, first, last).top = c.top /\ Absorb(c, first, last).last_remainder = c.last_remainder
      /\ Absorb(c, first, last).head = after
  BY <1>2 DEF IsContext, SameLists
<1>. QED BY <1>4, <1>5, <1>6

-----------------------------------------------------------------------------
(* Contexts whose tiling, lists and sizes agree.                           *)

(* The chunks of F are those on the lists and the last remainder.          *)
Filed(c, F) ==
  /\ Binned(c.bins, c.head) /\ Marked(c.bins, c.binblocks)
  /\ NoChunk \notin F
  /\ F = Listed(c.bins) \cup ({c.last_remainder} \ {NoChunk})
  /\ c.last_remainder \notin Listed(c.bins)

(* The biggest free block is not thought smaller than the top or than a    *)
(* large chunk of F.                                                       *)
Known(c, F) ==
  /\ c.bfbs \in Nat /\ c.bfbs <= heap_max_size
  /\ c.top = NoChunk => c.bfbs = heap_max_size
  /\ c.top # NoChunk => c.head[c.top].size <= c.bfbs
  /\ \A p \in F : c.head[p].size >= 512 => c.head[p].size <= c.bfbs

(* The chunks that are neither the program's nor the top.                  *)
FreeOf(c, U) == DOMAIN c.head \ (U \cup {c.top})

(* A context in which the program has the chunks of U.                     *)
Good(c, U) ==
  /\ IsContext(c)
  /\ Tiled(c.head, c.top, U)
  /\ Filed(c, FreeOf(c, U))
  /\ Known(c, FreeOf(c, U))
  /\ c.heap_end = IF c.top = NoChunk THEN 0 ELSE Limit

(* What the tiling says of one chunk.                                      *)
LEMMA ChunkFacts ==
  ASSUME NEW head, NEW top, NEW used, Tiled(head, top, used), NEW p \in DOMAIN head
  PROVE  /\ p \in Nat /\ p # NoChunk /\ p % 8 = 0 /\ heap_base <= p
         /\ head[p].size \in Nat /\ head[p].size >= 16 /\ head[p].size <= heap_max_size
         /\ p # top => head[p].size % 8 = 0 /\ After(head, p) \in DOMAIN head
         /\ After(head, p) = p + head[p].size /\ After(head, p) <= Limit
         /\ Limit \in Nat /\ Limit <= heap_base + heap_max_size
         /\ p \in used => p # top
<1>1. /\ p \in Nat /\ p % 8 = 0 /\ heap_base <= p
      /\ head[p].size \in Nat /\ head[p].size >= 16
      /\ p # top => head[p].size % 8 = 0
      /\ p + head[p].size <= Limit
  BY DEF Tiled, Placed, After
<1>2. heap_base \in Nat /\ heap_base >= 8 /\ heap_max_size \in Nat /\ heap_max_size >= 20
  BY HeapNumbers
<1>3. Limit = heap_base + heap_max_size - 4 /\ Limit \in Nat
  BY <1>2 DEF Limit
<1>4. p # NoChunk /\ head[p].size <= heap_max_size
  BY <1>1, <1>2, <1>3 DEF NoChunk
<1>5. p # top => After(head, p) \in DOMAIN head
  BY DEF Tiled, Covered
<1>6. p \in used => p # top
  BY DEF Tiled, Told
<1>. QED BY <1>1, <1>2, <1>3, <1>4, <1>5, <1>6 DEF After

(* A list of chunks.                                                       *)
LEMMA ListOf ==
  ASSUME NEW s \in Seq(Nat), NEW S, Members(s) \subseteq S
  PROVE  s \in Seq(S)
<1>1. Len(s) \in Nat /\ DOMAIN s = 1 .. Len(s) /\ s = [j \in 1 .. Len(s) |-> s[j]]
  BY LenProperties
<1>2. \A j \in 1 .. Len(s) : s[j] \in S
  BY DEF Members
<1>. QED BY <1>1, <1>2, SeqDef

(* A chunk off the lists, or off its place as last remainder.              *)
LEMMA FiledUnlinked ==
  ASSUME NEW c, IsContext(c), NEW F, Filed(c, F), NEW p, p # NoChunk,
         NEW d, d = unlink(c, p)
  PROVE  /\ IsContext(d) /\ SameChunks(c, d) /\ Filed(d, F \ {p})
         /\ Listed(d.bins) = Listed(c.bins) \ {p}
         /\ d.last_remainder = IF c.last_remainder = p THEN NoChunk ELSE c.last_remainder
<1>1. /\ IsContext(d) /\ SameChunks(c, d) /\ d.binblocks = c.binblocks
      /\ d.bins = Unlist(c.bins, p)
      /\ d.last_remainder = IF c.last_remainder = p THEN NoChunk ELSE c.last_remainder
  BY UnlinkEffect
<1>2. PICK left : left = Unlist(c.bins, p)
  OBVIOUS
<1>3. /\ Binned(left, c.head) /\ Listed(left) = Listed(c.bins) \ {p}
      /\ \A i \in Bins : left[i] # << >> => c.bins[i] # << >>
  <2>1. Binned(c.bins, c.head)
    BY DEF Filed
  <2>. QED BY <1>2, <2>1, BinsUnlinked, Zenon
<1>4. d.bins = left /\ d.head = c.head
  BY <1>1, <1>2 DEF SameChunks
<1>5. Marked(d.bins, d.binblocks)
  BY <1>1, <1>3, <1>4 DEF Filed, Marked
<1>6. /\ NoChunk \notin F \ {p}
      /\ F \ {p} = Listed(d.bins) \cup ({d.last_remainder} \ {NoChunk})
      /\ d.last_remainder \notin Listed(d.bins)
  BY <1>1, <1>3, <1>4 DEF Filed
<1>. QED BY <1>1, <1>3, <1>4, <1>5, <1>6 DEF Filed

(* A chunk into its bin.                                                   *)
LEMMA FiledIn ==
  ASSUME NEW c, IsContext(c), NEW F, Filed(c, F), NEW p \in Nat, p # NoChunk, p \notin F,
         c.head[p].size \in Nat, c.head[p].size >= 16, c.head[p].size % 8 = 0,
         NEW d, d = frontlink(c, p)
  PROVE  /\ IsContext(d) /\ SameChunks(c, d) /\ Filed(d, F \cup {p})
         /\ d.last_remainder = c.last_remainder
         /\ Listed(d.bins) = Listed(c.bins) \cup {p}
         /\ \A i \in Bins : c.bins[i] # << >> => d.bins[i] # << >>
<1>1. Binned(c.bins, c.head) /\ p \notin Listed(c.bins) /\ c.last_remainder # p
  BY DEF Filed
<1>2. PICK s : s = c.head[p].size
  OBVIOUS
<1>3. PICK i : i = bin_index(s)
  OBVIOUS
<1>z. i \in Bins
  BY <1>2, <1>3, BinNumbers
<1>4. /\ c.bins = [k \in Bins |-> c.bins[k]] /\ c.bins[i] \in Seq(Nat)
  BY <1>1, <1>z, Zenon DEF Binned
<1>5. c.bins[i] \in Seq(Nat \ {NoChunk})
  <2>1. \A q \in Members(c.bins[i]) : q \in Nat /\ q \in Listed(c.bins)
    <3>1. \A q \in Members(c.bins[i]) : q \in Nat
      BY <1>4, ElementOfSeq, Zenon DEF Members
    <3>. QED BY <1>z, <3>1 DEF Listed
  <2>2. NoChunk \notin Listed(c.bins)
    BY DEF Filed
  <2>3. Members(c.bins[i]) \subseteq Nat \ {NoChunk}
    BY <2>1, <2>2
  <2>. QED BY <1>4, <2>3, ListOf, Zenon
<1>6. /\ IsContext(d) /\ SameChunks(c, d) /\ d.last_remainder = c.last_remainder
      /\ d.bins = Enlist(c.bins, c.head, p)
      /\ d.binblocks = IF s < 512 \/ c.bins[i] = << >>
                       THEN c.binblocks \cup {idx2binblock(i)} ELSE c.binblocks
  <2>1. p \in Nat \ {NoChunk} /\ bin_index(c.head[p].size) \in Bins
    BY <1>2, <1>3, <1>z
  <2>2. c.bins[bin_index(c.head[p].size)] \in Seq(Nat \ {NoChunk})
    BY <1>2, <1>3, <1>5, Zenon
  <2>3. LET b == frontlink(c, p)
        IN /\ IsContext(b) /\ SameChunks(c, b) /\ b.last_remainder = c.last_remainder
           /\ b.bins = Enlist(c.bins, c.head, p)
           /\ b.binblocks = IF c.head[p].size < 512 \/ c.bins[bin_index(c.head[p].size)] = << >>
                            THEN c.binblocks \cup {idx2binblock(bin_index(c.head[p].size))}
                            ELSE c.binblocks
    BY <1>4, <2>1, <2>2, FrontlinkEffect
  <2>. QED BY <1>2, <1>3, <2>3
<1>7. PICK filed : filed = Enlist(c.bins, c.head, p)
  OBVIOUS
<1>9. /\ filed[i] # << >> /\ \A k \in Bins : k # i => filed[k] = c.bins[k]
      /\ Binned(filed, c.head)
      /\ Listed(filed) = Listed(c.bins) \cup {p}
  BY <1>1, <1>2, <1>3, <1>7, BinsFiled
<1>10. d.bins = filed /\ d.head = c.head
  BY <1>6, <1>7 DEF SameChunks
<1>11. Marked(d.bins, d.binblocks)
  <2>1. Marked(c.bins, c.binblocks)
    BY DEF Filed
  <2>2. idx2binblock(i) \in Nat /\ idx2binblock(i) <= 31
    BY <1>z, BlockNumbers
  <2>3. idx2binblock(i) \in d.binblocks /\ c.binblocks \subseteq d.binblocks
        /\ d.binblocks \subseteq c.binblocks \cup {idx2binblock(i)}
    BY <1>6, <1>9, <1>z, <2>1 DEF Marked
  <2>. QED BY <1>z, <1>9, <1>10, <2>1, <2>2, <2>3 DEF Marked
<1>12. /\ NoChunk \notin F \cup {p}
       /\ F \cup {p} = Listed(d.bins) \cup ({d.last_remainder} \ {NoChunk})
       /\ d.last_remainder \notin Listed(d.bins)
  BY <1>1, <1>6, <1>9, <1>10 DEF Filed
<1>13. \A k \in Bins : c.bins[k] # << >> => d.bins[k] # << >>
  BY <1>9, <1>10
<1>. QED BY <1>6, <1>9, <1>10, <1>11, <1>12, <1>13 DEF Filed

(* Only the sizes of the chunks of F matter to the lists.                  *)
LEMMA FiledKept ==
  ASSUME NEW c, NEW d, NEW F, Filed(c, F),
         d.bins = c.bins, d.binblocks = c.binblocks, d.last_remainder = c.last_remainder,
         SameSizes(F, c.head, d.head)
  PROVE  Filed(d, F)
<1>1. SameSizes(Listed(c.bins), c.head, d.head)
  BY DEF Filed, SameSizes
<1>2. Binned(d.bins, d.head)
  <2>1. Binned(c.bins, c.head)
    BY DEF Filed
  <2>2. Binned(c.bins, d.head)
    BY <1>1, <2>1, BinnedKept, Zenon
  <2>. QED BY <2>2
<1>. QED BY <1>2 DEF Filed

(* A free chunk is not the program's, not the top, and has a chunk behind. *)
LEMMA FreeFacts ==
  ASSUME NEW c, NEW U, Good(c, U), NEW p \in FreeOf(c, U)
  PROVE  /\ p \in DOMAIN c.head /\ p \notin U /\ p # c.top /\ p \in Nat /\ p # NoChunk
         /\ c.head[p].size \in Nat /\ c.head[p].size >= 16 /\ c.head[p].size % 8 = 0
         /\ After(c.head, p) \in DOMAIN c.head /\ After(c.head, p) \in U
         /\ c.head \in [DOMAIN c.head -> Headers]
<1>1. p \in DOMAIN c.head /\ p \notin U /\ p # c.top /\ Tiled(c.head, c.top, U)
  BY DEF FreeOf, Good
<1>2. /\ p \in Nat /\ p # NoChunk /\ c.head[p].size \in Nat /\ c.head[p].size >= 16
      /\ c.head[p].size % 8 = 0 /\ After(c.head, p) \in DOMAIN c.head
  BY <1>1, ChunkFacts
<1>3. After(c.head, p) \in U /\ c.head \in [DOMAIN c.head -> Headers]
  BY <1>1 DEF Tiled, Told
<1>. QED BY <1>1, <1>2, <1>3

(* A free chunk is given to the program as it is.                          *)
LEMMA WholeGiven ==
  ASSUME NEW c, NEW U, Good(c, U), NEW p \in FreeOf(c, U)
  PROVE  LET d == SetInuse(unlink(c, p), p)
         IN /\ Good(d, U \cup {p})
            /\ DOMAIN d.head = DOMAIN c.head
            /\ \A q \in DOMAIN c.head : d.head[q].size = c.head[q].size
<1>1. /\ p \in DOMAIN c.head /\ p \notin U /\ p # c.top /\ p \in Nat /\ p # NoChunk
      /\ After(c.head, p) \in DOMAIN c.head
      /\ c.head \in [DOMAIN c.head -> Headers]
  BY FreeFacts
<1>2. IsContext(c) /\ Tiled(c.head, c.top, U) /\ Filed(c, FreeOf(c, U))
  BY DEF Good
<1>3. PICK b : b = unlink(c, p)
  OBVIOUS
<1>4. /\ IsContext(b) /\ SameChunks(c, b) /\ Filed(b, FreeOf(c, U) \ {p})
  BY <1>1, <1>2, <1>3, FiledUnlinked, Zenon
<1>5. b.head = c.head /\ b.top = c.top /\ b.bfbs = c.bfbs /\ b.heap_end = c.heap_end
  BY <1>4 DEF SameChunks
<1>7. PICK d : d = SetInuse(b, p)
  OBVIOUS
<1>8. /\ IsContext(d) /\ SameLists(b, d)
      /\ d.top = b.top /\ d.last_remainder = b.last_remainder
      /\ Claimed(c.head, p, d.head)
  <2>1. /\ b.head \in [DOMAIN b.head -> Headers] /\ p \in DOMAIN b.head
        /\ After(b.head, p) \in DOMAIN b.head
    BY <1>1, <1>5
  <2>2. /\ IsContext(d) /\ SameLists(b, d)
        /\ d.top = b.top /\ d.last_remainder = b.last_remainder
        /\ Claimed(b.head, p, d.head)
    BY <1>4, <1>7, <2>1, InuseSet, Zenon
  <2>. QED BY <1>5, <2>2
<1>9. \A q \in DOMAIN c.head : d.head[q].size = c.head[q].size
  BY <1>8 DEF Claimed
<1>10. DOMAIN d.head = DOMAIN c.head /\ d.top = c.top
  BY <1>5, <1>8 DEF Claimed
<1>11. Tiled(d.head, d.top, U \cup {p})
  <2>1. Tiled(d.head, c.top, U \cup {p})
    BY <1>1, <1>2, <1>8, TileTaken, Zenon
  <2>. QED BY <1>10, <2>1
<1>12. FreeOf(d, U \cup {p}) = FreeOf(c, U) \ {p}
  BY <1>10 DEF FreeOf
<1>13. Filed(d, FreeOf(d, U \cup {p}))
  <2>1. /\ d.bins = b.bins /\ d.binblocks = b.binblocks
        /\ d.last_remainder = b.last_remainder
        /\ SameSizes(FreeOf(c, U) \ {p}, b.head, d.head)
    BY <1>5, <1>8, <1>9 DEF SameLists, FreeOf, SameSizes
  <2>2. PICK F : F = FreeOf(c, U) \ {p}
    OBVIOUS
  <2>3. Filed(d, F)
    BY <1>4, <2>1, <2>2, FiledKept
  <2>. QED BY <1>12, <2>2, <2>3
<1>14. Known(d, FreeOf(d, U \cup {p}))
  <2>1. Known(c, FreeOf(c, U)) /\ d.bfbs = c.bfbs
    BY <1>5, <1>8 DEF Good, SameLists
  <2>2. \A q \in FreeOf(d, U \cup {p}) : q \in FreeOf(c, U) /\ d.head[q].size = c.head[q].size
    BY <1>9, <1>12 DEF FreeOf
  <2>3. c.top # NoChunk => c.top \in DOMAIN c.head
    BY <1>2 DEF Tiled, Covered
  <2>4. c.top # NoChunk => d.head[c.top].size = c.head[c.top].size
    BY <1>9, <2>3
  <2>. QED BY <1>10, <2>1, <2>2, <2>4 DEF Known
<1>15. d.heap_end = IF d.top = NoChunk THEN 0 ELSE Limit
  BY <1>5, <1>8, <1>10 DEF Good, SameLists
<1>16. Good(d, U \cup {p})
  BY <1>8, <1>11, <1>13, <1>14, <1>15 DEF Good
<1>. QED BY <1>3, <1>7, <1>9, <1>10, <1>16, Zenon

(* A size that malloc looks for.                                           *)
Wanted(nb) == nb \in Nat /\ nb >= 16 /\ nb % 8 = 0

(* A chunk from which they can be cut: what is left is a chunk.            *)
Spares(head, p, nb) == head[p].size - nb >= 16

(* A free chunk that is on no list can be cut: the lists hold the others.  *)
Cuttable(c, U, p) ==
  /\ IsContext(c)
  /\ Tiled(c.head, c.top, U)
  /\ Binned(c.bins, c.head) /\ Marked(c.bins, c.binblocks)
  /\ Listed(c.bins) = FreeOf(c, U) \ {p}
  /\ Known(c, FreeOf(c, U))
  /\ c.heap_end = IF c.top = NoChunk THEN 0 ELSE Limit

(* The front of a free chunk is given to the program, the rest becomes the *)
(* last remainder.                                                         *)
LEMMA PartGiven ==
  ASSUME NEW c, NEW U, NEW p \in FreeOf(c, U), Cuttable(c, U, p),
         NEW nb, Wanted(nb), Spares(c.head, p, nb)
  PROVE  LET d == Split(c, p, nb)
         IN /\ Good(d, U \cup {p})
            /\ d.head[p].size = nb
            /\ SameSizes(U, c.head, d.head)
<1>0. nb \in Nat /\ nb >= 16 /\ nb % 8 = 0 /\ c.head[p].size - nb >= 16
  BY DEF Wanted, Spares
<1>. USE <1>0
<1>1. /\ p \in DOMAIN c.head /\ p \notin U /\ p # c.top /\ Tiled(c.head, c.top, U)
      /\ IsContext(c)
  BY DEF FreeOf, Cuttable
<1>2. PICK e : e = After(c.head, p)
  OBVIOUS
<1>3. PICK s : s = c.head[p].size
  OBVIOUS
<1>4. /\ p \in Nat /\ p # NoChunk /\ s \in Nat /\ s <= heap_max_size
      /\ s % 8 = 0 /\ e \in DOMAIN c.head /\ e = p + s
  BY <1>1, <1>2, <1>3, ChunkFacts
<1>5. c.head \in [DOMAIN c.head -> Headers]
  BY <1>1 DEF Tiled
<1>6. heap_max_size \in Nat
  BY HeapNumbers
<1>7. PICK rem : rem = s - nb
  OBVIOUS
<1>8. /\ rem \in Nat /\ rem >= 16 /\ rem <= heap_max_size /\ nb <= heap_max_size /\ e # p
      /\ rem < s /\ rem = c.head[p].size - nb
  BY <1>3, <1>4, <1>6, <1>7
<1>9. PICK r : r = p + nb
  OBVIOUS
<1>10. r \in Nat /\ r # NoChunk /\ r # p /\ r + 16 <= e /\ r < e /\ p < r
  BY <1>3, <1>4, <1>9 DEF NoChunk
<1>11. r \notin DOMAIN c.head
  <2>1. \A q \in DOMAIN c.head : p < q => e <= q
    BY <1>1, <1>2 DEF Tiled, Placed
  <2>. QED BY <1>4, <1>10, <2>1
<1>12. PICK d : d = Split(c, p, nb)
  OBVIOUS
<1>z. /\ IsContext(d) /\ SameLists(c, d)
      /\ d.top = c.top /\ d.last_remainder = r
      /\ Halved(c.head, p, nb, d.head)
  <2>1. /\ p # NoChunk /\ After(c.head, p) \in DOMAIN c.head /\ After(c.head, p) # p
        /\ nb \in Nat /\ nb <= heap_max_size /\ p + nb \notin DOMAIN c.head
        /\ c.head[p].size - nb \in Nat /\ c.head[p].size - nb <= heap_max_size
    BY <1>2, <1>4, <1>8, <1>9, <1>11
  <2>. QED BY <1>1, <1>5, <1>9, <1>12, <2>1, SplitEffect, Zenon
<1>13. /\ d.head \in [DOMAIN c.head \cup {r} -> Headers]
       /\ d.head[p].size = nb /\ d.head[r] = Header(rem)
       /\ d.head[e].size = c.head[e].size
       /\ \A q \in DOMAIN c.head : q \notin {p, e} => d.head[q] = c.head[q]
       /\ d.top = c.top /\ d.last_remainder = r
  BY <1>z, <1>2, <1>8, <1>9 DEF Halved
<1>14. Tiled(d.head, d.top, U \cup {p})
  <2>1. Tiled(d.head, c.top, U \cup {p})
    BY <1>1, <1>z, TileSplit, Zenon
  <2>. QED BY <1>13, <2>1
<1>15. \A q \in DOMAIN c.head : q # p => d.head[q].size = c.head[q].size
  BY <1>13, Zenon
<1>16. FreeOf(d, U \cup {p}) = (FreeOf(c, U) \ {p}) \cup {r}
  <2>1. DOMAIN d.head = DOMAIN c.head \cup {r} /\ d.top = c.top
    BY <1>13
  <2>2. c.top # r /\ r \notin U
    <3>1. \A q \in U : q \in DOMAIN c.head
      BY <1>1 DEF Tiled, Told
    <3>2. c.top # NoChunk /\ c.top \in DOMAIN c.head
      BY <1>1 DEF Tiled, Covered
    <3>. QED BY <1>11, <3>1, <3>2
  <2>. QED BY <1>10, <2>1, <2>2 DEF FreeOf
<1>17. /\ d.bins = c.bins /\ d.binblocks = c.binblocks /\ d.bfbs = c.bfbs
       /\ d.heap_end = c.heap_end
  BY <1>z DEF SameLists
<1>18. Listed(d.bins) = FreeOf(c, U) \ {p}
  BY <1>17 DEF Cuttable
<1>19. Filed(d, FreeOf(d, U \cup {p}))
  <2>1. SameSizes(Listed(c.bins), c.head, d.head)
    BY <1>15 DEF Cuttable, FreeOf, SameSizes
  <2>2. Binned(c.bins, d.head)
    BY <2>1, BinnedKept, Zenon DEF Cuttable
  <2>3. NoChunk \notin FreeOf(d, U \cup {p})
    <3>1. \A q \in DOMAIN c.head : q # NoChunk
      BY <1>1, ChunkFacts
    <3>. QED BY <1>10, <1>16, <3>1 DEF FreeOf
  <2>4. r \notin Listed(d.bins)
    BY <1>11, <1>18 DEF FreeOf
  <2>5. FreeOf(d, U \cup {p}) = Listed(d.bins) \cup ({d.last_remainder} \ {NoChunk})
    BY <1>10, <1>13, <1>16, <1>18
  <2>6. Marked(d.bins, d.binblocks)
    BY <1>17 DEF Cuttable
  <2>. QED BY <1>13, <1>17, <2>2, <2>3, <2>4, <2>5, <2>6 DEF Filed
<1>20. Known(d, FreeOf(d, U \cup {p}))
  <2>1. Known(c, FreeOf(c, U))
    BY DEF Cuttable
  <2>2. d.head[r].size = rem
    BY <1>13 DEF Header
  <2>3. \A q \in FreeOf(c, U) \ {p} : d.head[q].size = c.head[q].size
    BY <1>15 DEF FreeOf
  <2>4. rem >= 512 => rem <= d.bfbs
    <3>1. s >= 512 => s <= c.bfbs /\ c.bfbs \in Nat
      BY <1>3, <2>1 DEF Known
    <3>. QED BY <1>4, <1>8, <1>17, <3>1
  <2>5. c.top # NoChunk => d.head[c.top].size = c.head[c.top].size
    <3>1. c.top # NoChunk => c.top \in DOMAIN c.head
      BY <1>1 DEF Tiled, Covered
    <3>. QED BY <1>1, <1>15, <3>1
  <2>6. \A q \in FreeOf(d, U \cup {p}) : d.head[q].size >= 512 => d.head[q].size <= d.bfbs
    BY <1>16, <1>17, <2>1, <2>2, <2>3, <2>4 DEF Known
  <2>. QED BY <1>13, <1>17, <2>1, <2>5, <2>6 DEF Known
<1>21. d.heap_end = IF d.top = NoChunk THEN 0 ELSE Limit
  BY <1>13, <1>17 DEF Cuttable
<1>22. Good(d, U \cup {p})
  BY <1>z, <1>14, <1>19, <1>20, <1>21 DEF Good
<1>23. \A q \in U : d.head[q].size = c.head[q].size
  <2>1. \A q \in U : q \in DOMAIN c.head
    BY <1>1 DEF Tiled, Told
  <2>. QED BY <1>1, <1>15, <2>1
<1>24. SameSizes(U, c.head, d.head)
  BY <1>23 DEF SameSizes
<1>. QED BY <1>12, <1>13, <1>22, <1>24, Zenon

(* The front of the top is given to the program.                           *)
LEMMA TopGiven ==
  ASSUME NEW c, NEW U, Good(c, U), c.top # NoChunk,
         NEW nb, Wanted(nb), Spares(c.head, c.top, nb)
  PROVE  LET d == CutTop(c, nb)
         IN /\ Good(d, U \cup {c.top})
            /\ d.head[c.top].size = nb
            /\ SameSizes(U, c.head, d.head)
<1>0. nb \in Nat /\ nb >= 16 /\ nb % 8 = 0 /\ c.head[c.top].size - nb >= 16
  BY DEF Wanted, Spares
<1>. USE <1>0
<1>1. PICK top : top = c.top
  OBVIOUS
<1>2. /\ IsContext(c) /\ Tiled(c.head, top, U) /\ Filed(c, FreeOf(c, U))
      /\ Known(c, FreeOf(c, U)) /\ c.heap_end = Limit /\ top # NoChunk
  BY <1>1 DEF Good
<1>3. top \in DOMAIN c.head /\ c.head \in [DOMAIN c.head -> Headers]
  BY <1>2 DEF Tiled, Covered
<1>4. PICK s : s = c.head[top].size
  OBVIOUS
<1>5. /\ top \in Nat /\ s \in Nat /\ s <= heap_max_size /\ heap_max_size \in Nat
      /\ After(c.head, top) = top + s
  BY <1>2, <1>3, <1>4, ChunkFacts, HeapNumbers
<1>6. PICK rem : rem = s - nb
  OBVIOUS
<1>7. rem \in Nat /\ rem >= 16 /\ rem < s /\ nb <= heap_max_size /\ rem <= heap_max_size
  BY <1>1, <1>4, <1>5, <1>6
<1>8. PICK r : r = top + nb
  OBVIOUS
<1>9. r \in Nat /\ r # NoChunk /\ top < r /\ r < top + s
  BY <1>5, <1>6, <1>7, <1>8 DEF NoChunk
<1>10. r \notin DOMAIN c.head
  <2>1. \A q \in DOMAIN c.head : top < q => top + s <= q
    BY <1>2, <1>3, <1>5 DEF Tiled, Placed
  <2>. QED BY <1>5, <1>9, <2>1
<1>11. PICK d : d = CutTop(c, nb)
  OBVIOUS
<1>12. /\ IsContext(d) /\ SameLists(c, d)
       /\ d.top = r /\ d.last_remainder = c.last_remainder
       /\ Shortened(c.head, top, nb, d.head)
  <2>1. /\ c.top \in DOMAIN c.head /\ c.top # NoChunk
        /\ nb \in Nat /\ nb <= heap_max_size /\ c.top + nb \notin DOMAIN c.head
        /\ c.head[c.top].size - nb \in Nat /\ c.head[c.top].size - nb <= heap_max_size
    BY <1>1, <1>2, <1>3, <1>4, <1>6, <1>7, <1>8, <1>10
  <2>2. /\ IsContext(d) /\ SameLists(c, d)
        /\ d.top = c.top + nb /\ d.last_remainder = c.last_remainder
        /\ Shortened(c.head, c.top, nb, d.head)
    BY <1>2, <1>3, <1>11, <2>1, CutEffect, Zenon
  <2>. QED BY <1>1, <1>8, <2>2
<1>13. /\ DOMAIN d.head = DOMAIN c.head \cup {r}
       /\ d.head[top] = Header(nb) /\ d.head[r] = Header(rem)
       /\ \A q \in DOMAIN c.head : q # top => d.head[q] = c.head[q]
  BY <1>4, <1>6, <1>8, <1>12 DEF Shortened
<1>14. Tiled(d.head, d.top, U \cup {top})
  <2>1. c.head[top].size - nb >= 16
    BY <1>1
  <2>2. Tiled(d.head, top + nb, U \cup {top})
    BY <1>2, <1>12, <2>1, TileCut, Zenon
  <2>. QED BY <1>8, <1>12, <2>2
<1>15. \A q \in U : q \in DOMAIN c.head /\ q # top
  BY <1>2 DEF Tiled, Told
<1>16. FreeOf(d, U \cup {top}) = FreeOf(c, U)
  BY <1>1, <1>10, <1>12, <1>13, <1>15 DEF FreeOf
<1>17. \A q \in FreeOf(c, U) : d.head[q].size = c.head[q].size
  BY <1>1, <1>13 DEF FreeOf
<1>18. /\ d.bins = c.bins /\ d.binblocks = c.binblocks /\ d.bfbs = c.bfbs
       /\ d.heap_end = c.heap_end
  BY <1>12 DEF SameLists
<1>19. Filed(d, FreeOf(d, U \cup {top}))
  <2>1. SameSizes(FreeOf(c, U), c.head, d.head)
    BY <1>17 DEF SameSizes
  <2>2. Filed(d, FreeOf(c, U))
    BY <1>2, <1>12, <1>18, <2>1, FiledKept, Zenon
  <2>. QED BY <1>16, <2>2
<1>20. Known(d, FreeOf(d, U \cup {top}))
  <2>1. d.head[r].size = rem
    BY <1>13 DEF Header
  <2>2. rem <= c.bfbs /\ c.bfbs \in Nat
    <3>1. s <= c.bfbs /\ c.bfbs \in Nat
      BY <1>1, <1>2, <1>4 DEF Known
    <3>. QED BY <1>5, <1>7, <3>1
  <2>. QED BY <1>2, <1>9, <1>12, <1>16, <1>17, <1>18, <2>1, <2>2 DEF Known
<1>21. Good(d, U \cup {top})
  BY <1>2, <1>9, <1>12, <1>14, <1>18, <1>19, <1>20 DEF Good
<1>22. d.head[top].size = nb /\ \A q \in U : d.head[q].size = c.head[q].size
  BY <1>13, <1>15 DEF Header
<1>23. SameSizes(U, c.head, d.head)
  BY <1>22 DEF SameSizes
<1>. QED BY <1>1, <1>11, <1>21, <1>22, <1>23

(* The heap gets its memory.                                               *)
LEMMA HeapExtended ==
  ASSUME NEW c, NEW U, Good(c, U), c.top = NoChunk
  PROVE  LET d == malloc_extend_top(c)
         IN /\ Good(d, U) /\ d.top # NoChunk /\ U = {}
            /\ d.bins = c.bins /\ d.binblocks = c.binblocks
            /\ d.last_remainder = c.last_remainder
<1>1. IsContext(c) /\ Tiled(c.head, c.top, U) /\ Filed(c, FreeOf(c, U))
      /\ Known(c, FreeOf(c, U))
  BY DEF Good
<1>2. DOMAIN c.head = {} /\ U = {} /\ FreeOf(c, U) = {}
  BY <1>1 DEF Tiled, Covered, Told, FreeOf
<1>3. PICK d : d = malloc_extend_top(c)
  OBVIOUS
<1>4. /\ IsContext(d) /\ d.bins = c.bins /\ d.binblocks = c.binblocks
      /\ d.bfbs = c.bfbs /\ d.last_remainder = c.last_remainder
      /\ d.heap_end = Limit /\ d.top = heap_base
      /\ d.head = [p \in {heap_base} |-> Header(heap_max_size - 4)]
  BY <1>1, <1>2, <1>3, ExtendEffect
<1>5. Tiled(d.head, d.top, U)
  <2>1. PICK head : head = [p \in {heap_base} |-> Header(heap_max_size - 4)]
    OBVIOUS
  <2>2. Tiled(head, heap_base, {})
    BY <2>1, TileExtend
  <2>. QED BY <1>2, <1>4, <2>1, <2>2
<1>6. FreeOf(d, U) = {}
  BY <1>4 DEF FreeOf
<1>7. Filed(d, FreeOf(d, U))
  <2>1. SameSizes(FreeOf(c, U), c.head, d.head)
    BY <1>2 DEF SameSizes
  <2>2. Filed(d, FreeOf(c, U))
    BY <1>1, <1>4, <2>1, FiledKept, Zenon
  <2>. QED BY <1>2, <1>6, <2>2
<1>8. d.top # NoChunk
  BY <1>4, HeapNumbers DEF NoChunk
<1>9. Known(d, FreeOf(d, U))
  <2>1. d.head[d.top].size = heap_max_size - 4
    BY <1>4 DEF Header
  <2>2. d.bfbs = heap_max_size /\ heap_max_size \in Nat /\ heap_max_size >= 20
    BY <1>1, <1>4, HeapNumbers DEF Known
  <2>. QED BY <1>6, <1>8, <2>1, <2>2 DEF Known
<1>10. Good(d, U)
  BY <1>4, <1>5, <1>7, <1>8, <1>9 DEF Good
<1>. QED BY <1>2, <1>3, <1>4, <1>8, <1>10

(* A listed chunk is in the bin of its size.                               *)
LEMMA InItsBin ==
  ASSUME NEW bins, NEW head, Binned(bins, head), NEW q
  PROVE  /\ q \in Listed(bins) => /\ bin_index(head[q].size) \in Bins
                                  /\ q \in Members(bins[bin_index(head[q].size)])
         /\ \A i \in Bins : q \in Members(bins[i]) =>
              /\ q \in Listed(bins) /\ bin_index(head[q].size) = i /\ head[q].size \in Nat
<1>1. \A i \in Bins : q \in Members(bins[i]) =>
        q \in Listed(bins) /\ bin_index(head[q].size) = i /\ head[q].size \in Nat
  <2>1. \A i \in Bins : OfBin(bins[i], i, head)
    BY Zenon DEF Binned
  <2>. QED BY <2>1, Zenon DEF OfBin, Listed
<1>2. q \in Listed(bins) => \E i \in Bins : q \in Members(bins[i])
  BY Zenon DEF Listed
<1>. QED BY <1>1, <1>2

(* The last remainder goes to its bin.                                     *)
LEMMA RemainderFiled ==
  ASSUME NEW c, NEW U, Good(c, U)
  PROVE  LET d == FileRemainder(c)
         IN /\ Good(d, U) /\ SameChunks(c, d) /\ d.last_remainder = NoChunk
            /\ Listed(d.bins) = FreeOf(c, U) /\ FreeOf(d, U) = FreeOf(c, U)
<1>1. IsContext(c) /\ Tiled(c.head, c.top, U) /\ Filed(c, FreeOf(c, U))
      /\ Known(c, FreeOf(c, U))
  BY DEF Good
<1>2. PICK r : r = c.last_remainder
  OBVIOUS
<1>3. CASE r = NoChunk
  <2>1. FileRemainder(c) = c
    BY <1>2, <1>3 DEF FileRemainder
  <2>2. Listed(c.bins) = FreeOf(c, U)
    BY <1>1, <1>2, <1>3 DEF Filed
  <2>. QED BY <1>2, <1>3, <2>1, <2>2 DEF SameChunks
<1>4. CASE r # NoChunk
  <2>1. r \in FreeOf(c, U)
    BY <1>1, <1>2, <1>4 DEF Filed
  <2>2. /\ r \in Nat /\ c.head[r].size \in Nat /\ c.head[r].size >= 16 /\ c.head[r].size % 8 = 0
    BY <2>1, FreeFacts
  <2>3. PICK b : b = [c EXCEPT !.last_remainder = NoChunk]
    OBVIOUS
  <2>4. /\ IsContext(b) /\ b.head = c.head /\ b.top = c.top /\ b.bfbs = c.bfbs
        /\ b.heap_end = c.heap_end /\ b.bins = c.bins /\ b.binblocks = c.binblocks
        /\ b.last_remainder = NoChunk
    BY <1>1, <2>3 DEF IsContext
  <2>5. PICK F : F = FreeOf(c, U) \ {r}
    OBVIOUS
  <2>6. Filed(b, F)
    BY <1>1, <1>2, <2>4, <2>5 DEF Filed
  <2>7. PICK d : d = frontlink(b, r)
    OBVIOUS
  <2>8. /\ IsContext(d) /\ SameChunks(b, d) /\ Filed(d, F \cup {r})
        /\ d.last_remainder = b.last_remainder
        /\ Listed(d.bins) = Listed(b.bins) \cup {r}
    <3>1. r \notin F /\ r \in Nat /\ r # NoChunk
          /\ b.head[r].size \in Nat /\ b.head[r].size >= 16 /\ b.head[r].size % 8 = 0
      BY <1>4, <2>2, <2>4, <2>5
    <3>2. IsContext(b)
      BY <2>4
    <3>. QED BY <2>6, <2>7, <3>1, <3>2, FiledIn
  <2>9. F \cup {r} = FreeOf(c, U)
    BY <2>1, <2>5
  <2>10. SameChunks(c, d) /\ d.last_remainder = NoChunk
    BY <2>4, <2>8 DEF SameChunks
  <2>11. FreeOf(d, U) = FreeOf(c, U)
    BY <2>10 DEF FreeOf, SameChunks
  <2>12. Listed(d.bins) = FreeOf(c, U)
    BY <2>8, <2>9, <2>10 DEF Filed
  <2>13. Tiled(d.head, d.top, U) /\ Known(d, FreeOf(d, U))
         /\ d.heap_end = IF d.top = NoChunk THEN 0 ELSE Limit
    BY <1>1, <2>10, <2>11 DEF SameChunks, Known, Good
  <2>14. Good(d, U)
    BY <2>8, <2>9, <2>11, <2>13 DEF Good
  <2>15. FileRemainder(c) = d
    BY <1>2, <1>4, <2>3, <2>7 DEF FileRemainder
  <2>. QED BY <2>10, <2>11, <2>12, <2>14, <2>15
<1>. QED BY <1>3, <1>4

-----------------------------------------------------------------------------
(* What free does to the tiling and to the lists.                          *)

(* The larger of two numbers.                                              *)
LEMMA MaxOfTwo ==
  ASSUME NEW a \in Nat, NEW b \in Nat
  PROVE  /\ Max({a, b}) \in {a, b} /\ Max({a, b}) \in Nat
         /\ a <= Max({a, b}) /\ b <= Max({a, b})
<1>1. PICK S : S = {a, b}
  OBVIOUS
<1>2. PICK n \in Nat : n = a + b
  OBVIOUS
<1>3. S \in SUBSET Nat /\ S # {} /\ \A k \in S : k <= n
  BY <1>1, <1>2
<1>4. Max(S) \in S /\ \A k \in S : k <= Max(S)
  BY <1>3, MaxIsGreatest, Zenon
<1>. QED BY <1>1, <1>3, <1>4

(* What free finds before a block and behind it.                           *)
LEMMA Neighbours ==
  ASSUME NEW c, NEW U, Good(c, U), NEW p \in U
  PROVE  /\ Leads(c.head, c.top, U, Backward(c, p), p)
         /\ After(c.head, p) # c.top => Trails(c.head, c.top, U, Forward(c, p), p)
         /\ p \in DOMAIN c.head /\ p # c.top /\ p \in Nat /\ p # NoChunk
         /\ c.head[p].size \in Nat /\ c.top # NoChunk /\ c.top \in DOMAIN c.head
<1>1. Tiled(c.head, c.top, U)
  BY DEF Good
<1>2. p \in DOMAIN c.head /\ p # c.top
  BY <1>1 DEF Tiled, Told
<1>3. /\ p \in Nat /\ p # NoChunk /\ c.head[p].size \in Nat
      /\ After(c.head, p) \in DOMAIN c.head
  BY <1>1, <1>2, ChunkFacts
<1>4. c.top # NoChunk /\ c.top \in DOMAIN c.head
  BY <1>1, <1>2 DEF Tiled, Covered
<1>5. Leads(c.head, c.top, U, Backward(c, p), p)
  <2>1. CASE c.head[p].prev_inuse
    <3>1. c.head[p].prev_inuse = TRUE
      <4>1. c.head[p] \in Headers
        BY <1>1, <1>2 DEF Tiled
      <4>2. c.head[p].prev_inuse \in BOOLEAN
        BY <4>1 DEF Headers
      <4>. QED BY <2>1, <4>2
    <3>2. Backward(c, p) = p
      BY <2>1 DEF Backward
    <3>. QED BY <3>1, <3>2 DEF Leads
  <2>2. CASE ~ c.head[p].prev_inuse
    <3>1. c.head[p].prev_inuse = FALSE
      <4>1. c.head[p] \in Headers
        BY <1>1, <1>2 DEF Tiled
      <4>2. c.head[p].prev_inuse \in BOOLEAN
        BY <4>1 DEF Headers
      <4>. QED BY <2>2, <4>2
    <3>2. Backward(c, p) = p - c.head[p].prev_size
      BY <2>2 DEF Backward
    <3>3. Tiled(c.head, c.top, U) /\ p \in DOMAIN c.head /\ c.head[p].prev_inuse = FALSE
      BY <1>1, <1>2, <3>1
    <3>4. Leads(c.head, c.top, U, p - c.head[p].prev_size, p)
      BY <3>3, Before
    <3>. QED BY <3>2, <3>4
  <2>. QED BY <2>1, <2>2
<1>6. ASSUME After(c.head, p) # c.top PROVE Trails(c.head, c.top, U, Forward(c, p), p)
  <2>1. PICK next : next = After(c.head, p)
    OBVIOUS
  <2>2. next \in DOMAIN c.head /\ next # c.top
    BY <1>3, <1>6, <2>1
  <2>3. chunksize(c, p) = c.head[p].size /\ next = p + chunksize(c, p)
    BY <1>3, <2>1 DEF chunksize, After
  <2>4. next # NoChunk
    BY <1>1, <2>2, ChunkFacts
  <2>5. next + chunksize(c, next) = After(c.head, next)
    BY <2>4 DEF chunksize, After
  <2>6. PICK told : told = c.head[After(c.head, next)].prev_inuse
    OBVIOUS
  <2>7. (told <=> next \in U)
    <3>1. /\ next \in U => told = TRUE
          /\ next \notin U => told = FALSE
      BY <1>1, <2>2, <2>6 DEF Tiled, Told
    <3>. QED BY <3>1
  <2>8. Forward(c, p) = IF told THEN p ELSE next
    BY <2>3, <2>5, <2>6 DEF Forward
  <2>9. CASE next \in U
    <3>1. Forward(c, p) = p
      BY <2>7, <2>8, <2>9
    <3>. QED BY <2>1, <2>9, <3>1 DEF Trails
  <2>10. CASE next \notin U
    <3>1. Forward(c, p) = next
      BY <2>7, <2>8, <2>10
    <3>. QED BY <2>1, <2>2, <2>10, <3>1 DEF Trails
  <2>. QED BY <2>9, <2>10
<1>. QED BY <1>2, <1>3, <1>4, <1>5, <1>6

(* The chunks from first to last are those free merges.                    *)
LEMMA Between ==
  ASSUME NEW head, NEW top, NEW used, Tiled(head, top, used),
         NEW p \in DOMAIN head, NEW first \in DOMAIN head, NEW last \in DOMAIN head,
         first = p \/ After(head, first) = p, last = p \/ After(head, p) = last
  PROVE  /\ {b \in DOMAIN head : first < b /\ b <= last} = {p, last} \ {first}
         /\ first <= p /\ p <= last /\ first \in Nat /\ last \in Nat /\ p \in Nat
         /\ head[last].size \in Nat
<1>1. /\ \A q \in DOMAIN head : q \in Nat /\ head[q].size \in Nat /\ head[q].size >= 16
                                /\ After(head, q) = q + head[q].size
      /\ \A q, s \in DOMAIN head : q < s => After(head, q) <= s
  BY DEF Tiled, Placed, After
<1>2. first <= p /\ p <= last /\ (first # p => first < p) /\ (last # p => p < last)
  BY <1>1
<1>3. ASSUME NEW b \in DOMAIN head, first < b, b <= last PROVE b \in {p, last} \ {first}
  <2>1. p <= b
    <3>1. CASE first = p
      BY <1>1, <1>3, <3>1
    <3>2. CASE first # p
      BY <1>1, <1>3, <3>2
    <3>. QED BY <3>1, <3>2
  <2>2. p < b => last <= b
    <3>1. CASE last = p
      BY <1>1, <3>1
    <3>2. CASE last # p
      BY <1>1, <3>2
    <3>. QED BY <3>1, <3>2
  <2>. QED BY <1>1, <1>3, <2>1, <2>2
<1>4. ASSUME NEW b \in {p, last} \ {first} PROVE b \in DOMAIN head /\ first < b /\ b <= last
  BY <1>1, <1>2
<1>. QED BY <1>1, <1>2, <1>3, <1>4

(* Noting the size of what is free now.                                    *)
LEMMA FreedNoted ==
  ASSUME NEW c, IsContext(c), NEW p, p # NoChunk, c.head[p].size \in Nat, c.bfbs \in Nat
  PROVE  LET d == NoteFreed(c, p)
         IN /\ IsContext(d) /\ d.head = c.head /\ d.top = c.top
            /\ d.bins = c.bins /\ d.binblocks = c.binblocks
            /\ d.last_remainder = c.last_remainder /\ d.heap_end = c.heap_end
            /\ d.bfbs \in {c.bfbs, c.head[p].size}
            /\ c.bfbs <= d.bfbs /\ c.head[p].size <= d.bfbs
<1>1. chunksize(c, p) = c.head[p].size
  BY DEF chunksize
<1>2. PICK big : big = Max({c.bfbs, c.head[p].size})
  OBVIOUS
<1>3. big \in {c.bfbs, c.head[p].size} /\ c.bfbs <= big /\ c.head[p].size <= big
  BY <1>2, MaxOfTwo
<1>4. NoteFreed(c, p) = [c EXCEPT !.bfbs = big]
  BY <1>1, <1>2 DEF NoteFreed
<1>. QED BY <1>3, <1>4 DEF IsContext

(* A block that borders the top is freed.                                  *)
LEMMA TopFreed ==
  ASSUME NEW c, NEW U, Good(c, U), NEW p \in U, After(c.head, p) = c.top
  PROVE  LET d == FreeIntoTop(c, p)
         IN /\ Good(d, U \ {p})
            /\ \A q \in U \ {p} : d.head[q].size = c.head[q].size
<1>1. IsContext(c) /\ Tiled(c.head, c.top, U) /\ Filed(c, FreeOf(c, U))
      /\ Known(c, FreeOf(c, U)) /\ c.heap_end = IF c.top = NoChunk THEN 0 ELSE Limit
  BY DEF Good
<1>2. PICK first : first = Backward(c, p)
  OBVIOUS
<1>3. /\ Leads(c.head, c.top, U, first, p)
      /\ p \in DOMAIN c.head /\ p # c.top /\ p # NoChunk
      /\ c.top # NoChunk /\ c.top \in DOMAIN c.head
  BY <1>2, Neighbours
<1>4. /\ first \in DOMAIN c.head /\ first # c.top /\ first \notin U \ {p}
      /\ (first = p \/ After(c.head, first) = p)
  BY <1>3 DEF Leads
<1>5. PICK top : top = c.top
  OBVIOUS
<1>6. /\ {b \in DOMAIN c.head : first < b /\ b <= top} = {p, top} \ {first}
      /\ first \in Nat /\ top \in Nat /\ c.head[top].size \in Nat
  BY <1>1, <1>3, <1>4, <1>5, Between
<1>7. first # NoChunk
  BY <1>1, <1>4, ChunkFacts
<1>8. PICK F : F = FreeOf(c, U) \ {first}
  OBVIOUS
<1>9. PICK kept : kept = IF first = p THEN c ELSE unlink(c, first)
  OBVIOUS
<1>10. IsContext(kept) /\ SameChunks(c, kept) /\ Filed(kept, F)
  <2>1. CASE first = p
    <3>1. F = FreeOf(c, U)
      BY <1>8, <2>1 DEF FreeOf
    <3>. QED BY <1>1, <1>9, <2>1, <3>1 DEF SameChunks
  <2>2. CASE first # p
    <3>1. kept = unlink(c, first)
      BY <1>9, <2>2
    <3>. QED BY <1>1, <1>7, <1>8, <3>1, FiledUnlinked
  <2>. QED BY <2>1, <2>2
<1>11. kept.head = c.head /\ kept.top = top /\ kept.bfbs = c.bfbs /\ kept.heap_end = c.heap_end
  BY <1>5, <1>10 DEF SameChunks
<1>12. PICK a : a = Absorb(kept, first, top)
  OBVIOUS
<1>13. PICK gone : gone = {p, top} \ {first}
  OBVIOUS
<1>14. /\ IsContext(a) /\ SameLists(kept, a)
       /\ a.top = kept.top /\ a.last_remainder = kept.last_remainder
       /\ a.head = [b \in DOMAIN a.head |-> a.head[b]]
       /\ DOMAIN a.head = DOMAIN c.head \ gone
       /\ a.head[first] = Header(After(c.head, top) - first)
       /\ \A b \in DOMAIN a.head \ {first} : a.head[b] = c.head[b]
  <2>1. /\ gone = {b \in DOMAIN kept.head : first < b /\ b <= top}
        /\ first \notin gone /\ first \in DOMAIN kept.head /\ top \in DOMAIN kept.head
        /\ first \in Nat /\ top \in Nat /\ kept.head[top].size \in Nat
    BY <1>3, <1>4, <1>5, <1>6, <1>11, <1>13
  <2>2. /\ IsContext(a) /\ SameLists(kept, a)
        /\ a.top = kept.top /\ a.last_remainder = kept.last_remainder
        /\ a.head = [b \in DOMAIN a.head |-> a.head[b]]
        /\ DOMAIN a.head = DOMAIN kept.head \ gone
        /\ a.head[first] = Header(After(kept.head, top) - first)
        /\ \A b \in DOMAIN a.head \ {first} : a.head[b] = kept.head[b]
    BY <1>10, <1>12, <2>1, AbsorbEffect
  <2>. QED BY <1>11, <2>2
<1>15. After(c.head, top) = Limit
  BY <1>1, <1>3, <1>5 DEF Tiled, Covered
<1>16. Limit - first \in Nat /\ Limit - first <= heap_max_size
  <2>1. /\ first + c.head[first].size <= Limit /\ c.head[first].size \in Nat
        /\ Limit \in Nat /\ Limit <= heap_base + heap_max_size /\ heap_base <= first
    BY <1>1, <1>4, ChunkFacts
  <2>. QED BY <1>6, <2>1, HeapNumbers
<1>17. JointTop(c.head, first, p, top, a.head)
  <2>1. Header(Limit - first) \in Headers
    BY <1>16, HeaderTyped
  <2>2. \A b \in DOMAIN a.head : a.head[b] \in Headers
    <3>1. \A b \in DOMAIN c.head : c.head[b] \in Headers
      BY <1>1 DEF Tiled
    <3>. QED BY <1>14, <1>15, <2>1, <3>1
  <2>3. a.head \in [DOMAIN c.head \ ({p, top} \ {first}) -> Headers]
    BY <1>13, <1>14, <2>2
  <2>. QED BY <1>14, <1>15, <2>3 DEF JointTop
<1>18. Tiled(a.head, first, U \ {p})
  <2>1. After(c.head, p) = top /\ Tiled(c.head, top, U) /\ Leads(c.head, top, U, first, p)
    BY <1>1, <1>3, <1>5
  <2>. QED BY <1>17, <2>1, TileMergeTop, Zenon
<1>19. PICK b : b = [a EXCEPT !.top = first]
  OBVIOUS
<1>20. /\ IsContext(b) /\ b.head = a.head /\ b.top = first /\ b.bins = kept.bins
       /\ b.binblocks = kept.binblocks /\ b.bfbs = c.bfbs /\ b.heap_end = c.heap_end
       /\ b.last_remainder = kept.last_remainder
  BY <1>11, <1>14, <1>19 DEF IsContext, SameLists
<1>21. b.head[first].size = Limit - first
  BY <1>14, <1>15, <1>20 DEF Header
<1>22. PICK d : d = NoteFreed(b, first)
  OBVIOUS
<1>23. c.bfbs \in Nat /\ c.bfbs <= heap_max_size
  BY <1>1 DEF Known
<1>24. /\ IsContext(d) /\ d.head = a.head /\ d.top = first
       /\ d.bins = kept.bins /\ d.binblocks = kept.binblocks
       /\ d.last_remainder = kept.last_remainder /\ d.heap_end = c.heap_end
       /\ d.bfbs \in {c.bfbs, Limit - first}
       /\ c.bfbs <= d.bfbs /\ Limit - first <= d.bfbs
  BY <1>7, <1>16, <1>20, <1>21, <1>22, <1>23, FreedNoted
<1>25. DOMAIN a.head = DOMAIN c.head \ gone
  BY <1>14
<1>26. FreeOf(d, U \ {p}) = F
  <2>1. gone = {p, top} \ {first} /\ p \in U /\ first \notin U \ {p}
    BY <1>4, <1>13
  <2>. QED BY <1>5, <1>8, <1>24, <1>25, <2>1 DEF FreeOf
<1>27. \A q \in F : d.head[q].size = c.head[q].size
  <2>1. \A q \in F : q \in DOMAIN a.head \ {first}
    BY <1>24, <1>26 DEF FreeOf
  <2>. QED BY <1>14, <1>24, <2>1
<1>28. Filed(d, F)
  <2>1. SameSizes(F, kept.head, d.head)
    BY <1>11, <1>27 DEF SameSizes
  <2>. QED BY <1>10, <1>24, <2>1, FiledKept
<1>29. Known(d, F)
  <2>1. /\ \A q \in F : c.head[q].size >= 512 => c.head[q].size <= c.bfbs
        /\ \A q \in F : c.head[q].size \in Nat
    <3>1. \A q \in F : q \in FreeOf(c, U)
      BY <1>8
    <3>. QED BY <1>1, <3>1, FreeFacts DEF Known
  <2>2. \A q \in F : d.head[q].size >= 512 => d.head[q].size <= d.bfbs
    BY <1>16, <1>23, <1>24, <1>27, <2>1
  <2>3. d.bfbs \in Nat /\ d.bfbs <= heap_max_size
    BY <1>16, <1>23, <1>24
  <2>. QED BY <1>7, <1>20, <1>21, <1>24, <2>2, <2>3 DEF Known
<1>30. Good(d, U \ {p})
  BY <1>1, <1>3, <1>7, <1>18, <1>24, <1>26, <1>28, <1>29 DEF Good
<1>31. \A q \in U \ {p} : d.head[q].size = c.head[q].size
  <2>1. \A q \in U \ {p} : q \in DOMAIN a.head \ {first}
    BY <1>4, <1>18 DEF Tiled, Told
  <2>. QED BY <1>14, <1>24, <2>1
<1>32. FreeIntoTop(c, p) = d
  BY <1>2, <1>5, <1>9, <1>12, <1>19, <1>22 DEF FreeIntoTop
<1>. QED BY <1>30, <1>31, <1>32

(* A block that does not border the top is freed.                          *)
LEMMA BinFreed ==
  ASSUME NEW c, NEW U, Good(c, U), NEW p \in U, After(c.head, p) # c.top
  PROVE  LET d == FreeIntoBin(c, p)
         IN /\ Good(d, U \ {p})
            /\ \A q \in U \ {p} : d.head[q].size = c.head[q].size
<1>1. IsContext(c) /\ Tiled(c.head, c.top, U) /\ Filed(c, FreeOf(c, U))
      /\ Known(c, FreeOf(c, U)) /\ c.heap_end = IF c.top = NoChunk THEN 0 ELSE Limit
  BY DEF Good
<1>2. PICK first : first = Backward(c, p)
  OBVIOUS
<1>3. PICK last : last = Forward(c, p)
  OBVIOUS
<1>4. /\ Leads(c.head, c.top, U, first, p) /\ Trails(c.head, c.top, U, last, p)
      /\ p \in DOMAIN c.head /\ p # c.top /\ p # NoChunk /\ p \in Nat
      /\ After(c.head, p) \in DOMAIN c.head
      /\ c.top # NoChunk /\ c.top \in DOMAIN c.head
  BY <1>1, <1>2, <1>3, Neighbours, ChunkFacts
<1>5. /\ first \in DOMAIN c.head /\ first # c.top /\ first \notin U \ {p}
      /\ (first = p \/ After(c.head, first) = p)
  BY <1>4 DEF Leads
<1>6. /\ last \in DOMAIN c.head /\ last # c.top /\ last \notin U \ {p}
      /\ (last = p \/ After(c.head, p) = last)
  BY <1>4 DEF Trails
<1>7. /\ {b \in DOMAIN c.head : first < b /\ b <= last} = {p, last} \ {first}
      /\ first <= p /\ p <= last /\ first \in Nat /\ last \in Nat /\ c.head[last].size \in Nat
  BY <1>1, <1>4, <1>5, <1>6, Between
<1>8. first # NoChunk /\ last # NoChunk
  BY <1>1, <1>5, <1>6, ChunkFacts
<1>9. PICK e : e = After(c.head, last)
  OBVIOUS
<1>10. /\ e \in DOMAIN c.head /\ e \in Nat /\ last < e /\ e <= Limit /\ e = last + c.head[last].size
       /\ Limit \in Nat /\ Limit <= heap_base + heap_max_size /\ heap_base <= first
       /\ e % 8 = 0 /\ first % 8 = 0
       /\ first + 16 <= e
  <2>1. /\ e \in DOMAIN c.head /\ e <= Limit /\ c.head[last].size >= 16
        /\ e = last + c.head[last].size /\ Limit \in Nat /\ Limit <= heap_base + heap_max_size
    BY <1>1, <1>6, <1>9, ChunkFacts
  <2>2. e \in Nat /\ e % 8 = 0
    BY <1>1, <2>1, ChunkFacts
  <2>3. heap_base <= first /\ first % 8 = 0
    BY <1>1, <1>5, ChunkFacts
  <2>. QED BY <1>7, <2>1, <2>2, <2>3
<1>11. PICK n : n = e - first
  OBVIOUS
<1>12. n \in Nat /\ n >= 16 /\ n % 8 = 0 /\ n <= heap_max_size /\ first + n = e
  BY <1>7, <1>10, <1>11, HeapNumbers
<1>13. PICK F : F = FreeOf(c, U)
  OBVIOUS
<1>14. PICK one : one = unlink(c, first)
  OBVIOUS
<1>15. /\ IsContext(one) /\ SameChunks(c, one) /\ Filed(one, F \ {first})
       /\ one.last_remainder = IF c.last_remainder = first THEN NoChunk ELSE c.last_remainder
  BY <1>1, <1>8, <1>13, <1>14, FiledUnlinked
<1>16. PICK two : two = unlink(one, last)
  OBVIOUS
<1>17. /\ IsContext(two) /\ SameChunks(one, two) /\ Filed(two, (F \ {first}) \ {last})
       /\ two.last_remainder = IF one.last_remainder = last THEN NoChunk ELSE one.last_remainder
  <2>1. PICK H : H = F \ {first}
    OBVIOUS
  <2>2. IsContext(one) /\ Filed(one, H) /\ last # NoChunk /\ two = unlink(one, last)
    BY <1>8, <1>15, <1>16, <2>1
  <2>3. /\ IsContext(two) /\ SameChunks(one, two) /\ Filed(two, H \ {last})
        /\ two.last_remainder = IF one.last_remainder = last THEN NoChunk ELSE one.last_remainder
    BY <2>2, FiledUnlinked
  <2>. QED BY <2>1, <2>3
<1>18. PICK G : G = (F \ {first}) \ {last}
  OBVIOUS
<1>19. /\ two.head = c.head /\ two.top = c.top /\ two.bfbs = c.bfbs /\ two.heap_end = c.heap_end
       /\ Filed(two, G)
       /\ c.last_remainder \in {first, last} => two.last_remainder = NoChunk
  BY <1>15, <1>17, <1>18 DEF SameChunks
<1>20. PICK a : a = Absorb(two, first, last)
  OBVIOUS
<1>21. PICK gone : gone = {p, last} \ {first}
  OBVIOUS
<1>22. /\ IsContext(a) /\ SameLists(two, a)
       /\ a.top = two.top /\ a.last_remainder = two.last_remainder
       /\ a.head = [b \in DOMAIN a.head |-> a.head[b]]
       /\ DOMAIN a.head = DOMAIN c.head \ gone
       /\ a.head[first] = Header(n)
       /\ \A b \in DOMAIN a.head \ {first} : a.head[b] = c.head[b]
  <2>1. /\ gone = {b \in DOMAIN two.head : first < b /\ b <= last}
        /\ first \notin gone /\ first \in DOMAIN two.head /\ last \in DOMAIN two.head
        /\ first \in Nat /\ last \in Nat /\ two.head[last].size \in Nat
    BY <1>5, <1>6, <1>7, <1>19, <1>21
  <2>2. /\ IsContext(a) /\ SameLists(two, a)
        /\ a.top = two.top /\ a.last_remainder = two.last_remainder
        /\ a.head = [b \in DOMAIN a.head |-> a.head[b]]
        /\ DOMAIN a.head = DOMAIN two.head \ gone
        /\ a.head[first] = Header(After(two.head, last) - first)
        /\ \A b \in DOMAIN a.head \ {first} : a.head[b] = two.head[b]
    BY <1>17, <1>20, <2>1, AbsorbEffect
  <2>. QED BY <1>9, <1>11, <1>19, <2>2
<1>23. /\ Header(n) \in Headers /\ Header(n).size = n
  BY <1>12, HeaderTyped
<1>24. /\ e \in DOMAIN a.head /\ e # first /\ a.head[e] = c.head[e]
       /\ first \in DOMAIN a.head
       /\ \A b \in DOMAIN a.head : a.head[b] \in Headers
  <2>1. e # first /\ e # p /\ e # last
    BY <1>4, <1>7, <1>10
  <2>2. e \in DOMAIN a.head /\ first \in DOMAIN a.head
    BY <1>5, <1>10, <1>21, <1>22, <2>1
  <2>3. \A b \in DOMAIN c.head : c.head[b] \in Headers
    BY <1>1 DEF Tiled
  <2>. QED BY <1>22, <1>23, <2>1, <2>2, <2>3
<1>25. PICK t : t = [a.head[e] EXCEPT !.prev_size = n, !.prev_inuse = FALSE]
  OBVIOUS
<1>26. /\ t \in Headers /\ t.size = c.head[e].size /\ t.prev_inuse = FALSE /\ t.prev_size = n
  <2>1. n \in 0 .. heap_max_size
    BY <1>12, HeapNumbers
  <2>2. a.head[e] \in Headers
    BY <1>24
  <2>. QED BY <1>24, <1>25, <2>1, <2>2 DEF Headers
<1>27. PICK k : k = [a EXCEPT !.head[e] = t]
  OBVIOUS
<1>28. /\ IsContext(k) /\ k.bins = two.bins /\ k.binblocks = two.binblocks
       /\ k.bfbs = c.bfbs /\ k.heap_end = c.heap_end /\ k.top = c.top
       /\ k.last_remainder = two.last_remainder
       /\ k.head = [a.head EXCEPT ![e] = t]
  BY <1>19, <1>22, <1>27 DEF IsContext, SameLists
<1>29. /\ DOMAIN k.head = DOMAIN c.head \ gone
       /\ k.head[first] = Header(n) /\ k.head[e] = t
       /\ \A b \in DOMAIN k.head \ {first, e} : k.head[b] = c.head[b]
       /\ \A b \in DOMAIN k.head : k.head[b] \in Headers
       /\ k.head = [b \in DOMAIN k.head |-> k.head[b]]
  BY <1>22, <1>24, <1>26, <1>28
<1>30. Joint(c.head, first, p, last, k.head)
  <2>1. k.head \in [DOMAIN c.head \ ({p, last} \ {first}) -> Headers]
    BY <1>21, <1>29
  <2>. QED BY <1>9, <1>11, <1>26, <1>29, <2>1 DEF Joint
<1>31. Tiled(k.head, c.top, U \ {p})
  <2>1. /\ Tiled(c.head, c.top, U) /\ After(c.head, p) # c.top
        /\ Leads(c.head, c.top, U, first, p) /\ Trails(c.head, c.top, U, last, p)
    BY <1>1, <1>4
  <2>. QED BY <1>30, <2>1, TileMerge, Zenon
<1>32. \A q \in DOMAIN k.head \ {first} : k.head[q].size = c.head[q].size
  BY <1>26, <1>29
<1>33. k.head[first].size = n
  BY <1>23, <1>29
<1>34. /\ \A q \in G : q \in DOMAIN k.head \ {first} /\ q \in F
       /\ first \notin G /\ G \cup {first} = FreeOf(k, U \ {p})
  <2>1. \A q : q \in G <=> q \in F /\ q # first /\ q # last
    BY <1>18
  <2>2. \A q : q \in F <=> q \in DOMAIN c.head /\ q \notin U /\ q # c.top
    BY <1>13 DEF FreeOf
  <2>3. \A q : q \in DOMAIN k.head <=> q \in DOMAIN c.head /\ (q = first \/ (q # p /\ q # last))
    BY <1>21, <1>29
  <2>4. \A q : q \in FreeOf(k, U \ {p}) <=>
                 q \in DOMAIN k.head /\ q \notin U \ {p} /\ q # c.top
    BY <1>28 DEF FreeOf
  <2>. QED BY <1>5, <2>1, <2>2, <2>3, <2>4
<1>35. Filed(k, G)
  <2>1. SameSizes(G, two.head, k.head)
    BY <1>19, <1>32, <1>34 DEF SameSizes
  <2>. QED BY <1>19, <1>28, <2>1, FiledKept
<1>36. PICK f : f = IF c.last_remainder \in {first, last}
                    THEN [k EXCEPT !.last_remainder = first] ELSE frontlink(k, first)
  OBVIOUS
<1>37. IsContext(f) /\ SameChunks(k, f) /\ Filed(f, G \cup {first})
  <2>1. CASE c.last_remainder \in {first, last}
    <3>1. f = [k EXCEPT !.last_remainder = first]
      BY <1>36, <2>1
    <3>2. /\ IsContext(f) /\ SameChunks(k, f) /\ f.bins = k.bins /\ f.binblocks = k.binblocks
          /\ f.last_remainder = first
      BY <1>28, <3>1 DEF IsContext, SameChunks
    <3>3. f.head = k.head
      BY <3>2 DEF SameChunks
    <3>4. k.last_remainder = NoChunk
      BY <1>19, <1>28, <2>1
    <3>5. Binned(k.bins, k.head) /\ Marked(k.bins, k.binblocks) /\ NoChunk \notin G
          /\ G = Listed(k.bins)
      BY <1>35, <3>4 DEF Filed
    <3>6. /\ NoChunk \notin G \cup {first}
          /\ G \cup {first} = Listed(f.bins) \cup ({f.last_remainder} \ {NoChunk})
          /\ f.last_remainder \notin Listed(f.bins)
      BY <1>8, <1>34, <3>2, <3>5
    <3>. QED BY <3>2, <3>3, <3>5, <3>6 DEF Filed
  <2>2. CASE c.last_remainder \notin {first, last}
    <3>1. f = frontlink(k, first)
      BY <1>36, <2>2
    <3>2. /\ k.head[first].size \in Nat /\ k.head[first].size >= 16 /\ k.head[first].size % 8 = 0
          /\ first \in Nat /\ first # NoChunk /\ first \notin G
      BY <1>7, <1>8, <1>12, <1>33, <1>34
    <3>. QED BY <1>28, <1>35, <3>1, <3>2, FiledIn
  <2>. QED BY <2>1, <2>2
<1>38. f.head = k.head /\ f.top = c.top /\ f.bfbs = c.bfbs /\ f.heap_end = c.heap_end
  BY <1>28, <1>37 DEF SameChunks
<1>39. PICK d : d = NoteFreed(f, first)
  OBVIOUS
<1>40. c.bfbs \in Nat /\ c.bfbs <= heap_max_size
  BY <1>1 DEF Known
<1>41. /\ IsContext(d) /\ d.head = k.head /\ d.top = c.top
       /\ d.bins = f.bins /\ d.binblocks = f.binblocks
       /\ d.last_remainder = f.last_remainder /\ d.heap_end = c.heap_end
       /\ d.bfbs \in {c.bfbs, n} /\ c.bfbs <= d.bfbs /\ n <= d.bfbs
  BY <1>8, <1>12, <1>33, <1>37, <1>38, <1>39, <1>40, FreedNoted
<1>42. FreeOf(d, U \ {p}) = G \cup {first}
  BY <1>28, <1>34, <1>41 DEF FreeOf
<1>43. Filed(d, G \cup {first})
  <2>1. SameSizes(G \cup {first}, f.head, d.head)
    BY <1>38, <1>41 DEF SameSizes
  <2>. QED BY <1>37, <1>41, <2>1, FiledKept
<1>44. Known(d, G \cup {first})
  <2>1. \A q \in G : /\ c.head[q].size \in Nat
                     /\ c.head[q].size >= 512 => c.head[q].size <= c.bfbs
    BY <1>1, <1>13, <1>34, FreeFacts DEF Known
  <2>2. \A q \in G : d.head[q].size = c.head[q].size
    BY <1>32, <1>34, <1>41
  <2>3. \A q \in G \cup {first} : d.head[q].size >= 512 => d.head[q].size <= d.bfbs
    <3>1. ASSUME NEW q \in G, d.head[q].size >= 512 PROVE d.head[q].size <= d.bfbs
      <4>1. c.head[q].size \in Nat /\ c.head[q].size <= c.bfbs
        BY <2>1, <2>2, <3>1
      <4>. QED BY <1>12, <1>40, <1>41, <2>2, <4>1
    <3>2. d.head[first].size <= d.bfbs
      BY <1>33, <1>41
    <3>. QED BY <3>1, <3>2
  <2>4. d.bfbs \in Nat /\ d.bfbs <= heap_max_size
    BY <1>12, <1>40, <1>41
  <2>5. d.head[d.top].size <= d.bfbs
    <3>1. c.head[c.top].size <= c.bfbs
      BY <1>1, <1>4 DEF Known
    <3>2. d.top \in DOMAIN k.head \ {first}
      BY <1>4, <1>5, <1>6, <1>21, <1>29, <1>41
    <3>3. d.head[d.top].size = c.head[c.top].size
      BY <1>32, <1>41, <3>2
    <3>4. c.head[c.top].size \in Nat
      BY <1>1, <1>4, ChunkFacts
    <3>. QED BY <1>12, <1>40, <1>41, <3>1, <3>3, <3>4
  <2>. QED BY <1>4, <1>41, <2>3, <2>4, <2>5 DEF Known
<1>45. Good(d, U \ {p})
  BY <1>1, <1>31, <1>41, <1>42, <1>43, <1>44 DEF Good
<1>46. \A q \in U \ {p} : d.head[q].size = c.head[q].size
  <2>1. \A q \in U \ {p} : q \in DOMAIN k.head \ {first}
    BY <1>5, <1>31 DEF Tiled, Told
  <2>. QED BY <1>32, <1>41, <2>1
<1>47. FreeIntoBin(c, p) = d
  <2>1. chunksize(a, first) = n
    BY <1>8, <1>22, <1>23 DEF chunksize
  <2>2. first + chunksize(a, first) = e
    BY <1>12, <2>1
  <2>3. FreeIntoBin(c, p) =
          LET footed == [a EXCEPT !.head[e] = [@ EXCEPT !.prev_size = n, !.prev_inuse = FALSE]]
          IN NoteFreed(IF c.last_remainder \in {first, last}
                       THEN [footed EXCEPT !.last_remainder = first]
                       ELSE frontlink(footed, first), first)
    BY <1>2, <1>3, <1>14, <1>16, <1>20, <2>1, <2>2 DEF FreeIntoBin
  <2>4. [a EXCEPT !.head[e] = [@ EXCEPT !.prev_size = n, !.prev_inuse = FALSE]] = k
    BY <1>25, <1>27
  <2>. QED BY <1>36, <1>39, <2>3, <2>4
<1>. QED BY <1>45, <1>46, <1>47

-----------------------------------------------------------------------------
(* What malloc finds in the bins.                                          *)

(* The members of a list are listed, and have sizes.                       *)
LEMMA SizesInBin ==
  ASSUME NEW bins, NEW head, Binned(bins, head), NEW i \in Bins
  PROVE  /\ bins[i] \in Seq(Nat) /\ Len(bins[i]) \in Nat
         /\ DOMAIN bins[i] = 1 .. Len(bins[i])
         /\ \A j \in 1 .. Len(bins[i]) : /\ bins[i][j] \in Members(bins[i])
                                         /\ bins[i][j] \in Listed(bins)
                                         /\ head[bins[i][j]].size \in Nat
                                         /\ bin_index(head[bins[i][j]].size) = i
         /\ \A j, k \in 1 .. Len(bins[i]) : j < k => head[bins[i][k]].size <= head[bins[i][j]].size
<1>1. bins[i] \in Seq(Nat) /\ Descending(bins[i], head) /\ OfBin(bins[i], i, head)
  BY DEF Binned
<1>2. DOMAIN bins[i] = 1 .. Len(bins[i]) /\ Len(bins[i]) \in Nat
  BY <1>1
<1>3. ASSUME NEW j \in 1 .. Len(bins[i])
      PROVE  bins[i][j] \in Members(bins[i]) /\ bins[i][j] \in Listed(bins)
  BY <1>3 DEF Members, Listed
<1>. QED BY <1>1, <1>2, <1>3 DEF Descending, OfBin

(* The first fit from the end of a bin is the best fit of that bin.        *)
LEMMA FitFacts ==
  ASSUME NEW c, Binned(c.bins, c.head), NoChunk \notin Listed(c.bins),
         NEW i \in Bins, NEW nb \in Nat
  PROVE  /\ FirstFit(c, i, nb) = {} => \A q \in Members(c.bins[i]) : c.head[q].size < nb
         /\ \A p \in FirstFit(c, i, nb) :
              /\ p \in Members(c.bins[i]) /\ c.head[p].size >= nb
              /\ \A q \in Members(c.bins[i]) :
                   c.head[q].size >= nb => c.head[p].size <= c.head[q].size
<1>1. PICK list : list = c.bins[i]
  OBVIOUS
<1>2. PICK l : l = Len(list)
  OBVIOUS
<1>3. /\ DOMAIN list = 1 .. l /\ l \in Nat
      /\ \A j \in 1 .. l : /\ list[j] \in Members(list) /\ list[j] # NoChunk
                           /\ c.head[list[j]].size \in Nat
      /\ \A j, k \in 1 .. l : j < k => c.head[list[k]].size <= c.head[list[j]].size
  <2>1. /\ c.bins[i] \in Seq(Nat) /\ Len(c.bins[i]) \in Nat
        /\ DOMAIN c.bins[i] = 1 .. Len(c.bins[i])
        /\ \A j \in 1 .. Len(c.bins[i]) : /\ c.bins[i][j] \in Members(c.bins[i])
                                          /\ c.bins[i][j] \in Listed(c.bins)
                                          /\ c.head[c.bins[i][j]].size \in Nat
        /\ \A j, k \in 1 .. Len(c.bins[i]) :
             j < k => c.head[c.bins[i][k]].size <= c.head[c.bins[i][j]].size
    BY SizesInBin, Zenon
  <2>. QED BY <1>1, <1>2, <2>1
<1>4. PICK fits : fits = {j \in 1 .. l : c.head[list[j]].size >= nb}
  OBVIOUS
<1>5. FirstFit(c, i, nb) = IF fits = {} THEN {} ELSE {list[Max(fits)]}
  <2>1. {j \in DOMAIN c.bins[i] : chunksize(c, c.bins[i][j]) >= nb} = fits
    BY <1>1, <1>3, <1>4 DEF chunksize
  <2>. QED BY <1>1, <2>1 DEF FirstFit
<1>6. ASSUME NEW q \in Members(list) PROVE \E j \in 1 .. l : q = list[j]
  BY <1>2 DEF Members
<1>7. CASE fits = {}
  <2>1. ASSUME NEW q \in Members(list) PROVE c.head[q].size < nb
    <3>1. PICK j \in 1 .. l : q = list[j]
      BY <1>6
    <3>. QED BY <1>3, <1>4, <1>7, <3>1
  <2>. QED BY <1>1, <1>5, <1>7, <2>1
<1>8. CASE fits # {}
  <2>1. fits \in SUBSET Nat /\ \A k \in fits : k <= l
    BY <1>3, <1>4
  <2>2. PICK m : m = Max(fits)
    OBVIOUS
  <2>3. m \in fits /\ \A k \in fits : k <= m
    BY <1>3, <1>8, <2>1, <2>2, MaxIsGreatest
  <2>4. m \in 1 .. l /\ c.head[list[m]].size >= nb
    BY <1>4, <2>3
  <2>5. ASSUME NEW q \in Members(list), c.head[q].size >= nb
        PROVE  c.head[list[m]].size <= c.head[q].size
    <3>1. PICK j \in 1 .. l : q = list[j]
      BY <1>6
    <3>2. j \in fits
      BY <1>4, <2>5, <3>1
    <3>3. j < m \/ j = m
      BY <2>3, <2>4, <3>2
    <3>. QED BY <1>3, <2>4, <3>1, <3>3
  <2>. QED BY <1>1, <1>3, <1>5, <1>8, <2>2, <2>4, <2>5
<1>. QED BY <1>7, <1>8

(* The biggest free block is looked up.                                    *)
LEMMA BiggestNoted ==
  ASSUME NEW c, NEW U, Good(c, U), c.top # NoChunk, c.last_remainder = NoChunk
  PROVE  LET d == NoteBiggest(c) IN Good(d, U) /\ d.head = c.head
<1>1. /\ IsContext(c) /\ Tiled(c.head, c.top, U) /\ Filed(c, FreeOf(c, U))
      /\ Known(c, FreeOf(c, U)) /\ c.heap_end = IF c.top = NoChunk THEN 0 ELSE Limit
  BY DEF Good
<1>2. /\ Binned(c.bins, c.head) /\ FreeOf(c, U) = Listed(c.bins)
      /\ NoChunk \notin Listed(c.bins)
  BY <1>1 DEF Filed
<1>3. c.top \in DOMAIN c.head
  BY <1>1 DEF Tiled, Covered
<1>4. PICK n : n = c.head[c.top].size
  OBVIOUS
<1>5. n \in Nat /\ n <= heap_max_size /\ chunksize(c, c.top) = n
  BY <1>1, <1>3, <1>4, ChunkFacts DEF chunksize
<1>6. PICK big : big = {i \in 64 .. 127 : c.bins[i] # << >>}
  OBVIOUS
<1>17. \A i : i \in big <=> i \in Nat /\ 64 <= i /\ i <= 127 /\ c.bins[i] # << >>
  <2>1. PICK lo, hi : lo = 64 /\ hi = 127
    OBVIOUS
  <2>2. big = {i \in lo .. hi : c.bins[i] # << >>}
    BY <1>6, <2>1
  <2>3. \A i : i \in lo .. hi <=> i \in Nat /\ lo <= i /\ i <= hi
    BY <2>1
  <2>. QED BY <2>1, <2>2, <2>3
<1>7. ASSUME NEW q \in FreeOf(c, U), c.head[q].size >= 512
      PROVE  LET i == bin_index(c.head[q].size)
             IN i \in big /\ i \in Bins /\ q \in Members(c.bins[i])
  <2>1. c.head[q].size \in Nat /\ c.head[q].size >= 16 /\ c.head[q].size % 8 = 0
    BY FreeFacts
  <2>2. PICK i : i = bin_index(c.head[q].size)
    OBVIOUS
  <2>3. i \in Bins /\ ~ (i < 64)
    BY <1>7, <2>1, <2>2, BinNumbers
  <2>4. q \in Members(c.bins[i])
    BY <1>2, <2>2, InItsBin
  <2>5. c.bins[i] # << >>
    <3>1. c.bins[i] \in Seq(Nat)
      BY <1>2, <2>3 DEF Binned
    <3>. QED BY <2>4, <3>1, NoMembers
  <2>6. i \in big
    <3>1. i \in Nat /\ 2 <= i /\ i <= 127
      BY <2>3, BlockNumbers
    <3>. QED BY <1>17, <2>3, <2>5, <3>1
  <2>. QED BY <2>2, <2>3, <2>4, <2>6
<1>8. PICK v : v = IF big = {} THEN n ELSE Max({n, chunksize(c, Head(c.bins[Max(big)]))})
  OBVIOUS
<1>9. /\ v \in Nat /\ n <= v /\ v <= heap_max_size
      /\ \A q \in FreeOf(c, U) : c.head[q].size >= 512 => c.head[q].size <= v
  <2>1. CASE big = {}
    <3>1. v = n
      BY <1>8, <2>1
    <3>2. \A q \in FreeOf(c, U) : ~ (c.head[q].size >= 512)
      BY <1>7, <2>1
    <3>. QED BY <1>5, <3>1, <3>2
  <2>2. CASE big # {}
    <3>1. big \in SUBSET Nat /\ \A i \in big : i <= 127
      BY <1>17
    <3>2. PICK m : m = Max(big)
      OBVIOUS
    <3>3. m \in big /\ \A i \in big : i <= m
      BY <2>2, <3>1, <3>2, MaxIsGreatest
    <3>4. m \in Bins /\ c.bins[m] # << >>
      <4>1. m \in Nat /\ 64 <= m /\ m <= 127 /\ c.bins[m] # << >>
        BY <1>17, <3>3
      <4>2. 2 <= m
        BY <4>1
      <4>. QED BY <4>1, <4>2, InBins
    <3>5. PICK list : list = c.bins[m]
      OBVIOUS
    <3>6. /\ list \in Seq(Nat) /\ Len(list) \in Nat
          /\ \A j \in 1 .. Len(list) : /\ list[j] \in Listed(c.bins)
                                       /\ c.head[list[j]].size \in Nat
                                       /\ bin_index(c.head[list[j]].size) = m
          /\ \A j, k \in 1 .. Len(list) :
               j < k => c.head[list[k]].size <= c.head[list[j]].size
      <4>1. /\ c.bins[m] \in Seq(Nat) /\ Len(c.bins[m]) \in Nat
            /\ DOMAIN c.bins[m] = 1 .. Len(c.bins[m])
            /\ \A j \in 1 .. Len(c.bins[m]) :
                 /\ c.bins[m][j] \in Members(c.bins[m])
                 /\ c.bins[m][j] \in Listed(c.bins)
                 /\ c.head[c.bins[m][j]].size \in Nat
                 /\ bin_index(c.head[c.bins[m][j]].size) = m
            /\ \A j, k \in 1 .. Len(c.bins[m]) :
                 j < k => c.head[c.bins[m][k]].size <= c.head[c.bins[m][j]].size
        BY <1>2, <3>4, SizesInBin, Zenon
      <4>. QED BY <3>5, <4>1
    <3>7. 1 \in 1 .. Len(list) /\ Head(list) = list[1]
      BY <3>4, <3>5, <3>6
    <3>8. PICK h : h = list[1]
      OBVIOUS
    <3>9. h \in FreeOf(c, U) /\ h # NoChunk
      BY <1>2, <3>6, <3>7, <3>8
    <3>10. h \in DOMAIN c.head
      BY <3>9 DEF FreeOf
    <3>11. PICK s : s = c.head[h].size
      OBVIOUS
    <3>12. s \in Nat /\ s <= heap_max_size /\ bin_index(s) = m
      BY <1>1, <3>6, <3>7, <3>8, <3>10, <3>11, ChunkFacts
    <3>13. v = Max({n, s})
      BY <1>8, <2>2, <3>2, <3>5, <3>7, <3>8, <3>9, <3>11 DEF chunksize
    <3>14. v \in {n, s} /\ n <= v /\ s <= v
      BY <1>5, <3>12, <3>13, MaxOfTwo
    <3>15. ASSUME NEW q \in FreeOf(c, U), c.head[q].size >= 512
           PROVE  c.head[q].size <= s
      <4>1. PICK i : i = bin_index(c.head[q].size)
        OBVIOUS
      <4>2. i \in big /\ i \in Nat /\ q \in Members(c.bins[i])
        BY <1>7, <3>1, <3>15, <4>1
      <4>3. c.head[q].size \in Nat
        BY FreeFacts
      <4>4. CASE i = m
        <5>1. PICK j \in 1 .. Len(list) : q = list[j]
          BY <3>5, <4>2, <4>4 DEF Members
        <5>2. j = 1 \/ 1 < j
          BY <5>1
        <5>. QED BY <3>6, <3>7, <3>8, <3>11, <3>12, <5>1, <5>2
      <4>5. CASE i # m
        <5>1. i < m
          BY <3>1, <3>3, <4>2, <4>5
        <5>2. s <= c.head[q].size => m <= i
          BY <3>12, <4>1, <4>3, BinMonotone
        <5>. QED BY <3>1, <3>3, <3>12, <4>2, <4>3, <5>1, <5>2
      <4>. QED BY <4>4, <4>5
    <3>16. ASSUME NEW q \in FreeOf(c, U), c.head[q].size >= 512
           PROVE  c.head[q].size <= v
      <4>1. c.head[q].size \in Nat
        BY FreeFacts
      <4>. QED BY <1>5, <3>12, <3>14, <3>15, <3>16, <4>1
    <3>. QED BY <1>5, <3>12, <3>14, <3>16
  <2>. QED BY <2>1, <2>2
<1>10. PICK d : d = [c EXCEPT !.bfbs = v]
  OBVIOUS
<1>11. /\ IsContext(d) /\ d.head = c.head /\ d.top = c.top /\ d.bins = c.bins
       /\ d.binblocks = c.binblocks /\ d.last_remainder = c.last_remainder
       /\ d.heap_end = c.heap_end /\ d.bfbs = v
  BY <1>1, <1>10 DEF IsContext
<1>12. FreeOf(d, U) = FreeOf(c, U)
  BY <1>11 DEF FreeOf
<1>13. Known(d, FreeOf(d, U))
  BY <1>4, <1>9, <1>11, <1>12 DEF Known
<1>14. Filed(d, FreeOf(d, U))
  BY <1>1, <1>11, <1>12 DEF Filed
<1>15. Good(d, U)
  BY <1>1, <1>11, <1>13, <1>14 DEF Good
<1>16. NoteBiggest(c) = d
  BY <1>5, <1>6, <1>8, <1>10 DEF NoteBiggest
<1>. QED BY <1>11, <1>15, <1>16

(* What is listed is free.                                                 *)
LEMMA ListedFacts ==
  ASSUME NEW c, NEW U, Good(c, U)
  PROVE  /\ Binned(c.bins, c.head) /\ Marked(c.bins, c.binblocks)
         /\ NoChunk \notin Listed(c.bins)
         /\ c.last_remainder \notin Listed(c.bins)
         /\ FreeOf(c, U) = Listed(c.bins) \cup ({c.last_remainder} \ {NoChunk})
         /\ \A q \in Listed(c.bins) : /\ q \in FreeOf(c, U) /\ q # NoChunk
                                      /\ c.head[q].size \in Nat /\ c.head[q].size >= 16
                                      /\ c.head[q].size % 8 = 0
<1>1. Filed(c, FreeOf(c, U))
  BY DEF Good
<1>2. \A q \in Listed(c.bins) : q \in FreeOf(c, U)
  BY <1>1 DEF Filed
<1>3. \A q \in FreeOf(c, U) : /\ q # NoChunk /\ c.head[q].size \in Nat
                              /\ c.head[q].size >= 16 /\ c.head[q].size % 8 = 0
  BY FreeFacts, Zenon
<1>. QED BY <1>1, <1>2, <1>3 DEF Filed

(* The bins that a small request looks at.                                 *)
LEMMA SmallBins ==
  ASSUME NEW nb, Wanted(nb), nb < 504
  PROVE  /\ is_small_request(nb) /\ smallbin_index(nb) = bin_index(nb)
         /\ bin_index(nb) \in Nat /\ 2 <= bin_index(nb) /\ bin_index(nb) <= 62
         /\ bin_index(nb) \in Bins /\ bin_index(nb) + 1 \in Bins
         /\ nb = 8 * bin_index(nb)
<1>1. nb \in Nat /\ nb >= 16 /\ nb % 8 = 0
  BY DEF Wanted
<1>2. is_small_request(nb)
  BY <1>1 DEF is_small_request, MAX_SMALLBIN_SIZE, SMALLBIN_WIDTH
<1>3. bin_index(nb) = nb \div 8
  BY <1>1, BinRanges
<1>4. smallbin_index(nb) = nb \div 8
  BY DEF smallbin_index, SMALLBIN_WIDTH
<1>5. bin_index(nb) \in Nat /\ nb = 8 * bin_index(nb)
  BY <1>1, <1>3
<1>6. 2 <= bin_index(nb) /\ bin_index(nb) <= 62
  BY <1>1, <1>5
<1>. QED BY <1>2, <1>3, <1>4, <1>5, <1>6 DEF Bins

(* A request is small when it is below 504 bytes.                          *)
LEMMA LargeRequests ==
  ASSUME NEW nb, Wanted(nb), ~ (nb < 504)
  PROVE  ~ is_small_request(nb) /\ bin_index(nb) \in Bins /\ bin_index(nb) \in Nat
<1>1. nb \in Nat /\ nb >= 16 /\ nb % 8 = 0
  BY DEF Wanted
<1>2. ~ is_small_request(nb)
  BY <1>1 DEF is_small_request, MAX_SMALLBIN_SIZE, SMALLBIN_WIDTH
<1>. QED BY <1>1, <1>2, BinNumbers

(* An exact fit is a listed chunk that leaves too little to split.         *)
LEMMA ExactFound ==
  ASSUME NEW c, NEW U, Good(c, U), NEW nb, Wanted(nb), NEW p \in ExactFit(c, nb)
  PROVE  /\ p \in Listed(c.bins) /\ c.head[p].size \in Nat /\ nb <= c.head[p].size
         /\ c.head[p].size - nb < 16
<1>1. nb \in Nat
  BY DEF Wanted
<1>2. /\ Binned(c.bins, c.head) /\ NoChunk \notin Listed(c.bins)
      /\ \A q \in Listed(c.bins) : /\ q # NoChunk
                                   /\ c.head[q].size \in Nat /\ c.head[q].size >= 16
                                   /\ c.head[q].size % 8 = 0
  BY ListedFacts
<1>3. CASE nb < 504
  <2>1. PICK i : i = bin_index(nb)
    OBVIOUS
  <2>2. /\ is_small_request(nb) /\ smallbin_index(nb) = i /\ i \in Nat /\ i <= 62
        /\ i \in Bins /\ i + 1 \in Bins /\ nb = 8 * i
    BY <1>3, <2>1, SmallBins
  <2>3. PICK k : k = IF c.bins[i] # << >> THEN i ELSE i + 1
    OBVIOUS
  <2>4. c.bins[k] # << >> /\ p = c.bins[k][Len(c.bins[k])]
    BY <2>2, <2>3 DEF ExactFit
  <2>5. k \in Bins /\ k \in {i, i + 1}
    BY <2>2, <2>3
  <2>6. /\ c.bins[k] \in Seq(Nat) /\ Len(c.bins[k]) \in Nat
        /\ \A j \in 1 .. Len(c.bins[k]) : /\ c.bins[k][j] \in Listed(c.bins)
                                          /\ bin_index(c.head[c.bins[k][j]].size) = k
    BY <1>2, <2>5, SizesInBin
  <2>7. Len(c.bins[k]) \in 1 .. Len(c.bins[k])
    BY <2>4, <2>6
  <2>8. p \in Listed(c.bins) /\ bin_index(c.head[p].size) = k
    BY <2>4, <2>6, <2>7
  <2>9. c.head[p].size \in Nat /\ c.head[p].size >= 16 /\ c.head[p].size % 8 = 0
    BY <1>2, <2>8
  <2>10. c.head[p].size = 8 * k
    BY <2>2, <2>5, <2>8, <2>9, BinNumbers
  <2>. QED BY <2>2, <2>5, <2>8, <2>9, <2>10
<1>4. CASE ~ (nb < 504)
  <2>1. /\ ~ is_small_request(nb) /\ bin_index(nb) \in Bins
    BY <1>4, LargeRequests
  <2>2. p \in FirstFit(c, bin_index(nb), nb) /\ chunksize(c, p) - nb < MINSIZE
    BY <2>1 DEF ExactFit
  <2>3. p \in Members(c.bins[bin_index(nb)]) /\ c.head[p].size >= nb
    BY <1>1, <1>2, <2>1, <2>2, FitFacts
  <2>4. p \in Listed(c.bins)
    BY <2>1, <2>3 DEF Listed
  <2>5. chunksize(c, p) = c.head[p].size
    BY <1>2, <2>4 DEF chunksize
  <2>6. c.head[p].size \in Nat
    BY <1>2, <2>4
  <2>. QED BY <1>1, <2>2, <2>3, <2>4, <2>5, <2>6 DEF MINSIZE
<1>. QED BY <1>3, <1>4

(* From start on, a bin that has chunks has a fit, and all fits are there. *)
Searched(c, nb, start) ==
  /\ \A i \in Bins : i >= start /\ c.bins[i] # << >> => FirstFit(c, i, nb) # {}
  /\ \A q \in Listed(c.bins) : c.head[q].size >= nb => start <= bin_index(c.head[q].size)

(* Where the scan starts, by the bin of the size it looks for.             *)
LEMMA StartFacts ==
  ASSUME NEW c, NEW U, Good(c, U), NEW nb, Wanted(nb), ExactFit(c, nb) = {}
  PROVE  LET start == ScanStart(c, nb)
         IN /\ start \in Nat /\ bin_index(nb) \in Nat /\ bin_index(nb) <= start
            /\ start = bin_index(nb) => FirstFit(c, start, nb) # {} /\ start \in Bins
            /\ \A q \in Listed(c.bins) :
                 c.head[q].size >= nb => start <= bin_index(c.head[q].size)
<1>1. nb \in Nat
  BY DEF Wanted
<1>2. /\ Binned(c.bins, c.head) /\ NoChunk \notin Listed(c.bins)
      /\ \A q \in Listed(c.bins) : /\ c.head[q].size \in Nat /\ c.head[q].size >= 16
                                   /\ c.head[q].size % 8 = 0
  BY ListedFacts
<1>3. PICK i : i = bin_index(nb)
  OBVIOUS
<1>4. PICK start : start = ScanStart(c, nb)
  OBVIOUS
<1>5. ASSUME NEW q \in Listed(c.bins), c.head[q].size >= nb
      PROVE  LET k == bin_index(c.head[q].size)
             IN /\ k \in Nat /\ i <= k /\ k \in Bins /\ q \in Members(c.bins[k])
                /\ c.bins[k] # << >>
                /\ k < 64 => c.head[q].size = 8 * k
  <2>1. c.head[q].size \in Nat /\ c.head[q].size >= 16 /\ c.head[q].size % 8 = 0
    BY <1>2
  <2>2. PICK k : k = bin_index(c.head[q].size)
    OBVIOUS
  <2>3. k \in Nat /\ k \in Bins /\ (k < 64 => c.head[q].size = 8 * k)
    BY <2>1, <2>2, BinNumbers
  <2>4. i <= k
    BY <1>1, <1>3, <1>5, <2>1, <2>2, BinMonotone
  <2>5. q \in Members(c.bins[k])
    BY <1>2, <2>2, InItsBin
  <2>6. c.bins[k] # << >>
    <3>1. c.bins[k] \in Seq(Nat)
      BY <1>2, <2>3 DEF Binned
    <3>. QED BY <2>5, <3>1, NoMembers
  <2>. QED BY <2>2, <2>3, <2>4, <2>5, <2>6
<1>6. CASE nb < 504
  <2>1. /\ is_small_request(nb) /\ smallbin_index(nb) = i /\ i \in Nat /\ i <= 62 /\ nb = 8 * i
    BY <1>3, <1>6, SmallBins
  <2>2. start = i + 2
    BY <1>4, <2>1 DEF ScanStart
  <2>3. c.bins[i] = << >> /\ c.bins[i + 1] = << >>
    BY <2>1 DEF ExactFit
  <2>4. ASSUME NEW q \in Listed(c.bins), c.head[q].size >= nb
        PROVE  start <= bin_index(c.head[q].size)
    <3>1. PICK k : k = bin_index(c.head[q].size)
      OBVIOUS
    <3>2. k \in Nat /\ i <= k /\ c.bins[k] # << >>
      BY <1>5, <2>4, <3>1
    <3>3. k # i /\ k # i + 1
      BY <2>3, <3>2
    <3>. QED BY <2>1, <2>2, <3>1, <3>2, <3>3
  <2>. QED BY <1>3, <1>4, <2>1, <2>2, <2>4
<1>7. CASE ~ (nb < 504)
  <2>1. ~ is_small_request(nb) /\ i \in Bins /\ i \in Nat
    BY <1>3, <1>7, LargeRequests
  <2>2. start = IF FirstFit(c, i, nb) # {} THEN i ELSE i + 1
    BY <1>3, <1>4, <2>1 DEF ScanStart
  <2>3. ASSUME NEW q \in Listed(c.bins), c.head[q].size >= nb
        PROVE  start <= bin_index(c.head[q].size)
    <3>1. PICK k : k = bin_index(c.head[q].size)
      OBVIOUS
    <3>2. k \in Nat /\ i <= k /\ q \in Members(c.bins[k])
      BY <1>5, <2>3, <3>1
    <3>3. CASE FirstFit(c, i, nb) # {}
      BY <2>2, <3>1, <3>2, <3>3
    <3>4. CASE FirstFit(c, i, nb) = {}
      <4>1. \A r \in Members(c.bins[i]) : c.head[r].size < nb
        BY <1>1, <1>2, <2>1, <3>4, FitFacts
      <4>2. c.head[q].size \in Nat
        BY <1>2
      <4>3. k # i
        BY <1>1, <2>3, <3>2, <4>1, <4>2
      <4>. QED BY <2>1, <2>2, <3>1, <3>2, <3>4, <4>3
    <3>. QED BY <3>3, <3>4
  <2>. QED BY <1>3, <1>4, <2>1, <2>2, <2>3
<1>. QED BY <1>6, <1>7

(* A scan that starts there finds what there is to find.                   *)
LEMMA SearchedFrom ==
  ASSUME NEW c, NEW U, Good(c, U), NEW nb, Wanted(nb), ExactFit(c, nb) = {},
         c.last_remainder # NoChunk => c.head[c.last_remainder].size < nb,
         NEW d, Good(d, U), d.head = c.head, Listed(d.bins) = FreeOf(c, U)
  PROVE  Searched(d, nb, ScanStart(c, nb))
<1>1. nb \in Nat
  BY DEF Wanted
<1>2. PICK start : start = ScanStart(c, nb)
  OBVIOUS
<1>3. PICK b : b = bin_index(nb)
  OBVIOUS
<1>4. /\ start \in Nat /\ b \in Nat /\ b <= start
      /\ start = b => FirstFit(c, start, nb) # {} /\ start \in Bins
      /\ \A q \in Listed(c.bins) :
           c.head[q].size >= nb => start <= bin_index(c.head[q].size)
  BY <1>2, <1>3, StartFacts
<1>5. /\ Binned(c.bins, c.head) /\ NoChunk \notin Listed(c.bins)
      /\ FreeOf(c, U) = Listed(c.bins) \cup ({c.last_remainder} \ {NoChunk})
  BY ListedFacts
<1>6. /\ Binned(d.bins, d.head) /\ NoChunk \notin Listed(d.bins)
      /\ \A q \in Listed(d.bins) : q # NoChunk /\ d.head[q].size \in Nat
  BY ListedFacts
<1>7. ASSUME NEW q \in Listed(d.bins), d.head[q].size >= nb
      PROVE  start <= bin_index(d.head[q].size)
  <2>1. (q = c.last_remainder /\ q # NoChunk) \/ q \in Listed(c.bins)
    BY <1>5, <1>6
  <2>2. CASE q = c.last_remainder /\ q # NoChunk
    BY <1>1, <1>6, <1>7, <2>2
  <2>3. CASE q \in Listed(c.bins)
    BY <1>4, <1>7, <2>3
  <2>. QED BY <2>1, <2>2, <2>3
<1>8. ASSUME NEW i \in Bins, i >= start, d.bins[i] # << >>, FirstFit(d, i, nb) = {}
      PROVE  FALSE
  <2>1. \A q \in Members(d.bins[i]) : d.head[q].size < nb
    BY <1>1, <1>6, <1>8, FitFacts
  <2>2. i \in Nat
    BY BlockNumbers
  <2>3. CASE i = b
    <3>1. start = b /\ FirstFit(c, i, nb) # {}
      BY <1>4, <1>8, <2>2, <2>3
    <3>2. PICK r \in FirstFit(c, i, nb) : TRUE
      BY <3>1
    <3>3. r \in Members(c.bins[i]) /\ c.head[r].size >= nb
      BY <1>1, <1>5, <3>2, FitFacts
    <3>4. r \in Listed(c.bins) /\ bin_index(c.head[r].size) = i
      BY <1>5, <3>3, InItsBin
    <3>5. r \in Listed(d.bins)
      BY <1>5, <3>4
    <3>6. r \in Members(d.bins[bin_index(d.head[r].size)])
      BY <1>6, <3>5, InItsBin
    <3>7. r \in Members(d.bins[i])
      BY <3>4, <3>6
    <3>8. d.head[r].size \in Nat /\ d.head[r].size < nb
      BY <1>6, <2>1, <3>5, <3>7
    <3>. QED BY <1>1, <3>3, <3>8
  <2>4. CASE i # b
    <3>1. b < i
      BY <1>4, <1>8, <2>2, <2>4
    <3>2. PICK q : q \in Members(d.bins[i])
      <4>1. d.bins[i] \in Seq(Nat)
        BY <1>6 DEF Binned
      <4>. QED BY <1>8, <4>1, NoMembers
    <3>3. q \in Listed(d.bins) /\ bin_index(d.head[q].size) = i
      BY <1>6, <3>2, InItsBin
    <3>4. d.head[q].size \in Nat /\ d.head[q].size < nb
      BY <1>6, <2>1, <3>2, <3>3
    <3>5. i <= b
      BY <1>1, <1>3, <3>3, <3>4, BinMonotone
    <3>. QED BY <1>4, <2>2, <3>1, <3>5
  <2>. QED BY <2>3, <2>4
<1>9. \A i \in Bins : i >= start /\ d.bins[i] # << >> => FirstFit(d, i, nb) # {}
  BY <1>8, Zenon
<1>10. \A q \in Listed(d.bins) : d.head[q].size >= nb => start <= bin_index(d.head[q].size)
  BY <1>7, Zenon
<1>. QED BY <1>2, <1>9, <1>10 DEF Searched

(* The bins with a hit.                                                    *)
LEMMA HitFacts ==
  ASSUME NEW c, NEW U, Good(c, U), NEW nb, NEW start, Searched(c, nb, start)
  PROVE  LET hits == Hits(c, nb, start)
         IN /\ \A i \in Bins : i >= start /\ c.bins[i] # << >> => i \in hits
            /\ \A i \in hits : i \in Bins /\ FirstFit(c, i, nb) # {} /\ i \in Nat
            /\ hits # {} => Min(hits) \in hits /\ \A i \in hits : Min(hits) <= i
<1>1. PICK hits : hits = Hits(c, nb, start)
  OBVIOUS
<1>2. \A i : i \in hits <=> /\ i \in Bins /\ i >= start /\ idx2binblock(i) \in c.binblocks
                            /\ FirstFit(c, i, nb) # {}
  BY <1>1 DEF Hits
<1>3. ASSUME NEW i \in Bins, i >= start, c.bins[i] # << >> PROVE i \in hits
  <2>1. idx2binblock(i) \in c.binblocks
    BY <1>3, ListedFacts DEF Marked
  <2>2. FirstFit(c, i, nb) # {}
    BY <1>3 DEF Searched
  <2>. QED BY <1>2, <1>3, <2>1, <2>2
<1>4. \A i \in hits : i \in Bins /\ i \in Nat /\ FirstFit(c, i, nb) # {}
  BY <1>2, BlockNumbers
<1>5. hits # {} => Min(hits) \in hits /\ \A i \in hits : Min(hits) <= i
  BY <1>4, MinIsLeast
<1>. QED BY <1>1, <1>3, <1>4, <1>5

(* The marks that a scan clears were of blocks without chunks.             *)
LEMMA ScanKept ==
  ASSUME NEW c, NEW U, Good(c, U), NEW nb, NEW start \in Nat, Searched(c, nb, start)
  PROVE  LET s == Scanned(c, nb, start)
         IN /\ Good(s, U) /\ SameChunks(c, s) /\ s.bins = c.bins
            /\ s.last_remainder = c.last_remainder
<1>1. PICK hits : hits = Hits(c, nb, start)
  OBVIOUS
<1>2. /\ \A i \in Bins : i >= start /\ c.bins[i] # << >> => i \in hits
      /\ \A i \in hits : i \in Bins /\ i \in Nat
      /\ hits # {} => Min(hits) \in hits /\ \A i \in hits : Min(hits) <= i
  BY <1>1, HitFacts
<1>3. PICK marks : marks = {b \in c.binblocks :
                      ~ (/\ b >= idx2binblock(start)
                         /\ hits # {} => b < idx2binblock(Min(hits))
                         /\ \A i \in Bins : idx2binblock(i) = b /\ i < start => c.bins[i] = << >>)}
  OBVIOUS
<1>4. PICK s : s = [c EXCEPT !.binblocks = marks]
  OBVIOUS
<1>5. Scanned(c, nb, start) = s
  BY <1>1, <1>3, <1>4 DEF Scanned
<1>6. IsContext(c) /\ Tiled(c.head, c.top, U) /\ Filed(c, FreeOf(c, U))
      /\ Known(c, FreeOf(c, U)) /\ c.heap_end = IF c.top = NoChunk THEN 0 ELSE Limit
  BY DEF Good
<1>7. /\ IsContext(s) /\ SameChunks(c, s) /\ s.bins = c.bins /\ s.binblocks = marks
      /\ s.last_remainder = c.last_remainder
      /\ s.head = c.head /\ s.top = c.top /\ s.bfbs = c.bfbs /\ s.heap_end = c.heap_end
  BY <1>4, <1>6 DEF IsContext, SameChunks
<1>8. \A i \in Bins : i \in Nat /\ idx2binblock(i) \in Nat
  BY BlockNumbers
<1>9. ASSUME NEW i \in Bins, c.bins[i] # << >> PROVE idx2binblock(i) \in marks
  <2>1. idx2binblock(i) \in c.binblocks
    BY <1>9, ListedFacts DEF Marked
  <2>2. CASE i < start
    <3>1. ~ \A k \in Bins : idx2binblock(k) = idx2binblock(i) /\ k < start => c.bins[k] = << >>
      BY <1>9, <2>2
    <3>. QED BY <1>3, <2>1, <3>1
  <2>3. CASE ~ (i < start)
    <3>1. i \in hits
      BY <1>2, <1>8, <1>9, <2>3
    <3>2. Min(hits) \in hits /\ Min(hits) <= i
      BY <1>2, <3>1
    <3>3. PICK m \in Nat : m = Min(hits)
      BY <1>2, <3>2
    <3>4. idx2binblock(m) <= idx2binblock(i) /\ idx2binblock(m) \in Nat
      BY <1>8, <3>2, <3>3 DEF idx2binblock, BINBLOCKWIDTH
    <3>5. ~ (hits # {} => idx2binblock(i) < idx2binblock(Min(hits)))
      BY <1>8, <3>1, <3>3, <3>4
    <3>. QED BY <1>3, <2>1, <3>5
  <2>. QED BY <2>2, <2>3
<1>10. Marked(s.bins, s.binblocks)
  <2>1. \A b \in c.binblocks : b \in Nat /\ b <= 31
    BY ListedFacts DEF Marked
  <2>2. \A b \in marks : b \in c.binblocks
    BY <1>3
  <2>. QED BY <1>7, <1>9, <2>1, <2>2 DEF Marked
<1>11. FreeOf(s, U) = FreeOf(c, U)
  BY <1>7 DEF FreeOf
<1>12. Filed(s, FreeOf(s, U)) /\ Known(s, FreeOf(s, U))
  BY <1>6, <1>7, <1>10, <1>11 DEF Filed, Known
<1>13. Good(s, U)
  BY <1>6, <1>7, <1>12 DEF Good
<1>. QED BY <1>5, <1>7, <1>13

(* Without a hit nothing listed fits; a hit is the best fit there is.      *)
LEMMA HitIsBest ==
  ASSUME NEW c, NEW U, Good(c, U), NEW nb \in Nat, NEW start, Searched(c, nb, start)
  PROVE  LET hits == Hits(c, nb, start)
         IN /\ hits = {} => \A q \in Listed(c.bins) : c.head[q].size < nb
            /\ hits # {} => /\ FirstFit(c, Min(hits), nb) # {}
                            /\ \A p \in FirstFit(c, Min(hits), nb) :
                                 /\ p \in Listed(c.bins) /\ nb <= c.head[p].size
                                 /\ \A q \in Listed(c.bins) :
                                      c.head[q].size >= nb => c.head[p].size <= c.head[q].size
<1>1. PICK hits : hits = Hits(c, nb, start)
  OBVIOUS
<1>2. /\ \A i \in Bins : i >= start /\ c.bins[i] # << >> => i \in hits
      /\ \A i \in hits : i \in Bins /\ i \in Nat /\ FirstFit(c, i, nb) # {}
      /\ hits # {} => Min(hits) \in hits /\ \A i \in hits : Min(hits) <= i
  BY <1>1, HitFacts
<1>3. /\ Binned(c.bins, c.head) /\ NoChunk \notin Listed(c.bins)
      /\ \A q \in Listed(c.bins) : /\ c.head[q].size \in Nat /\ c.head[q].size >= 16
                                   /\ c.head[q].size % 8 = 0
  BY ListedFacts
<1>4. ASSUME NEW q \in Listed(c.bins), c.head[q].size >= nb
      PROVE  LET k == bin_index(c.head[q].size)
             IN k \in hits /\ k \in Bins /\ k \in Nat /\ q \in Members(c.bins[k])
  <2>1. c.head[q].size \in Nat /\ c.head[q].size >= 16 /\ c.head[q].size % 8 = 0
    BY <1>3
  <2>2. PICK k : k = bin_index(c.head[q].size)
    OBVIOUS
  <2>3. k \in Nat /\ k \in Bins
    BY <2>1, <2>2, BinNumbers
  <2>4. start <= k
    BY <1>4, <2>2 DEF Searched
  <2>5. q \in Members(c.bins[k])
    BY <1>3, <2>2, InItsBin
  <2>6. c.bins[k] # << >>
    <3>1. c.bins[k] \in Seq(Nat)
      BY <1>3, <2>3 DEF Binned
    <3>. QED BY <2>5, <3>1, NoMembers
  <2>. QED BY <1>2, <2>2, <2>3, <2>4, <2>5, <2>6
<1>5. ASSUME hits = {}, NEW q \in Listed(c.bins) PROVE c.head[q].size < nb
  BY <1>3, <1>4, <1>5
<1>6. ASSUME hits # {}, NEW p \in FirstFit(c, Min(hits), nb)
      PROVE  /\ p \in Listed(c.bins) /\ nb <= c.head[p].size
             /\ \A q \in Listed(c.bins) :
                  c.head[q].size >= nb => c.head[p].size <= c.head[q].size
  <2>1. PICK m : m = Min(hits)
    OBVIOUS
  <2>2. m \in Bins /\ m \in Nat /\ (\A i \in hits : m <= i)
    BY <1>2, <1>6, <2>1
  <2>3. /\ p \in Members(c.bins[m]) /\ c.head[p].size >= nb
        /\ \A q \in Members(c.bins[m]) :
             c.head[q].size >= nb => c.head[p].size <= c.head[q].size
    BY <1>3, <1>6, <2>1, <2>2, FitFacts
  <2>4. p \in Listed(c.bins) /\ bin_index(c.head[p].size) = m /\ c.head[p].size \in Nat
    BY <1>3, <2>2, <2>3, InItsBin
  <2>5. ASSUME NEW q \in Listed(c.bins), c.head[q].size >= nb
        PROVE  c.head[p].size <= c.head[q].size
    <3>1. PICK k : k = bin_index(c.head[q].size)
      OBVIOUS
    <3>2. k \in hits /\ k \in Nat /\ q \in Members(c.bins[k])
      BY <1>4, <2>5, <3>1
    <3>3. c.head[q].size \in Nat
      BY <1>3
    <3>4. CASE k = m
      BY <2>3, <2>5, <3>2, <3>4
    <3>5. CASE k # m
      <4>1. m < k
        BY <2>2, <3>2, <3>5
      <4>2. c.head[q].size <= c.head[p].size => k <= m
        BY <2>4, <3>1, <3>3, BinMonotone
      <4>. QED BY <2>2, <2>4, <3>2, <3>3, <4>1, <4>2
    <3>. QED BY <3>4, <3>5
  <2>. QED BY <2>3, <2>4, <2>5
<1>7. hits # {} => FirstFit(c, Min(hits), nb) # {}
  BY <1>2
<1>. QED BY <1>1, <1>5, <1>6, <1>7

-----------------------------------------------------------------------------
(* What malloc does.                                                       *)

(* p is the best fit for nb bytes, as far as the search promises it.       *)
BestChoice(c, U, p, nb) ==
  /\ p = c.top => \A q \in FreeOf(c, U) : c.head[q].size < nb
  /\ p \in FreeOf(c, U) /\ p # c.last_remainder =>
       \A q \in FreeOf(c, U) : c.head[q].size >= nb =>
         c.head[p].size <= c.head[q].size \/ c.head[p].size - nb < 16

(* d is c after the chunk p, of nb bytes or more, was given away.          *)
Served(c, U, nb, d, p) ==
  /\ p \in Nat /\ p \notin U
  /\ Good(d, U \cup {p})
  /\ nb <= d.head[p].size
  /\ \A q \in U : d.head[q].size = c.head[q].size
  /\ BestChoice(c, U, p, nb)

(* A free chunk is given away whole.                                       *)
LEMMA ServedWhole ==
  ASSUME NEW c, NEW U, Good(c, U), NEW nb \in Nat, NEW p \in FreeOf(c, U), nb <= c.head[p].size
  PROVE  LET d == SetInuse(unlink(c, p), p)
         IN /\ p \in Nat /\ p \notin U /\ Good(d, U \cup {p}) /\ nb <= d.head[p].size
            /\ \A q \in U : d.head[q].size = c.head[q].size
<1>1. PICK d : d = SetInuse(unlink(c, p), p)
  OBVIOUS
<1>2. /\ Good(d, U \cup {p})
      /\ \A q \in DOMAIN c.head : d.head[q].size = c.head[q].size
  BY <1>1, WholeGiven
<1>3. p \in DOMAIN c.head /\ p \notin U /\ p \in Nat
  BY FreeFacts
<1>4. \A q \in U : q \in DOMAIN c.head
  BY DEF Good, Tiled, Told
<1>. QED BY <1>1, <1>2, <1>3, <1>4

(* The exact search.                                                       *)
LEMMA ServedExact ==
  ASSUME NEW c, NEW U, Good(c, U), NEW nb, Wanted(nb), NEW p \in ExactFit(c, nb)
  PROVE  Served(c, U, nb, SetInuse(unlink(c, p), p), p)
<1>1. /\ p \in Listed(c.bins) /\ c.head[p].size \in Nat /\ nb <= c.head[p].size
      /\ c.head[p].size - nb < 16
  BY ExactFound
<1>2. p \in FreeOf(c, U) /\ nb \in Nat
  BY <1>1, ListedFacts DEF Wanted
<1>3. p # c.top
  BY <1>2 DEF FreeOf
<1>4. BestChoice(c, U, p, nb)
  BY <1>1, <1>3 DEF BestChoice
<1>. QED BY <1>1, <1>2, <1>4, ServedWhole DEF Served

(* The last remainder, whole or in part.                                   *)
LEMMA ServedRemainder ==
  ASSUME NEW c, NEW U, Good(c, U), NEW nb, Wanted(nb), c.last_remainder # NoChunk,
         c.head[c.last_remainder].size >= nb
  PROVE  LET p == c.last_remainder
         IN /\ c.head[p].size - nb >= 16 => Served(c, U, nb, Split(c, p, nb), p)
            /\ Served(c, U, nb, SetInuse(unlink(c, p), p), p)
<1>1. PICK p : p = c.last_remainder
  OBVIOUS
<1>2. nb \in Nat /\ nb >= 16 /\ nb % 8 = 0
  BY DEF Wanted
<1>3. /\ FreeOf(c, U) = Listed(c.bins) \cup ({p} \ {NoChunk}) /\ p \notin Listed(c.bins)
      /\ Binned(c.bins, c.head) /\ Marked(c.bins, c.binblocks)
  BY <1>1, ListedFacts
<1>4. p \in FreeOf(c, U) /\ Listed(c.bins) = FreeOf(c, U) \ {p}
  BY <1>1, <1>3
<1>5. BestChoice(c, U, p, nb)
  BY <1>1, <1>4 DEF BestChoice, FreeOf
<1>6. /\ p \in DOMAIN c.head /\ p \notin U /\ p \in Nat /\ c.head[p].size \in Nat
  BY <1>4, FreeFacts
<1>7. Served(c, U, nb, SetInuse(unlink(c, p), p), p)
  BY <1>1, <1>2, <1>4, <1>5, <1>6, ServedWhole DEF Served
<1>8. ASSUME c.head[p].size - nb >= 16 PROVE Served(c, U, nb, Split(c, p, nb), p)
  <2>1. Cuttable(c, U, p)
    BY <1>3, <1>4 DEF Good, Cuttable
  <2>2. /\ Good(Split(c, p, nb), U \cup {p})
        /\ Split(c, p, nb).head[p].size = nb
        /\ SameSizes(U, c.head, Split(c, p, nb).head)
    <3>1. p \in FreeOf(c, U) /\ Cuttable(c, U, p) /\ Wanted(nb) /\ Spares(c.head, p, nb)
      BY <1>4, <1>8, <2>1 DEF Spares
    <3>. QED BY <3>1, PartGiven, Zenon
  <2>. QED BY <1>2, <1>5, <1>6, <2>2 DEF Served, SameSizes
<1>. QED BY <1>1, <1>7, <1>8

(* After FileRemainder and Scanned, all free chunks are in the bins.       *)
Ready(c, d, s, U) ==
  /\ Good(d, U) /\ Good(s, U)
  /\ d.head = c.head /\ d.top = c.top
  /\ s.head = c.head /\ s.top = c.top
  /\ s.last_remainder = NoChunk /\ s.heap_end = c.heap_end
  /\ Listed(d.bins) = FreeOf(c, U) /\ FreeOf(s, U) = FreeOf(c, U)

(* The search begins.                                                      *)
LEMMA SearchReady ==
  ASSUME NEW c, NEW U, Good(c, U), NEW nb, Wanted(nb), ExactFit(c, nb) = {},
         c.last_remainder # NoChunk => c.head[c.last_remainder].size < nb
  PROVE  LET d == FileRemainder(c)
             start == ScanStart(c, nb)
         IN /\ Ready(c, d, Scanned(d, nb, start), U)
            /\ Searched(d, nb, start)
<1>1. PICK d : d = FileRemainder(c)
  OBVIOUS
<1>2. /\ Good(d, U) /\ SameChunks(c, d) /\ d.last_remainder = NoChunk
      /\ Listed(d.bins) = FreeOf(c, U) /\ FreeOf(d, U) = FreeOf(c, U)
  BY <1>1, RemainderFiled
<1>3. PICK start : start = ScanStart(c, nb)
  OBVIOUS
<1>4. start \in Nat
  BY <1>3, StartFacts
<1>5. d.head = c.head /\ d.top = c.top /\ d.heap_end = c.heap_end
  BY <1>2 DEF SameChunks
<1>6. Searched(d, nb, start)
  BY <1>2, <1>3, <1>5, SearchedFrom
<1>7. PICK s : s = Scanned(d, nb, start)
  OBVIOUS
<1>8. /\ Good(s, U) /\ SameChunks(d, s) /\ s.last_remainder = d.last_remainder
  BY <1>2, <1>4, <1>6, <1>7, ScanKept
<1>9. s.head = c.head /\ s.top = c.top /\ s.heap_end = c.heap_end /\ s.last_remainder = NoChunk
  BY <1>2, <1>5, <1>8 DEF SameChunks
<1>10. FreeOf(s, U) = FreeOf(c, U)
  BY <1>9 DEF FreeOf
<1>11. Ready(c, d, s, U)
  BY <1>2, <1>5, <1>8, <1>9, <1>10 DEF Ready
<1>. QED BY <1>1, <1>3, <1>6, <1>7, <1>11

(* A hit, whole or in part.                                                *)
LEMMA ServedHit ==
  ASSUME NEW c, NEW U, Good(c, U), NEW nb, Wanted(nb), NEW d, NEW s, Ready(c, d, s, U),
         NEW start, Searched(d, nb, start), Hits(d, nb, start) # {},
         NEW p \in FirstFit(d, Min(Hits(d, nb, start)), nb)
  PROVE  /\ p # NoChunk
         /\ c.head[p].size - nb >= 16 => Served(c, U, nb, Split(unlink(s, p), p, nb), p)
         /\ Served(c, U, nb, SetInuse(unlink(s, p), p), p)
<1>1. nb \in Nat /\ nb >= 16 /\ nb % 8 = 0
  BY DEF Wanted
<1>2. /\ Good(d, U) /\ Good(s, U) /\ d.head = c.head /\ s.head = c.head /\ s.top = c.top
      /\ s.last_remainder = NoChunk
      /\ Listed(d.bins) = FreeOf(c, U) /\ FreeOf(s, U) = FreeOf(c, U)
  BY DEF Ready
<1>3. /\ p \in Listed(d.bins) /\ nb <= d.head[p].size
      /\ \A q \in Listed(d.bins) : d.head[q].size >= nb => d.head[p].size <= d.head[q].size
  BY <1>1, <1>2, HitIsBest
<1>4. p \in FreeOf(c, U) /\ p \in FreeOf(s, U) /\ nb <= c.head[p].size
  BY <1>2, <1>3
<1>5. /\ p \in DOMAIN c.head /\ p \notin U /\ p \in Nat /\ p # NoChunk /\ p # c.top
      /\ c.head[p].size \in Nat
  BY <1>4, FreeFacts
<1>6. BestChoice(c, U, p, nb)
  BY <1>2, <1>3, <1>5 DEF BestChoice
<1>7. Served(c, U, nb, SetInuse(unlink(s, p), p), p)
  <2>1. PICK w : w = SetInuse(unlink(s, p), p)
    OBVIOUS
  <2>2. /\ Good(w, U \cup {p}) /\ nb <= w.head[p].size
        /\ \A q \in U : w.head[q].size = s.head[q].size
    BY <1>1, <1>2, <1>4, <2>1, ServedWhole
  <2>. QED BY <1>2, <1>5, <1>6, <2>1, <2>2 DEF Served
<1>8. ASSUME c.head[p].size - nb >= 16
      PROVE  Served(c, U, nb, Split(unlink(s, p), p, nb), p)
  <2>1. PICK u : u = unlink(s, p)
    OBVIOUS
  <2>2. PICK F : F = FreeOf(s, U)
    OBVIOUS
  <2>3. IsContext(s) /\ Filed(s, F)
    BY <1>2, <2>2 DEF Good
  <2>4. /\ IsContext(u) /\ SameChunks(s, u) /\ Filed(u, F \ {p})
        /\ u.last_remainder = IF s.last_remainder = p THEN NoChunk ELSE s.last_remainder
    BY <1>5, <2>1, <2>3, FiledUnlinked
  <2>5. /\ u.head = c.head /\ u.top = c.top /\ u.bfbs = s.bfbs /\ u.heap_end = s.heap_end
        /\ u.last_remainder = NoChunk
    BY <1>2, <2>4 DEF SameChunks
  <2>6. FreeOf(u, U) = F
    BY <1>2, <2>2, <2>5 DEF FreeOf
  <2>7. /\ Binned(u.bins, u.head) /\ Marked(u.bins, u.binblocks) /\ Listed(u.bins) = F \ {p}
    BY <2>4, <2>5 DEF Filed
  <2>8. Known(u, F)
    BY <1>2, <2>2, <2>5 DEF Good, Known
  <2>9. Tiled(u.head, u.top, U) /\ u.heap_end = IF u.top = NoChunk THEN 0 ELSE Limit
    BY <1>2, <2>5 DEF Good
  <2>10. Cuttable(u, U, p)
    BY <2>4, <2>6, <2>7, <2>8, <2>9 DEF Cuttable
  <2>11. p \in FreeOf(u, U) /\ u.head[p].size - nb >= 16
    BY <1>4, <1>8, <2>2, <2>5, <2>6
  <2>12. PICK w : w = Split(u, p, nb)
    OBVIOUS
  <2>13. /\ Good(w, U \cup {p}) /\ w.head[p].size = nb
         /\ \A q \in U : w.head[q].size = u.head[q].size
    <3>1. p \in FreeOf(u, U) /\ Cuttable(u, U, p) /\ Wanted(nb) /\ Spares(u.head, p, nb)
      BY <2>10, <2>11 DEF Spares
    <3>2. /\ Good(Split(u, p, nb), U \cup {p})
          /\ Split(u, p, nb).head[p].size = nb
          /\ SameSizes(U, u.head, Split(u, p, nb).head)
      BY <3>1, PartGiven, Zenon
    <3>. QED BY <2>12, <3>2 DEF SameSizes
  <2>. QED BY <1>1, <1>5, <1>6, <2>1, <2>5, <2>12, <2>13 DEF Served
<1>. QED BY <1>5, <1>7, <1>8

(* Without a hit the top serves, or nothing does.                          *)
LEMMA ServedTop ==
  ASSUME NEW c, NEW U, Good(c, U), NEW nb, Wanted(nb), NEW d, NEW s, Ready(c, d, s, U),
         NEW start, Searched(d, nb, start), Hits(d, nb, start) = {}
  PROVE  LET t == Extended(s, nb)
         IN /\ TopFits(t, nb) => Served(c, U, nb, CutTop(t, nb), t.top)
            /\ Good(NoteBiggest(t), U)
            /\ SameSizes(U, c.head, NoteBiggest(t).head)
<1>1. nb \in Nat /\ nb >= 16 /\ nb % 8 = 0
  BY DEF Wanted
<1>2. /\ Good(d, U) /\ Good(s, U) /\ d.head = c.head /\ s.head = c.head /\ s.top = c.top
      /\ s.last_remainder = NoChunk
      /\ Listed(d.bins) = FreeOf(c, U)
  BY DEF Ready
<1>3. \A q \in FreeOf(c, U) : c.head[q].size < nb
  BY <1>1, <1>2, HitIsBest
<1>4. PICK t : t = Extended(s, nb)
  OBVIOUS
<1>5. s.heap_end = IF s.top = NoChunk THEN 0 ELSE Limit
  BY <1>2 DEF Good
<1>6. Limit \in Nat /\ Limit # 0
  BY HeapNumbers DEF Limit
<1>7. /\ Good(t, U) /\ t.top # NoChunk /\ t.last_remainder = NoChunk
      /\ \A q \in U : t.head[q].size = c.head[q].size
      /\ t.top = c.top \/ t.top \notin FreeOf(c, U)
  <2>1. CASE s.top = NoChunk
    <3>1. ~ TopFits(s, nb)
      BY <1>1, <2>1 DEF TopFits, chunksize, MINSIZE
    <3>2. t = malloc_extend_top(s)
      BY <1>4, <1>5, <2>1, <3>1 DEF Extended
    <3>3. Good(t, U) /\ t.top # NoChunk /\ U = {} /\ t.last_remainder = s.last_remainder
      BY <1>2, <2>1, <3>2, HeapExtended
    <3>4. FreeOf(c, U) = {}
      BY <1>2, <2>1 DEF FreeOf, Good, Tiled, Covered
    <3>. QED BY <1>2, <3>3, <3>4
  <2>2. CASE s.top # NoChunk
    <3>1. t = s
      BY <1>4, <1>5, <1>6, <2>2 DEF Extended
    <3>. QED BY <1>2, <2>2, <3>1
  <2>. QED BY <2>1, <2>2
<1>8. t.top \in DOMAIN t.head /\ t.top \notin U /\ t.top \in Nat /\ t.head[t.top].size \in Nat
  <2>1. Tiled(t.head, t.top, U)
    BY <1>7 DEF Good
  <2>2. t.top \in DOMAIN t.head /\ t.top \notin U
    BY <1>7, <2>1 DEF Tiled, Covered, Told
  <2>. QED BY <2>1, <2>2, ChunkFacts
<1>9. ASSUME TopFits(t, nb) PROVE Served(c, U, nb, CutTop(t, nb), t.top)
  <2>1. t.head[t.top].size - nb >= 16
    BY <1>1, <1>7, <1>8, <1>9 DEF TopFits, chunksize, MINSIZE
  <2>2. PICK w : w = CutTop(t, nb)
    OBVIOUS
  <2>3. /\ Good(w, U \cup {t.top}) /\ w.head[t.top].size = nb
        /\ \A q \in U : w.head[q].size = t.head[q].size
    <3>1. Good(t, U) /\ t.top # NoChunk /\ Wanted(nb) /\ Spares(t.head, t.top, nb)
      BY <1>7, <2>1 DEF Spares
    <3>2. /\ Good(CutTop(t, nb), U \cup {t.top})
          /\ CutTop(t, nb).head[t.top].size = nb
          /\ SameSizes(U, t.head, CutTop(t, nb).head)
      BY <3>1, TopGiven, Zenon
    <3>. QED BY <2>2, <3>2 DEF SameSizes
  <2>4. BestChoice(c, U, t.top, nb)
    BY <1>3, <1>7 DEF BestChoice, FreeOf
  <2>. QED BY <1>1, <1>7, <1>8, <2>2, <2>3, <2>4 DEF Served
<1>10. Good(NoteBiggest(t), U) /\ NoteBiggest(t).head = t.head
  BY <1>7, BiggestNoted
<1>11. SameSizes(U, c.head, NoteBiggest(t).head)
  BY <1>7, <1>10 DEF SameSizes
<1>. QED BY <1>4, <1>9, <1>10, <1>11

-----------------------------------------------------------------------------
(* The blocks of the program, and the inductive invariant.                 *)

ChunksOf(lv) == {mem2chunk(ptr) : ptr \in DOMAIN lv}

(* Every block has the chunk that its request needs.                       *)
Blocks(lv, head) ==
  /\ lv \in [DOMAIN lv -> Requests]
  /\ \A ptr \in DOMAIN lv : ptr \in Nat /\ lv[ptr] + 4 <= head[mem2chunk(ptr)].size

HeapInv == Good(alloc_context, InUse) /\ Blocks(live, alloc_context.head)

(* The chunks of the blocks are those in use.                              *)
LEMMA InUseChunks == InUse = ChunksOf(live)
BY DEF InUse, ChunksOf

(* A block and its chunk find each other.                                  *)
LEMMA BackAndForth ==
  /\ \A p \in Nat : chunk2mem(p) \in Nat /\ mem2chunk(chunk2mem(p)) = p /\ chunk2mem(p) = p + 8
  /\ \A a, b \in Nat : mem2chunk(a) = mem2chunk(b) => a = b
  /\ \A a \in Nat : a = mem2chunk(a) + 8 /\ mem2chunk(a) \in Int
BY DEF chunk2mem, mem2chunk, SIZE_SZ

(* One block more.                                                         *)
LEMMA BlocksMore ==
  ASSUME NEW lv, NEW head, Blocks(lv, head), NEW changed, NEW p \in Nat, NEW n \in Requests,
         n + 4 <= changed[p].size, SameSizes(ChunksOf(lv), head, changed)
  PROVE  LET more == Bind(lv, chunk2mem(p), n)
         IN Blocks(more, changed) /\ ChunksOf(more) = ChunksOf(lv) \cup {p}
<1>1. PICK a : a = chunk2mem(p)
  OBVIOUS
<1>2. a \in Nat /\ mem2chunk(a) = p
  BY <1>1, BackAndForth
<1>3. PICK more : more = Bind(lv, a, n)
  OBVIOUS
<1>4. /\ DOMAIN more = DOMAIN lv \cup {a} /\ more[a] = n
      /\ \A ptr \in DOMAIN lv : ptr # a => more[ptr] = lv[ptr]
      /\ more \in [DOMAIN more -> Requests]
  BY <1>3 DEF Bind, Blocks
<1>5. ASSUME NEW ptr \in DOMAIN more
      PROVE  ptr \in Nat /\ more[ptr] + 4 <= changed[mem2chunk(ptr)].size
  <2>1. CASE ptr = a
    BY <1>2, <1>4, <2>1
  <2>2. CASE ptr # a
    <3>1. ptr \in DOMAIN lv /\ more[ptr] = lv[ptr]
      BY <1>4, <2>2
    <3>2. mem2chunk(ptr) \in ChunksOf(lv)
      BY <3>1 DEF ChunksOf
    <3>3. changed[mem2chunk(ptr)].size = head[mem2chunk(ptr)].size
      BY <3>2 DEF SameSizes
    <3>. QED BY <3>1, <3>3 DEF Blocks
  <2>. QED BY <2>1, <2>2
<1>6. Blocks(more, changed)
  BY <1>4, <1>5 DEF Blocks
<1>7. ChunksOf(more) = ChunksOf(lv) \cup {p}
  BY <1>2, <1>4 DEF ChunksOf
<1>. QED BY <1>1, <1>3, <1>6, <1>7

(* One block less.                                                         *)
LEMMA BlocksLess ==
  ASSUME NEW lv, NEW head, Blocks(lv, head), NEW changed, NEW a \in DOMAIN lv,
         SameSizes(ChunksOf(lv) \ {mem2chunk(a)}, head, changed)
  PROVE  LET less == [q \in DOMAIN lv \ {a} |-> lv[q]]
         IN Blocks(less, changed) /\ ChunksOf(less) = ChunksOf(lv) \ {mem2chunk(a)}
<1>1. PICK less : less = [q \in DOMAIN lv \ {a} |-> lv[q]]
  OBVIOUS
<1>2. /\ DOMAIN less = DOMAIN lv \ {a}
      /\ \A ptr \in DOMAIN less : less[ptr] = lv[ptr]
      /\ less \in [DOMAIN less -> Requests]
  BY <1>1 DEF Blocks
<1>3. \A ptr \in DOMAIN lv : ptr \in Nat
  BY DEF Blocks
<1>4. ASSUME NEW ptr \in DOMAIN less
      PROVE  /\ ptr \in Nat /\ less[ptr] + 4 <= changed[mem2chunk(ptr)].size
             /\ mem2chunk(ptr) \in ChunksOf(lv) \ {mem2chunk(a)}
  <2>1. ptr \in DOMAIN lv /\ ptr # a /\ less[ptr] = lv[ptr]
    BY <1>2
  <2>2. mem2chunk(ptr) \in ChunksOf(lv) /\ mem2chunk(ptr) # mem2chunk(a)
    BY <1>3, <2>1, BackAndForth DEF ChunksOf
  <2>3. changed[mem2chunk(ptr)].size = head[mem2chunk(ptr)].size
    BY <2>2 DEF SameSizes
  <2>. QED BY <2>1, <2>2, <2>3 DEF Blocks
<1>5. Blocks(less, changed)
  BY <1>2, <1>4 DEF Blocks
<1>6. ChunksOf(less) = ChunksOf(lv) \ {mem2chunk(a)}
  <2>1. \A ptr \in DOMAIN less : mem2chunk(ptr) \in ChunksOf(lv) \ {mem2chunk(a)}
    BY <1>4
  <2>2. ASSUME NEW p \in ChunksOf(lv) \ {mem2chunk(a)} PROVE p \in ChunksOf(less)
    <3>1. PICK ptr \in DOMAIN lv : p = mem2chunk(ptr)
      BY DEF ChunksOf
    <3>2. ptr \in DOMAIN less
      BY <1>2, <2>2, <3>1
    <3>. QED BY <3>1, <3>2 DEF ChunksOf
  <2>. QED BY <2>1, <2>2 DEF ChunksOf
<1>. QED BY <1>1, <1>5, <1>6

(* Before the first request.                                               *)
LEMMA HeapInvInit == Init => HeapInv
<1>. SUFFICES ASSUME Init PROVE HeapInv
  OBVIOUS
<1>1. PICK c : c = alloc_context
  OBVIOUS
<1>2. /\ IsContext(c) /\ c.head = << >> /\ c.bins = [i \in Bins |-> << >>] /\ c.binblocks = {}
      /\ c.top = NoChunk /\ c.last_remainder = NoChunk /\ c.heap_end = 0
      /\ c.bfbs = heap_max_size
  BY <1>1 DEF Init, IsContext
<1>3. DOMAIN c.head = {} /\ DOMAIN live = {} /\ c.head = [x \in {} |-> 0] /\ live = [x \in {} |-> 0]
  BY <1>2 DEF Init
<1>4. InUse = {} /\ FreeOf(c, InUse) = {}
  BY <1>3 DEF InUse, FreeOf
<1>5. Tiled(c.head, c.top, InUse)
  <2>1. c.head \in [DOMAIN c.head -> Headers]
    BY <1>3
  <2>2. Placed(c.head, c.top) /\ Covered(c.head, c.top) /\ Told(c.head, c.top, InUse)
    BY <1>2, <1>3, <1>4 DEF Placed, Covered, Told
  <2>. QED BY <2>1, <2>2 DEF Tiled
<1>6. /\ \A i \in Bins : c.bins[i] = << >>
      /\ c.bins = [i \in Bins |-> c.bins[i]]
  BY <1>2
<1>7. << >> \in Seq(Nat) /\ Len(<< >>) = 0 /\ Members(<< >>) = {}
  BY DEF Members
<1>8. Distinct(<< >>) /\ Descending(<< >>, c.head) /\ \A i \in Bins : OfBin(<< >>, i, c.head)
  BY <1>7 DEF Distinct, Descending, OfBin
<1>9. Binned(c.bins, c.head)
  BY <1>6, <1>7, <1>8 DEF Binned
<1>10. Listed(c.bins) = {}
  BY <1>6, <1>7 DEF Listed
<1>11. Filed(c, {})
  BY <1>2, <1>6, <1>9, <1>10 DEF Filed, Marked
<1>12. Known(c, {})
  BY <1>2, HeapNumbers DEF Known
<1>13. Good(c, InUse)
  BY <1>2, <1>4, <1>5, <1>11, <1>12 DEF Good
<1>14. Blocks(live, c.head)
  BY <1>3 DEF Blocks
<1>. QED BY <1>1, <1>13, <1>14 DEF HeapInv

(* The block that a call hands out.                                        *)
TakesBest ==
  \A ptr \in DOMAIN live' \ DOMAIN live :
    BestChoice(alloc_context, InUse, mem2chunk(ptr), request2size(live'[ptr]))

(* What a step does to the blocks: none, a new one, or one less.           *)
Given(a, n) == a \notin DOMAIN live /\ live' = Bind(live, a, n)
Returned(a) == live' = [q \in DOMAIN live \ {a} |-> live[q]]

Answered ==
  /\ TakesBest
  /\ \/ live' = live
     \/ \E a : \E n \in Requests : Given(a, n)
     \/ \E a \in DOMAIN live : Returned(a)

(* A request is served.                                                    *)
LEMMA Handed ==
  ASSUME HeapInv, NEW bytes \in Requests, ~TooBig(bytes), NEW d, NEW p,
         Served(alloc_context, InUse, request2size(bytes), d, p),
         alloc_context' = d, live' = Bind(live, chunk2mem(p), bytes)
  PROVE  HeapInv' /\ Answered
<1>1. PICK nb : nb = request2size(bytes)
  OBVIOUS
<1>2. nb \in Nat /\ bytes + 4 <= nb /\ bytes \in Nat
  BY <1>1, RequestSize, HeapNumbers
<1>3. /\ p \in Nat /\ p \notin InUse /\ Good(d, InUse \cup {p}) /\ nb <= d.head[p].size
      /\ \A q \in InUse : d.head[q].size = alloc_context.head[q].size
      /\ BestChoice(alloc_context, InUse, p, nb)
  BY <1>1 DEF Served
<1>4. PICK head : head = alloc_context.head
  OBVIOUS
<1>5. Blocks(live, head) /\ SameSizes(ChunksOf(live), head, d.head)
  BY <1>3, <1>4, InUseChunks DEF HeapInv, SameSizes
<1>6. bytes + 4 <= d.head[p].size
  <2>1. p \in DOMAIN d.head /\ Tiled(d.head, d.top, InUse \cup {p})
    BY <1>3 DEF Good, Tiled, Told
  <2>2. d.head[p].size \in Nat
    BY <2>1, ChunkFacts
  <2>. QED BY <1>2, <1>3, <2>2
<1>7. Blocks(live', d.head) /\ ChunksOf(live') = ChunksOf(live) \cup {p}
  BY <1>3, <1>5, <1>6, BlocksMore
<1>8. InUse' = InUse \cup {p}
  BY <1>7 DEF InUse, ChunksOf
<1>9. HeapInv'
  BY <1>3, <1>7, <1>8 DEF HeapInv
<1>10. TakesBest
  <2>1. ASSUME NEW ptr \in DOMAIN live' \ DOMAIN live
        PROVE  mem2chunk(ptr) = p /\ live'[ptr] = bytes
    <3>1. ptr = chunk2mem(p)
      BY <2>1 DEF Bind
    <3>. QED BY <1>3, <2>1, <3>1, BackAndForth DEF Bind
  <2>. QED BY <1>1, <1>3, <2>1 DEF TakesBest
<1>11. Given(chunk2mem(p), bytes)
  <2>1. ASSUME chunk2mem(p) \in DOMAIN live PROVE FALSE
    <3>1. mem2chunk(chunk2mem(p)) \in InUse
      BY <2>1 DEF InUse
    <3>. QED BY <1>3, <3>1, BackAndForth
  <2>. QED BY <2>1 DEF Given
<1>. QED BY <1>9, <1>10, <1>11 DEF Answered

(* The program's blocks stay as they are.                                  *)
LEMMA NothingHanded ==
  ASSUME HeapInv, Good(alloc_context', InUse), live' = live,
         \A q \in InUse : alloc_context'.head[q].size = alloc_context.head[q].size
  PROVE  HeapInv' /\ Answered
<1>1. InUse' = InUse
  BY DEF InUse
<1>2. \A ptr \in DOMAIN live : mem2chunk(ptr) \in InUse
  BY DEF InUse
<1>3. Blocks(live', alloc_context'.head)
  BY <1>2 DEF HeapInv, Blocks
<1>. QED BY <1>1, <1>3 DEF HeapInv, TakesBest, Answered

(* The search of the bins and of the top.                                  *)
LEMMA SearchStep ==
  ASSUME HeapInv, NEW bytes \in Requests, ~TooBig(bytes), Wanted(request2size(bytes)),
         ExactFit(alloc_context, request2size(bytes)) = {},
         alloc_context.last_remainder # NoChunk =>
           alloc_context.head[alloc_context.last_remainder].size < request2size(bytes),
         Search(bytes)
  PROVE  HeapInv' /\ Answered
<1>1. PICK nb : nb = request2size(bytes)
  OBVIOUS
<1>2. PICK c : c = alloc_context
  OBVIOUS
<1>3. PICK start : start = ScanStart(c, nb)
  OBVIOUS
<1>4. PICK d : d = FileRemainder(c)
  OBVIOUS
<1>5. PICK hits : hits = Hits(d, nb, start)
  OBVIOUS
<1>6. PICK s : s = Scanned(d, nb, start)
  OBVIOUS
<1>7. Good(c, InUse) /\ Wanted(nb)
  BY <1>1, <1>2 DEF HeapInv
<1>8. Ready(c, d, s, InUse) /\ Searched(d, nb, start)
  <2>1. /\ Good(c, InUse) /\ Wanted(nb) /\ ExactFit(c, nb) = {}
        /\ c.last_remainder # NoChunk => c.head[c.last_remainder].size < nb
    BY <1>1, <1>2, <1>7
  <2>. QED BY <1>3, <1>4, <1>6, <2>1, SearchReady
<1>9. PICK t : t = Extended(s, nb)
  OBVIOUS
<1>10. IF hits # {}
       THEN \E p \in FirstFit(d, Min(hits), nb) :
              IF chunksize(d, p) - nb >= MINSIZE
              THEN Allocate(Split(unlink(s, p), p, nb), p, bytes)
              ELSE Allocate(SetInuse(unlink(s, p), p), p, bytes)
       ELSE IF TopFits(t, nb)
            THEN Allocate(CutTop(t, nb), t.top, bytes)
            ELSE alloc_context' = NoteBiggest(t) /\ UNCHANGED live
  BY <1>1, <1>2, <1>3, <1>4, <1>5, <1>6, <1>9 DEF Search
<1>11. CASE hits # {}
  <2>1. PICK p \in FirstFit(d, Min(hits), nb) :
          IF chunksize(d, p) - nb >= MINSIZE
          THEN Allocate(Split(unlink(s, p), p, nb), p, bytes)
          ELSE Allocate(SetInuse(unlink(s, p), p), p, bytes)
    BY <1>10, <1>11
  <2>2. /\ p # NoChunk
        /\ c.head[p].size - nb >= 16 => Served(c, InUse, nb, Split(unlink(s, p), p, nb), p)
        /\ Served(c, InUse, nb, SetInuse(unlink(s, p), p), p)
    BY <1>5, <1>7, <1>8, <1>11, <2>1, ServedHit
  <2>3. chunksize(d, p) = c.head[p].size /\ MINSIZE = 16
    BY <1>8, <2>2 DEF chunksize, Ready, MINSIZE
  <2>4. PICK w : Allocate(w, p, bytes) /\ Served(c, InUse, nb, w, p)
    BY <2>1, <2>2, <2>3
  <2>5. alloc_context' = w /\ live' = Bind(live, chunk2mem(p), bytes)
    BY <2>4 DEF Allocate
  <2>. QED BY <1>1, <1>2, <2>4, <2>5, Handed
<1>12. CASE hits = {}
  <2>1. /\ TopFits(t, nb) => Served(c, InUse, nb, CutTop(t, nb), t.top)
        /\ Good(NoteBiggest(t), InUse)
        /\ SameSizes(InUse, c.head, NoteBiggest(t).head)
    <3>1. /\ Good(c, InUse) /\ Wanted(nb) /\ Ready(c, d, s, InUse)
          /\ Searched(d, nb, start) /\ Hits(d, nb, start) = {}
      BY <1>5, <1>7, <1>8, <1>12
    <3>2. /\ TopFits(Extended(s, nb), nb) =>
               Served(c, InUse, nb, CutTop(Extended(s, nb), nb), Extended(s, nb).top)
          /\ Good(NoteBiggest(Extended(s, nb)), InUse)
          /\ SameSizes(InUse, c.head, NoteBiggest(Extended(s, nb)).head)
      BY <3>1, ServedTop, Zenon
    <3>. QED BY <1>9, <3>2
  <2>2. CASE TopFits(t, nb)
    <3>1. alloc_context' = CutTop(t, nb) /\ live' = Bind(live, chunk2mem(t.top), bytes)
      BY <1>10, <1>12, <2>2 DEF Allocate
    <3>. QED BY <1>1, <1>2, <2>1, <2>2, <3>1, Handed
  <2>3. CASE ~ TopFits(t, nb)
    <3>1. alloc_context' = NoteBiggest(t) /\ live' = live
      BY <1>10, <1>12, <2>3
    <3>2. \A q \in InUse : NoteBiggest(t).head[q].size = c.head[q].size
      BY <2>1 DEF SameSizes
    <3>. QED BY <1>2, <2>1, <3>1, <3>2, NothingHanded
  <2>. QED BY <2>2, <2>3
<1>. QED BY <1>11, <1>12

(* A request.                                                              *)
LEMMA MallocStep ==
  ASSUME HeapInv, NEW bytes \in Requests, mALLOc(bytes)
  PROVE  HeapInv' /\ Answered
<1>1. PICK nb : nb = request2size(bytes)
  OBVIOUS
<1>2. PICK c : c = alloc_context
  OBVIOUS
<1>3. Good(c, InUse)
  BY <1>2 DEF HeapInv
<1>4. CASE Refuse(bytes)
  <2>1. alloc_context' = alloc_context /\ live' = live
    BY <1>4 DEF Refuse, vars
  <2>. QED BY <1>2, <1>3, <2>1, NothingHanded
<1>5. CASE ~ Refuse(bytes)
  <2>1. /\ ~ TooBig(bytes)
        /\ \/ TakeExact(bytes)
           \/ TakeRemainder(bytes)
           \/ /\ ExactFit(c, nb) = {}
              /\ c.last_remainder # NoChunk => chunksize(c, c.last_remainder) < nb
              /\ Search(bytes)
    BY <1>1, <1>2, <1>5 DEF mALLOc
  <2>2. Wanted(nb)
    BY <1>1, <2>1, RequestSize DEF Wanted
  <2>3. CASE TakeExact(bytes)
    <3>1. PICK p \in ExactFit(c, nb) :
            alloc_context' = SetInuse(unlink(c, p), p) /\ live' = Bind(live, chunk2mem(p), bytes)
      BY <1>1, <1>2, <2>3 DEF TakeExact, Allocate
    <3>2. Served(c, InUse, nb, SetInuse(unlink(c, p), p), p)
      BY <1>3, <2>2, <3>1, ServedExact
    <3>. QED BY <1>1, <1>2, <2>1, <3>1, <3>2, Handed
  <2>4. CASE TakeRemainder(bytes)
    <3>1. PICK p : p = c.last_remainder
      OBVIOUS
    <3>2. /\ p # NoChunk /\ chunksize(c, p) >= nb
          /\ IF chunksize(c, p) - nb >= MINSIZE
             THEN Allocate(Split(c, p, nb), p, bytes)
             ELSE Allocate(SetInuse(unlink(c, p), p), p, bytes)
      BY <1>1, <1>2, <2>4, <3>1 DEF TakeRemainder
    <3>3. chunksize(c, p) = c.head[p].size /\ MINSIZE = 16
      BY <3>2 DEF chunksize, MINSIZE
    <3>4. /\ c.head[p].size - nb >= 16 => Served(c, InUse, nb, Split(c, p, nb), p)
          /\ Served(c, InUse, nb, SetInuse(unlink(c, p), p), p)
      BY <1>3, <2>2, <3>1, <3>2, <3>3, ServedRemainder
    <3>5. PICK w : Allocate(w, p, bytes) /\ Served(c, InUse, nb, w, p)
      BY <3>2, <3>3, <3>4
    <3>6. alloc_context' = w /\ live' = Bind(live, chunk2mem(p), bytes)
      BY <3>5 DEF Allocate
    <3>. QED BY <1>1, <1>2, <2>1, <3>5, <3>6, Handed
  <2>5. CASE /\ ExactFit(c, nb) = {}
             /\ c.last_remainder # NoChunk => chunksize(c, c.last_remainder) < nb
             /\ Search(bytes)
    <3>1. c.last_remainder # NoChunk => c.head[c.last_remainder].size < nb
      BY <2>5 DEF chunksize
    <3>. QED BY <1>1, <1>2, <2>1, <2>2, <2>5, <3>1, SearchStep
  <2>. QED BY <2>1, <2>3, <2>4, <2>5
<1>. QED BY <1>4, <1>5

(* A free.                                                                 *)
LEMMA FreeStep ==
  ASSUME HeapInv, NEW ptr \in DOMAIN live, fREe(ptr)
  PROVE  HeapInv' /\ Answered
<1>1. PICK c : c = alloc_context
  OBVIOUS
<1>2. PICK p : p = mem2chunk(ptr)
  OBVIOUS
<1>3. Good(c, InUse) /\ p \in InUse /\ Blocks(live, c.head)
  BY <1>1, <1>2 DEF HeapInv, InUse
<1>4. p \in DOMAIN c.head /\ Tiled(c.head, c.top, InUse)
  BY <1>3 DEF Good, Tiled, Told
<1>5. p # NoChunk /\ p + chunksize(c, p) = After(c.head, p)
  BY <1>4, ChunkFacts DEF chunksize, After
<1>6. PICK d : d = alloc_context'
  OBVIOUS
<1>7. d = IF After(c.head, p) = c.top THEN FreeIntoTop(c, p) ELSE FreeIntoBin(c, p)
  BY <1>1, <1>2, <1>5, <1>6 DEF fREe
<1>8. live' = [q \in DOMAIN live \ {ptr} |-> live[q]]
  BY DEF fREe
<1>9. Good(d, InUse \ {p}) /\ \A q \in InUse \ {p} : d.head[q].size = c.head[q].size
  <2>1. CASE After(c.head, p) = c.top
    BY <1>3, <1>7, <2>1, TopFreed
  <2>2. CASE After(c.head, p) # c.top
    BY <1>3, <1>7, <2>2, BinFreed
  <2>. QED BY <2>1, <2>2
<1>10. SameSizes(ChunksOf(live) \ {mem2chunk(ptr)}, c.head, d.head)
  BY <1>2, <1>9, InUseChunks DEF SameSizes
<1>11. Blocks(live', d.head) /\ ChunksOf(live') = ChunksOf(live) \ {mem2chunk(ptr)}
  BY <1>3, <1>8, <1>10, BlocksLess
<1>12. InUse' = InUse \ {p}
  BY <1>2, <1>11 DEF InUse, ChunksOf
<1>13. HeapInv'
  BY <1>6, <1>9, <1>11, <1>12 DEF HeapInv
<1>14. Answered
  BY <1>8 DEF TakesBest, Answered, Returned
<1>. QED BY <1>13, <1>14

(* Every step.                                                             *)
LEMMA HeapInvStep ==
  ASSUME HeapInv, [Next]_vars
  PROVE  HeapInv' /\ [TakesBest]_vars /\ (live' = live \/ Answered)
<1>1. CASE Malloc
  <2>1. PICK bytes \in Requests : mALLOc(bytes)
    BY <1>1 DEF Malloc
  <2>. QED BY <2>1, MallocStep DEF Answered
<1>2. CASE Free
  <2>1. PICK ptr \in DOMAIN live : fREe(ptr)
    BY <1>2 DEF Free
  <2>. QED BY <2>1, FreeStep DEF Answered
<1>3. CASE UNCHANGED vars
  <2>1. alloc_context' = alloc_context /\ live' = live
    BY <1>3 DEF vars
  <2>2. InUse' = InUse
    BY <2>1 DEF InUse
  <2>. QED BY <1>3, <2>1, <2>2 DEF HeapInv
<1>. QED BY <1>1, <1>2, <1>3 DEF Next, Answered

(* The invariant holds of every heap, whatever its size and its program.   *)
THEOREM HeapInvariant == Spec => []HeapInv
<1>1. Init => HeapInv
  BY HeapInvInit
<1>2. HeapInv /\ [Next]_vars => HeapInv'
  BY HeapInvStep
<1>. QED BY <1>1, <1>2, PTL DEF Spec

-----------------------------------------------------------------------------
(* The properties.                                                         *)

(* What the invariant says in the words of the properties.                 *)
LEMMA Words ==
  ASSUME HeapInv
  PROVE  /\ Good(ctx, InUse) /\ Tiled(ctx.head, ctx.top, InUse) /\ Blocks(live, ctx.head)
         /\ Chunks = DOMAIN ctx.head
         /\ FreeChunks = FreeOf(ctx, InUse)
         /\ \A p \in Chunks : /\ chunksize(ctx, p) = ctx.head[p].size
                              /\ EndOf(p) = After(ctx.head, p)
<1>1. Good(ctx, InUse) /\ Blocks(live, ctx.head)
  BY DEF HeapInv, ctx
<1>2. Tiled(ctx.head, ctx.top, InUse)
  BY <1>1 DEF Good
<1>3. \A p \in DOMAIN ctx.head : p # NoChunk
  BY <1>2, ChunkFacts
<1>. QED BY <1>1, <1>2, <1>3 DEF Chunks, FreeChunks, FreeOf, chunksize, EndOf, After

(* The allocator's data have their types (struct malloc_chunk, Heap_ctx).  *)
LEMMA TypesFollow == HeapInv => TypeOK
<1>. SUFFICES ASSUME HeapInv PROVE TypeOK
  OBVIOUS
<1>1. PICK c : c = ctx
  OBVIOUS
<1>2. Good(c, InUse) /\ Tiled(c.head, c.top, InUse) /\ Blocks(live, c.head)
  BY <1>1, Words
<1>3. Chunks \subseteq heap_base .. heap_base + heap_max_size
  <2>1. ASSUME NEW p \in DOMAIN c.head PROVE p \in heap_base .. heap_base + heap_max_size
    <3>1. /\ p \in Nat /\ heap_base <= p /\ c.head[p].size \in Nat
          /\ After(c.head, p) <= Limit /\ After(c.head, p) = p + c.head[p].size
          /\ Limit <= heap_base + heap_max_size /\ Limit \in Nat
      BY <1>2, ChunkFacts
    <3>. QED BY <3>1, HeapNumbers
  <2>. QED BY <1>1, <2>1 DEF Chunks
<1>4. c.head \in [Chunks -> Headers]
  BY <1>1, <1>2 DEF Tiled, Chunks
<1>5. ASSUME NEW i \in Bins PROVE c.bins[i] \in Seq(Chunks)
  <2>1. c.bins[i] \in Seq(Nat) /\ \A q \in Listed(c.bins) : q \in FreeOf(c, InUse)
    BY <1>2, ListedFacts DEF Binned
  <2>2. Members(c.bins[i]) \subseteq Chunks
    BY <1>1, <2>1 DEF Listed, FreeOf, Chunks
  <2>. QED BY <2>1, <2>2, ListOf
<1>6. c.binblocks \subseteq 0 .. 31
  <2>1. \A b \in c.binblocks : b \in Nat /\ b <= 31
    BY <1>2, ListedFacts DEF Marked
  <2>2. PICK hi \in Nat : hi = 31
    OBVIOUS
  <2>3. c.binblocks \subseteq 0 .. hi
    BY <2>1, <2>2
  <2>. QED BY <2>2, <2>3
<1>7. c.top \in Chunks \cup {NoChunk}
  BY <1>1, <1>2 DEF Tiled, Covered, Chunks
<1>8. c.last_remainder \in Chunks \cup {NoChunk}
  <2>1. c.last_remainder # NoChunk => c.last_remainder \in FreeOf(c, InUse)
    BY <1>2, ListedFacts
  <2>. QED BY <1>1, <2>1 DEF FreeOf, Chunks
<1>9. c.heap_end \in {0, heap_base + heap_max_size - 4}
  BY <1>2 DEF Good, Limit
<1>10. c.bfbs \in 0 .. heap_max_size
  <2>1. c.bfbs \in Nat /\ c.bfbs <= heap_max_size
    BY <1>2 DEF Good, Known
  <2>. QED BY <2>1, HeapNumbers
<1>11. live \in [DOMAIN live -> Requests]
  BY <1>2 DEF Blocks
<1>. QED BY <1>1, <1>3, <1>4, <1>5, <1>6, <1>7, <1>8, <1>9, <1>10, <1>11 DEF TypeOK, Headers

(* The tags of two neighbours agree about where one ends, the other begins *)
(* and whose the first one is.                                             *)
LEMMA TagsFollow == HeapInv => BoundaryTags
<1>. SUFFICES ASSUME HeapInv, ctx.top # NoChunk PROVE BoundaryTags
  BY DEF BoundaryTags
<1>1. PICK head : head = ctx.head
  OBVIOUS
<1>2. PICK top : top = ctx.top
  OBVIOUS
<1>3. /\ Tiled(head, top, InUse) /\ Good(ctx, InUse)
      /\ Chunks = DOMAIN head /\ FreeChunks = FreeOf(ctx, InUse)
      /\ \A p \in Chunks : /\ chunksize(ctx, p) = head[p].size
                           /\ EndOf(p) = After(head, p)
  BY <1>1, <1>2, Words
<1>4. top \in Chunks /\ EndOf(top) = ctx.heap_end
  BY <1>2, <1>3 DEF Tiled, Covered, Good
<1>5. ASSUME NEW p \in Chunks \ {top}
      PROVE  EndOf(p) \in Chunks \ {heap_base}
  <2>1. /\ After(head, p) \in DOMAIN head /\ heap_base <= p /\ p \in Nat
        /\ head[p].size \in Nat /\ head[p].size >= 16 /\ After(head, p) = p + head[p].size
    BY <1>3, ChunkFacts
  <2>2. After(head, p) # heap_base
    BY <2>1, HeapNumbers
  <2>. QED BY <1>3, <2>1, <2>2
<1>6. ASSUME NEW q \in Chunks \ {heap_base} PROVE \E p \in Chunks \ {top} : EndOf(p) = q
  BY <1>3 DEF Tiled, Covered
<1>7. {EndOf(p) : p \in Chunks \ {ctx.top}} = Chunks \ {heap_base}
  BY <1>2, <1>5, <1>6
<1>8. ASSUME NEW p \in Chunks \ {top}
      PROVE  /\ head[EndOf(p)].prev_inuse = (p \in InUse)
             /\ p \in FreeChunks => head[EndOf(p)].prev_size = chunksize(ctx, p)
  <2>1. /\ p \in InUse => head[After(head, p)].prev_inuse = TRUE
        /\ p \notin InUse => /\ head[After(head, p)].prev_inuse = FALSE
                             /\ head[After(head, p)].prev_size = head[p].size
    BY <1>3 DEF Tiled, Told
  <2>2. p \in FreeChunks => p \notin InUse
    BY DEF FreeChunks
  <2>3. EndOf(p) = After(head, p) /\ chunksize(ctx, p) = head[p].size
    BY <1>3
  <2>4. head[EndOf(p)].prev_inuse = (p \in InUse)
    <3>1. CASE p \in InUse
      <4>1. (p \in InUse) = TRUE /\ head[EndOf(p)].prev_inuse = TRUE
        BY <2>1, <2>3, <3>1, Zenon
      <4>. QED BY <4>1, Zenon
    <3>2. CASE p \notin InUse
      <4>1. (p \in InUse) = FALSE
        BY <3>2
      <4>2. head[EndOf(p)].prev_inuse = FALSE
        BY <2>1, <2>3, <3>2
      <4>. QED BY <4>1, <4>2, Zenon
    <3>. QED BY <3>1, <3>2
  <2>5. p \in FreeChunks => head[EndOf(p)].prev_size = chunksize(ctx, p)
    BY <2>1, <2>2, <2>3
  <2>. QED BY <2>4, <2>5
<1>. QED BY <1>1, <1>2, <1>4, <1>7, <1>8 DEF BoundaryTags

(* free leaves no two free chunks side by side, nor one before the top.    *)
LEMMA ConsolidationFollows == HeapInv => Consolidated
<1>. SUFFICES ASSUME HeapInv, NEW p \in FreeChunks PROVE EndOf(p) \in InUse
  BY DEF Consolidated
<1>1. /\ Good(ctx, InUse) /\ p \in FreeOf(ctx, InUse)
      /\ \A q \in Chunks : EndOf(q) = After(ctx.head, q)
  BY Words
<1>2. p \in Chunks /\ After(ctx.head, p) \in InUse
  BY <1>1, FreeFacts DEF Chunks
<1>. QED BY <1>1, <1>2

(* A list without repetition has as many members as it is long.            *)
LEMMA DistinctLength ==
  ASSUME NEW list \in Seq(Nat), Distinct(list)
  PROVE  Cardinality(Members(list)) = Len(list)
<1>1. PICK l \in Nat : l = Len(list)
  BY LenProperties
<1>2. PICK S : S = 1 .. l
  OBVIOUS
<1>3. DOMAIN list = S /\ list \in [S -> Members(list)]
  BY <1>1, <1>2 DEF Members
<1>4. \A m \in Members(list) : \E j \in S : list[j] = m
  BY <1>1, <1>2 DEF Members
<1>5. \A j, k \in S : list[j] = list[k] => j = k
  BY <1>1, <1>2 DEF Distinct
<1>6. list \in Bijection(S, Members(list))
  BY <1>3, <1>4, <1>5 DEF Bijection, Injection, Surjection, IsInjective
<1>7. ExistsBijection(S, Members(list))
  BY <1>6 DEF ExistsBijection
<1>8. IsFiniteSet(S) /\ Cardinality(S) = l
  <2>1. 1 \in Int /\ l \in Int /\ (IF 1 > l THEN 0 ELSE l - 1 + 1) = l
    BY <1>1
  <2>. QED BY <1>2, <2>1, FS_Interval, Zenon
<1>. QED BY <1>1, <1>7, <1>8, FS_Bijection

(* malloc can find every free chunk (frontlink, unlink, binblocks).        *)
LEMMA FilingFollows == HeapInv => FreeChunksFiled
<1>. SUFFICES ASSUME HeapInv,
                     NEW c, c = ctx,
                     NEW filed, filed = [i \in Bins |-> {c.bins[i][j] : j \in DOMAIN c.bins[i]}],
                     NEW all, all = UNION {filed[i] : i \in Bins}
              PROVE  /\ FreeChunks = all \cup ({c.last_remainder} \ {NoChunk})
                     /\ c.last_remainder \notin all
                     /\ \A i \in Bins : c.bins[i] # << >> =>
                          /\ idx2binblock(i) \in c.binblocks
                          /\ Cardinality(filed[i]) = Len(c.bins[i])
                          /\ \A p \in filed[i] : bin_index(chunksize(c, p)) = i
                          /\ \A j \in 1 .. Len(c.bins[i]) - 1 :
                               chunksize(c, c.bins[i][j]) >= chunksize(c, c.bins[i][j + 1])
  BY DEF FreeChunksFiled
<1>1. c = ctx
  OBVIOUS
<1>2. /\ Good(c, InUse) /\ FreeChunks = FreeOf(c, InUse)
  BY <1>1, Words
<1>3. /\ Binned(c.bins, c.head) /\ Marked(c.bins, c.binblocks)
      /\ FreeOf(c, InUse) = Listed(c.bins) \cup ({c.last_remainder} \ {NoChunk})
      /\ c.last_remainder \notin Listed(c.bins)
      /\ NoChunk \notin Listed(c.bins)
  BY <1>2, ListedFacts
<1>4. filed = [i \in Bins |-> {c.bins[i][j] : j \in DOMAIN c.bins[i]}]
  OBVIOUS
<1>5. \A i \in Bins : filed[i] = Members(c.bins[i])
  <2>1. \A i \in Bins : DOMAIN c.bins[i] = 1 .. Len(c.bins[i])
    BY <1>3 DEF Binned
  <2>. QED BY <1>4, <2>1 DEF Members
<1>6. all = Listed(c.bins)
  BY <1>5 DEF Listed
<1>7. ASSUME NEW i \in Bins, c.bins[i] # << >>
      PROVE  /\ idx2binblock(i) \in c.binblocks
             /\ Cardinality(filed[i]) = Len(c.bins[i])
             /\ \A p \in filed[i] : bin_index(chunksize(c, p)) = i
             /\ \A j \in 1 .. Len(c.bins[i]) - 1 :
                  chunksize(c, c.bins[i][j]) >= chunksize(c, c.bins[i][j + 1])
  <2>1. idx2binblock(i) \in c.binblocks
    BY <1>3, <1>7 DEF Marked
  <2>2. Cardinality(filed[i]) = Len(c.bins[i])
    BY <1>3, <1>5, DistinctLength DEF Binned
  <2>3. ASSUME NEW p \in filed[i] PROVE bin_index(chunksize(c, p)) = i
    <3>1. p \in Members(c.bins[i])
      BY <1>5, <2>3
    <3>2. p \in Listed(c.bins) /\ bin_index(c.head[p].size) = i
      BY <1>3, <3>1, InItsBin
    <3>. QED BY <1>3, <3>2 DEF chunksize
  <2>4. PICK list : list = c.bins[i]
    OBVIOUS
  <2>5. /\ Len(list) \in Nat
        /\ \A j \in 1 .. Len(list) : /\ list[j] # NoChunk
                                     /\ c.head[list[j]].size \in Nat
        /\ \A j, k \in 1 .. Len(list) : j < k => c.head[list[k]].size <= c.head[list[j]].size
    <3>1. /\ c.bins[i] \in Seq(Nat) /\ Len(c.bins[i]) \in Nat
          /\ DOMAIN c.bins[i] = 1 .. Len(c.bins[i])
          /\ \A j \in 1 .. Len(c.bins[i]) : /\ c.bins[i][j] \in Members(c.bins[i])
                                            /\ c.bins[i][j] \in Listed(c.bins)
                                            /\ c.head[c.bins[i][j]].size \in Nat
                                            /\ bin_index(c.head[c.bins[i][j]].size) = i
          /\ \A j, k \in 1 .. Len(c.bins[i]) :
               j < k => c.head[c.bins[i][k]].size <= c.head[c.bins[i][j]].size
      BY <1>3, SizesInBin, Zenon
    <3>. QED BY <1>3, <2>4, <3>1
  <2>6. ASSUME NEW j \in 1 .. Len(list) - 1
        PROVE  chunksize(c, list[j]) >= chunksize(c, list[j + 1])
    <3>1. j \in 1 .. Len(list) /\ j + 1 \in 1 .. Len(list) /\ j < j + 1
      BY <2>5
    <3>2. c.head[list[j + 1]].size <= c.head[list[j]].size
      BY <2>5, <3>1
    <3>. QED BY <2>5, <3>1, <3>2 DEF chunksize
  <2>. QED BY <2>1, <2>2, <2>3, <2>4, <2>6
<1>. QED BY <1>2, <1>3, <1>6, <1>7, Zenon

(* The early failure of malloc never hides the top or a large free block.  *)
LEMMA KnowledgeFollows == HeapInv => LargeBlocksKnown
<1>. SUFFICES ASSUME HeapInv PROVE LargeBlocksKnown
  OBVIOUS
<1>1. /\ Good(ctx, InUse) /\ FreeChunks = FreeOf(ctx, InUse)
      /\ \A p \in Chunks : chunksize(ctx, p) = ctx.head[p].size
  BY Words
<1>2. Known(ctx, FreeChunks)
  BY <1>1 DEF Good
<1>3. \A p \in FreeChunks : p \in Chunks
  BY DEF FreeChunks
<1>4. ctx.top # NoChunk => ctx.top \in Chunks
  BY <1>1 DEF Good, Tiled, Covered, Chunks
<1>5. ASSUME NEW p \in FreeChunks, chunksize(ctx, p) >= 512 PROVE chunksize(ctx, p) <= ctx.bfbs
  BY <1>1, <1>2, <1>3, <1>5 DEF Known
<1>6. ASSUME ctx.top # NoChunk PROVE chunksize(ctx, ctx.top) <= ctx.bfbs
  BY <1>1, <1>2, <1>4, <1>6 DEF Known
<1>7. ASSUME NEW p \in FreeChunks PROVE p # ctx.top
  BY DEF FreeChunks
<1>. QED BY <1>5, <1>6, <1>7 DEF LargeBlocksKnown, MAX_SMALLBIN_SIZE

(* The invariant, of any context and any blocks.                           *)
Holds(c, lv) == Good(c, ChunksOf(lv)) /\ Blocks(lv, c.head)

(* It holds before and after a step.                                       *)
LEMMA HoldsOf ==
  /\ HeapInv => Holds(ctx, live)
  /\ HeapInv' => Holds(ctx', live')
BY DEF HeapInv, Holds, InUse, ChunksOf, ctx

(* Where the bytes of a block are, and where its chunk.                    *)
LEMMA BlockPlace ==
  ASSUME NEW c, NEW lv, Holds(c, lv), NEW a \in DOMAIN lv
  PROVE  LET q == mem2chunk(a)
             n == lv[a]
         IN /\ a \in Nat /\ n \in Nat /\ n \in Requests /\ q \in Nat /\ a = q + 8
            /\ q \in ChunksOf(lv) /\ q \in DOMAIN c.head /\ q % 8 = 0 /\ heap_base <= q
            /\ c.head[q].size \in Nat /\ n + 4 <= c.head[q].size
            /\ After(c.head, q) = q + c.head[q].size
            /\ After(c.head, q) <= Limit
<1>1. PICK q : q = mem2chunk(a)
  OBVIOUS
<1>2. /\ Tiled(c.head, c.top, ChunksOf(lv))
      /\ a \in Nat /\ lv[a] \in Requests /\ lv[a] + 4 <= c.head[q].size
  BY <1>1 DEF Holds, Good, Blocks
<1>3. q \in ChunksOf(lv) /\ a = q + 8
  BY <1>1, <1>2, BackAndForth DEF ChunksOf
<1>4. q \in DOMAIN c.head
  BY <1>2, <1>3 DEF Tiled, Told
<1>5. /\ q \in Nat /\ q % 8 = 0 /\ heap_base <= q /\ c.head[q].size \in Nat
      /\ After(c.head, q) = q + c.head[q].size /\ After(c.head, q) <= Limit
  BY <1>2, <1>4, ChunkFacts
<1>6. lv[a] \in Nat
  BY <1>2, HeapNumbers
<1>. QED BY <1>1, <1>2, <1>3, <1>4, <1>5, <1>6

(* A chunk lies before another one, is it, or lies behind it.              *)
LEMMA Apart ==
  ASSUME NEW c, NEW lv, Holds(c, lv), NEW p \in DOMAIN c.head, NEW q \in DOMAIN c.head
  PROVE  /\ p = q \/ After(c.head, p) <= q \/ After(c.head, q) <= p
         /\ p \in Nat /\ q \in Nat /\ After(c.head, p) \in Nat /\ After(c.head, q) \in Nat
         /\ p + 16 <= After(c.head, p)
<1>1. Tiled(c.head, c.top, ChunksOf(lv))
  BY DEF Holds, Good
<1>2. /\ \A r \in DOMAIN c.head : r \in Nat /\ c.head[r].size \in Nat /\ c.head[r].size >= 16
                                    /\ After(c.head, r) = r + c.head[r].size
      /\ \A r, s \in DOMAIN c.head : r < s => After(c.head, r) <= s
  BY <1>1 DEF Tiled, Placed, After
<1>. QED BY <1>2

(* What the allocator writes in a chunk and at its end stays out of the    *)
(* program's blocks.                                                       *)
LEMMA BlocksClear == HeapInv => BlocksUntouched
<1>. SUFFICES ASSUME HeapInv, NEW a \in DOMAIN live,
                     NEW x \in a .. a + live[a] - 1, x \in Metadata
              PROVE  FALSE
  BY DEF BlocksUntouched
<1>1. PICK q : q = mem2chunk(a)
  OBVIOUS
<1>2. PICK n : n = live[a]
  OBVIOUS
<1>3. PICK e : e = After(ctx.head, q)
  OBVIOUS
<1>4. /\ a \in Nat /\ n \in Nat /\ q \in Nat /\ a = q + 8 /\ q \in InUse
      /\ q \in DOMAIN ctx.head /\ e \in Nat /\ n + 4 <= e - q /\ q <= e
  <2>1. /\ a \in Nat /\ n \in Nat /\ q \in Nat /\ a = q + 8 /\ q \in InUse
        /\ q \in DOMAIN ctx.head /\ ctx.head[q].size \in Nat /\ n + 4 <= ctx.head[q].size
        /\ e = q + ctx.head[q].size
    <3>1. Holds(ctx, live)
      BY HoldsOf
    <3>2. /\ a \in Nat /\ live[a] \in Nat /\ mem2chunk(a) \in Nat /\ a = mem2chunk(a) + 8
          /\ mem2chunk(a) \in ChunksOf(live)
          /\ mem2chunk(a) \in DOMAIN ctx.head /\ ctx.head[mem2chunk(a)].size \in Nat
          /\ live[a] + 4 <= ctx.head[mem2chunk(a)].size
          /\ After(ctx.head, mem2chunk(a)) = mem2chunk(a) + ctx.head[mem2chunk(a)].size
      BY <3>1, BlockPlace
    <3>. QED BY <1>1, <1>2, <1>3, <3>2, InUseChunks
  <2>. QED BY <2>1
<1>5. x \in Nat /\ q + 8 <= x /\ x < e + 4
  <2>1. x \in a .. a + n - 1
    BY <1>2
  <2>2. x \in Int /\ a <= x /\ x <= a + n - 1
    BY <1>4, <2>1
  <2>. QED BY <1>4, <2>2
<1>6. PICK p \in Chunks : \/ x \in p + 4 .. p + 7
                          \/ p \in FreeChunks /\ x \in p + 8 .. p + 15
                          \/ p \in FreeChunks /\ x \in EndOf(p) .. EndOf(p) + 3
  BY DEF Metadata
<1>7. PICK f : f = After(ctx.head, p)
  OBVIOUS
<1>8. /\ p \in DOMAIN ctx.head /\ EndOf(p) = f
      /\ p \in FreeChunks => p # q
  BY <1>4, <1>6, <1>7, Words DEF FreeOf
<1>9. /\ p = q \/ f <= q \/ e <= p
      /\ p \in Nat /\ f \in Nat /\ p + 16 <= f
  BY <1>3, <1>4, <1>7, <1>8, HoldsOf, Apart
<1>10. \/ p + 4 <= x /\ x <= p + 7
       \/ p # q /\ p + 8 <= x /\ x <= p + 15
       \/ p # q /\ f <= x /\ x <= f + 3
  BY <1>5, <1>6, <1>8, <1>9
<1>. QED BY <1>4, <1>5, <1>9, <1>10

(* A step to a heap that satisfies the invariant serves as BestFit asks.   *)
LEMMA ChoiceFollows ==
  ASSUME HeapInv, HeapInv', TakesBest
  PROVE  \A ptr \in DOMAIN live' \ DOMAIN live :
           LET p == mem2chunk(ptr)
               nb == request2size(live'[ptr])
               fits == {q \in FreeChunks : chunksize(ctx, q) >= nb}
           IN /\ p = ctx.top => fits = {}
              /\ p \in FreeChunks \ {ctx.last_remainder} =>
                   \A q \in fits : \/ chunksize(ctx, q) >= chunksize(ctx, p)
                                   \/ chunksize(ctx, p) - nb < MINSIZE
<1>1. /\ Good(ctx, InUse) /\ FreeChunks = FreeOf(ctx, InUse)
      /\ \A p \in Chunks : chunksize(ctx, p) = ctx.head[p].size
  BY Words
<1>2. \A q \in FreeChunks : q \in Chunks
  BY DEF FreeChunks
<1>3. \A q \in FreeChunks : chunksize(ctx, q) = ctx.head[q].size /\ ctx.head[q].size \in Nat
  BY <1>1, <1>2, FreeFacts
<1>. SUFFICES ASSUME NEW ptr \in DOMAIN live' \ DOMAIN live,
                     NEW p, p = mem2chunk(ptr),
                     NEW nb, nb = request2size(live'[ptr]),
                     NEW fits, fits = {q \in FreeChunks : chunksize(ctx, q) >= nb}
              PROVE  /\ p = ctx.top => fits = {}
                     /\ p \in FreeChunks \ {ctx.last_remainder} =>
                          \A q \in fits : \/ chunksize(ctx, q) >= chunksize(ctx, p)
                                          \/ chunksize(ctx, p) - nb < MINSIZE
  OBVIOUS
<1>4. BestChoice(ctx, InUse, p, nb)
  BY DEF TakesBest, ctx
<1>5. ASSUME p = ctx.top, NEW q \in fits PROVE FALSE
  <2>1. q \in FreeChunks /\ chunksize(ctx, q) >= nb
    OBVIOUS
  <2>2. ctx.head[q].size < nb
    BY <1>1, <1>4, <1>5, <2>1 DEF BestChoice
  <2>3. ctx.head[q].size \in Nat /\ ctx.head[q].size >= nb
    BY <1>3, <2>1
  <2>4. nb \in Int
    <3>1. live'[ptr] \in Requests
      BY HoldsOf DEF Holds, Blocks
    <3>2. live'[ptr] \in Nat /\ Word \in Nat /\ Word > 0
      BY <3>1, HeapNumbers
    <3>3. (live'[ptr] + 4 + 8 - 1) % Word \in Nat
      BY <3>2
    <3>. QED BY <3>3 DEF request2size, SIZE_SZ, MALLOC_ALIGNMENT, MINSIZE
  <2>. QED BY <2>2, <2>3, <2>4
<1>6. ASSUME p \in FreeChunks \ {ctx.last_remainder}, NEW q \in fits
      PROVE  chunksize(ctx, q) >= chunksize(ctx, p) \/ chunksize(ctx, p) - nb < MINSIZE
  <2>1. q \in FreeChunks /\ chunksize(ctx, q) >= nb
    OBVIOUS
  <2>2. /\ chunksize(ctx, q) = ctx.head[q].size /\ ctx.head[q].size \in Nat
        /\ chunksize(ctx, p) = ctx.head[p].size /\ ctx.head[p].size \in Nat
    BY <1>3, <1>6, <2>1
  <2>3. ctx.head[p].size <= ctx.head[q].size \/ ctx.head[p].size - nb < 16
    BY <1>1, <1>4, <1>6, <2>1, <2>2 DEF BestChoice
  <2>. QED BY <2>2, <2>3 DEF MINSIZE
<1>. QED BY <1>5, <1>6

(* What the abstract heap asks of a new block.                             *)
LEMMA NewBlockPlaced ==
  ASSUME HeapInv', NEW a, a \notin DOMAIN live, NEW n \in Requests, live' = Bind(live, a, n)
  PROVE  /\ a \in heap_base .. heap_base + heap_max_size - n
         /\ a % 8 = 0
         /\ \A q \in DOMAIN live : a + n <= q \/ q + live[q] <= a
<1>1. /\ a \in DOMAIN live' /\ live'[a] = n
      /\ \A q \in DOMAIN live : q \in DOMAIN live' /\ live'[q] = live[q] /\ q # a
  BY DEF Bind
<1>2. PICK p : p = mem2chunk(a)
  OBVIOUS
<1>3. PICK head : head = ctx'.head
  OBVIOUS
<1>4. ASSUME NEW b \in DOMAIN live'
      PROVE  /\ b \in Nat /\ live'[b] \in Nat /\ mem2chunk(b) \in Nat /\ b = mem2chunk(b) + 8
             /\ mem2chunk(b) \in DOMAIN head /\ mem2chunk(b) % 8 = 0 /\ heap_base <= mem2chunk(b)
             /\ After(head, mem2chunk(b)) \in Nat
             /\ mem2chunk(b) + live'[b] + 4 <= After(head, mem2chunk(b))
             /\ After(head, mem2chunk(b)) <= Limit
  <2>1. Holds(ctx', live')
    BY HoldsOf
  <2>2. /\ b \in Nat /\ live'[b] \in Nat /\ mem2chunk(b) \in Nat /\ b = mem2chunk(b) + 8
        /\ mem2chunk(b) \in DOMAIN ctx'.head /\ mem2chunk(b) % 8 = 0
        /\ heap_base <= mem2chunk(b)
        /\ ctx'.head[mem2chunk(b)].size \in Nat
        /\ live'[b] + 4 <= ctx'.head[mem2chunk(b)].size
        /\ After(ctx'.head, mem2chunk(b)) = mem2chunk(b) + ctx'.head[mem2chunk(b)].size
        /\ After(ctx'.head, mem2chunk(b)) <= Limit
    BY <2>1, BlockPlace
  <2>. QED BY <1>3, <2>2
<1>5. /\ a \in Nat /\ n \in Nat /\ p \in Nat /\ a = p + 8 /\ p \in DOMAIN head /\ p % 8 = 0
      /\ heap_base <= p /\ After(head, p) \in Nat /\ p + n + 4 <= After(head, p)
      /\ After(head, p) <= Limit
  BY <1>1, <1>2, <1>4
<1>6. a \in heap_base .. heap_base + heap_max_size - n
  <2>1. a + n <= heap_base + heap_max_size /\ heap_base <= a
    BY <1>5, HeapNumbers DEF Limit
  <2>. QED BY <1>5, <2>1, HeapNumbers
<1>7. a % 8 = 0
  BY <1>5
<1>8. ASSUME NEW q \in DOMAIN live PROVE a + n <= q \/ q + live[q] <= a
  <2>1. PICK r : r = mem2chunk(q)
    OBVIOUS
  <2>2. /\ q \in Nat /\ live[q] \in Nat /\ r \in Nat /\ q = r + 8 /\ r \in DOMAIN head
        /\ After(head, r) \in Nat /\ r + live[q] + 4 <= After(head, r) /\ r # p
    BY <1>1, <1>4, <1>5, <2>1
  <2>3. p = r \/ After(head, p) <= r \/ After(head, r) <= p
    BY <1>3, <1>5, <2>2, HoldsOf, Apart
  <2>. QED BY <1>5, <2>2, <2>3
<1>. QED BY <1>6, <1>7, <1>8

(* Every step is one of the abstract heap, or none.                        *)
LEMMA AbstractStep ==
  ASSUME HeapInv', Answered
  PROVE  [Abstract!Next]_live
<1>1. CASE live' = live
  BY <1>1
<1>2. CASE \E a : \E n \in Requests : Given(a, n)
  <2>1. PICK a, n : n \in Requests /\ Given(a, n)
    BY <1>2
  <2>2. a \notin DOMAIN live /\ live' = Bind(live, a, n)
    BY <2>1 DEF Given
  <2>3. /\ a \in heap_base .. heap_base + heap_max_size - n
        /\ a % 8 = 0
        /\ \A q \in DOMAIN live : a + n <= q \/ q + live[q] <= a
    BY <2>1, <2>2, NewBlockPlaced
  <2>4. a \in Abstract!Places(n)
    BY <2>3 DEF Abstract!Places, MALLOC_ALIGNMENT
  <2>5. Abstract!Malloc(n)
    BY <2>2, <2>4 DEF Abstract!Malloc, Bind
  <2>. QED BY <2>1, <2>5 DEF Abstract!Next
<1>3. CASE \E a \in DOMAIN live : Returned(a)
  <2>1. PICK a \in DOMAIN live : Returned(a)
    BY <1>3
  <2>2. Abstract!Free(a)
    BY <2>1 DEF Returned, Abstract!Free
  <2>. QED BY <2>1, <2>2 DEF Abstract!Next
<1>. QED BY <1>1, <1>2, <1>3 DEF Answered

-----------------------------------------------------------------------------
(* What the users of a heap rely on.                                       *)

(* The blocks of a heap are aligned, inside it, and so far apart that two  *)
(* blocks without a byte have different addresses.                         *)
Usable(lv) ==
  \A a \in DOMAIN lv :
    /\ a \in Nat /\ lv[a] \in Nat /\ lv[a] \in Requests /\ a % 8 = 0
    /\ heap_base < a /\ a < Limit /\ a + lv[a] <= heap_base + heap_max_size
    /\ \A b \in DOMAIN lv : a # b => a + lv[a] < b \/ b + lv[b] < a

LEMMA BlocksUsable ==
  ASSUME HeapInv
  PROVE  /\ Usable(live)
         /\ live # << >> => ctx.heap_end = Limit
         /\ ctx.heap_end \in {0, Limit}
<1>1. PICK head : head = ctx.head
  OBVIOUS
<1>2. ASSUME NEW a \in DOMAIN live
      PROVE  /\ a \in Nat /\ live[a] \in Nat /\ live[a] \in Requests
             /\ mem2chunk(a) \in Nat /\ a = mem2chunk(a) + 8
             /\ mem2chunk(a) \in DOMAIN head /\ mem2chunk(a) % 8 = 0 /\ heap_base <= mem2chunk(a)
             /\ After(head, mem2chunk(a)) \in Nat
             /\ mem2chunk(a) + live[a] + 4 <= After(head, mem2chunk(a))
             /\ After(head, mem2chunk(a)) <= Limit
  <2>1. Holds(ctx, live)
    BY HoldsOf
  <2>2. /\ a \in Nat /\ live[a] \in Nat /\ live[a] \in Requests
        /\ mem2chunk(a) \in Nat /\ a = mem2chunk(a) + 8
        /\ mem2chunk(a) \in DOMAIN ctx.head /\ mem2chunk(a) % 8 = 0
        /\ heap_base <= mem2chunk(a)
        /\ ctx.head[mem2chunk(a)].size \in Nat
        /\ live[a] + 4 <= ctx.head[mem2chunk(a)].size
        /\ After(ctx.head, mem2chunk(a)) = mem2chunk(a) + ctx.head[mem2chunk(a)].size
        /\ After(ctx.head, mem2chunk(a)) <= Limit
    BY <2>1, BlockPlace
  <2>. QED BY <1>1, <2>2
<1>3. ASSUME NEW a \in DOMAIN live
      PROVE  /\ a \in Nat /\ live[a] \in Nat /\ live[a] \in Requests /\ a % 8 = 0
             /\ heap_base < a /\ a < Limit
             /\ a + live[a] <= heap_base + heap_max_size
  <2>1. PICK p : p = mem2chunk(a)
    OBVIOUS
  <2>2. /\ p \in Nat /\ a = p + 8 /\ p % 8 = 0 /\ heap_base <= p /\ After(head, p) \in Nat
        /\ live[a] \in Nat /\ p + live[a] + 4 <= After(head, p) /\ After(head, p) <= Limit
        /\ p + 16 <= After(head, p)
    <3>1. p + 16 <= After(head, p)
      BY <1>1, <1>2, <2>1, HoldsOf, Apart
    <3>. QED BY <1>2, <2>1, <3>1
  <2>3. heap_base \in Nat /\ heap_max_size \in Nat /\ Limit = heap_base + heap_max_size - 4
    BY HeapNumbers DEF Limit
  <2>4. a % 8 = 0
    BY <2>2
  <2>5. a < Limit /\ heap_base < a /\ a + live[a] <= heap_base + heap_max_size
    BY <2>2, <2>3
  <2>. QED BY <1>2, <2>4, <2>5
<1>4. ASSUME NEW a \in DOMAIN live, NEW b \in DOMAIN live, a # b
      PROVE  a + live[a] < b \/ b + live[b] < a
  <2>1. PICK p, q : p = mem2chunk(a) /\ q = mem2chunk(b)
    OBVIOUS
  <2>2. /\ p \in Nat /\ q \in Nat /\ a = p + 8 /\ b = q + 8 /\ p # q
        /\ p \in DOMAIN head /\ q \in DOMAIN head
        /\ After(head, p) \in Nat /\ After(head, q) \in Nat
        /\ p + live[a] + 4 <= After(head, p) /\ q + live[b] + 4 <= After(head, q)
        /\ live[a] \in Nat /\ live[b] \in Nat
    BY <1>2, <1>4, <2>1
  <2>3. After(head, p) <= q \/ After(head, q) <= p
    BY <1>1, <2>2, HoldsOf, Apart
  <2>. QED BY <2>2, <2>3
<1>5. ASSUME live # << >> PROVE ctx.heap_end = Limit
  <2>1. PICK a : a \in DOMAIN live
    <3>1. live = [p \in DOMAIN live |-> live[p]]
      BY DEF HeapInv, Blocks
    <3>. QED BY <1>5, <3>1
  <2>2. mem2chunk(a) \in DOMAIN ctx.head
    BY <1>1, <1>2, <2>1
  <2>3. Good(ctx, InUse) /\ Tiled(ctx.head, ctx.top, InUse)
    BY Words
  <2>4. ctx.top # NoChunk
    BY <2>2, <2>3 DEF Tiled, Covered
  <2>. QED BY <2>3, <2>4 DEF Good
<1>6. ctx.heap_end \in {0, Limit}
  <2>1. Good(ctx, InUse)
    BY Words
  <2>. QED BY <2>1 DEF Good
<1>. QED BY <1>3, <1>4, <1>5, <1>6 DEF Usable

(* A request hands out one block of the size asked, or none.               *)
LEMMA MallocAnswers ==
  ASSUME HeapInv, NEW bytes \in Requests, mALLOc(bytes)
  PROVE  /\ HeapInv'
         /\ live' = live \/ \E a : Given(a, bytes)
<1>1. HeapInv' /\ Answered
  BY MallocStep
<1>2. live' = live \/ \E a : live' = Bind(live, a, bytes)
  <2>1. CASE Refuse(bytes)
    BY <2>1 DEF Refuse, vars
  <2>2. CASE TakeExact(bytes)
    BY <2>2 DEF TakeExact, Allocate
  <2>3. CASE TakeRemainder(bytes)
    BY <2>3 DEF TakeRemainder, Allocate
  <2>4. CASE Search(bytes)
    <3>1. \/ \E c, p : Allocate(c, p, bytes)
          \/ live' = live
      BY <2>4, Zenon DEF Search
    <3>. QED BY <3>1 DEF Allocate
  <2>. QED BY <2>1, <2>2, <2>3, <2>4 DEF mALLOc
<1>3. CASE live' = live
  BY <1>1, <1>3
<1>4. CASE live' # live
  <2>1. PICK a : live' = Bind(live, a, bytes)
    BY <1>2, <1>4
  <2>2. DOMAIN live' = DOMAIN live \cup {a} /\ live'[a] = bytes
    BY <2>1 DEF Bind
  <2>3. CASE \E b : \E n \in Requests : Given(b, n)
    <3>1. PICK b, n : n \in Requests /\ Given(b, n)
      BY <2>3
    <3>2. b \notin DOMAIN live /\ DOMAIN live' = DOMAIN live \cup {b}
      BY <3>1 DEF Given, Bind
    <3>3. a = b
      BY <2>2, <3>2
    <3>. QED BY <1>1, <2>1, <3>2, <3>3 DEF Given
  <2>4. CASE \E b \in DOMAIN live : Returned(b)
    <3>1. PICK b \in DOMAIN live : Returned(b)
      BY <2>4
    <3>2. DOMAIN live' = DOMAIN live \ {b}
      BY <3>1 DEF Returned
    <3>. QED BY <2>2, <3>1, <3>2
  <2>. QED BY <1>1, <1>4, <2>3, <2>4 DEF Answered
<1>. QED BY <1>3, <1>4

-----------------------------------------------------------------------------
(* The theorems.                                                           *)

(* The context of a heap keeps its types (Heap_ctx, struct malloc_chunk).  *)
THEOREM TypeCorrect == Spec => []TypeOK
BY HeapInvariant, TypesFollow, PTL

(* The boundary tags hold: chunks follow each other without a gap from the *)
(* start of the heap to the end of the top, and the words on both sides of *)
(* every border agree, so that free finds its neighbours.                  *)
THEOREM TagsAgree == Spec => []BoundaryTags
BY HeapInvariant, TagsFollow, PTL

(* free merges all that can be merged: no two free chunks touch.           *)
THEOREM Merged == Spec => []Consolidated
BY HeapInvariant, ConsolidationFollows, PTL

(* Every free chunk is on the list where malloc looks for it, once, in     *)
(* order, under a mark, or is the last remainder.                          *)
THEOREM AllFiled == Spec => []FreeChunksFiled
BY HeapInvariant, FilingFollows, PTL

(* The early failure of malloc knows of the top and of every large block.  *)
THEOREM LargeKnown == Spec => []LargeBlocksKnown
BY HeapInvariant, KnowledgeFollows, PTL

(* The allocator writes nothing into a block of the program.               *)
THEOREM Untouched == Spec => []BlocksUntouched
BY HeapInvariant, BlocksClear, PTL

(* malloc chooses by best fit.                                             *)
THEOREM BestFits == Spec => BestFit
<1>1. HeapInv /\ HeapInv' /\ [Next]_vars => [TakesBest]_vars
  BY HeapInvStep
<1>2. HeapInv /\ HeapInv' /\ [TakesBest]_vars =>
        [\A ptr \in DOMAIN live' \ DOMAIN live :
           LET p == mem2chunk(ptr)
               nb == request2size(live'[ptr])
               fits == {q \in FreeChunks : chunksize(ctx, q) >= nb}
           IN /\ p = ctx.top => fits = {}
              /\ p \in FreeChunks \ {ctx.last_remainder} =>
                   \A q \in fits : \/ chunksize(ctx, q) >= chunksize(ctx, p)
                                   \/ chunksize(ctx, p) - nb < MINSIZE]_vars
  <2>1. CASE UNCHANGED vars
    BY <2>1
  <2>2. CASE TakesBest
    BY <2>2, ChoiceFollows, Zenon
  <2>. QED BY <2>1, <2>2
<1>. QED BY <1>1, <1>2, HeapInvariant, PTL DEF Spec, BestFit

(* The heap is a BlockHeap: blocks are aligned parts of the heap that      *)
(* never overlap, and only the program gives them back.                    *)
THEOREM Refinement == Spec => ImplementsBlockHeap
<1>1. Init => Abstract!Init
  BY DEF Init, Abstract!Init
<1>2. HeapInv /\ HeapInv' /\ [Next]_vars => [Abstract!Next]_live
  <2>. SUFFICES ASSUME HeapInv, HeapInv', [Next]_vars PROVE [Abstract!Next]_live
    OBVIOUS
  <2>1. live' = live \/ Answered
    BY HeapInvStep
  <2>. QED BY <2>1, AbstractStep
<1>. QED BY <1>1, <1>2, HeapInvariant, PTL DEF Spec, ImplementsBlockHeap, Abstract!Spec
=============================================================================
