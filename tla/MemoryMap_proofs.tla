-------------------------- MODULE MemoryMap_proofs --------------------------
(***************************************************************************)
(* Proofs about the memory map, for every footprint within the bounds of   *)
(* MemoryMapAssumption and every architecture.  The inductive invariant is *)
(* MapInv: what each stage of sc_main has made of the parameters.          *)
(***************************************************************************)
EXTENDS MemoryMap, SequenceTheorems, TLAPS

Between(x, low, high) == x \in Nat /\ low <= x /\ x <= high

(* The memory architecture descriptor has one heap, or two, one behind the *)
(* other, the first a multiple of 16.                                      *)
ArchitectureRight ==
  /\ dy_mem_arch \in Seq([base_ad : Nat, size : Nat]) /\ Len(dy_mem_arch) \in {1, 2}
  /\ dy_mem_arch[1].base_ad = HEAP_BASE /\ Between(dy_mem_arch[1].size, 32, 134217744)
  /\ Len(dy_mem_arch) = 2 =>
       /\ dy_mem_arch[1].size % 16 = 0
       /\ dy_mem_arch[2].base_ad = HEAP_BASE + dy_mem_arch[1].size
       /\ Between(dy_mem_arch[2].size, 32, 67108880)

PlatformRight ==
  /\ m_sizes = <<SPM_I_SIZE, SPM_D_SIZE, SPM_S_SIZE>> \o [h \in Heaps |-> dy_mem_arch[h].size]
  /\ bank_base = set_bank_base_address
  /\ intervals = bind_targets

HeapsKnown ==
  multi_heap_ctx = [x \in 1 .. Len(dy_mem_arch) |->
                      [heap_base |-> HEAP_X_BASE(x), heap_max_size |-> HEAP_X_SIZE(x)]]

MapInv ==
  /\ Architecture \in Architectures /\ app_footprint \in Footprints
  /\ \/ stage = "parameters" /\ dy_mem_arch = << >> /\ multi_heap_ctx = << >>
     \/ stage = "architecture" /\ ArchitectureRight /\ multi_heap_ctx = << >>
     \/ /\ stage = "elaborated" /\ ArchitectureRight /\ PlatformRight
        /\ multi_heap_ctx = << >> \/ HeapsKnown
  /\ ProgramReachesBanks /\ HeapAccessesLogged
-----------------------------------------------------------------------------
(* The rounding stays within 8 bytes, and gives a multiple of 16.          *)
LEMMA Align ==
  ASSUME NEW x \in Nat
  PROVE  /\ dycton_align_16(x) \in Nat /\ dycton_align_16(x) % 16 = 0
         /\ x - 7 <= dycton_align_16(x) /\ dycton_align_16(x) <= x + 8
BY SMT DEF dycton_align_16

(* The fast heap is from a twentieth of the footprint to twice it.         *)
LEMMA FastSize ==
  ASSUME Architecture \in Architectures \ SingleHeap, app_footprint \in Footprints
  PROVE  Between(fast_heap_sz, 24, 134217728)
<1>1. Between(app_footprint, 480, 67108864)
  BY SMT, MemoryMapAssumption DEF Between
<1>2. Architecture \in {-2, 1, 2, 3, 4, 5}
  BY SMT DEF Architectures, SingleHeap
<1>3. CASE Architecture = -2
  BY SMT, <1>1, <1>3 DEF fast_heap_sz, Between
<1>4. CASE Architecture = 1
  BY SMT, <1>1, <1>4 DEF fast_heap_sz, Between
<1>5. CASE Architecture = 2
  BY SMT, <1>1, <1>5 DEF fast_heap_sz, Between
<1>6. CASE Architecture = 3
  BY SMT, <1>1, <1>6 DEF fast_heap_sz, Between
<1>7. CASE Architecture = 4
  BY SMT, <1>1, <1>7 DEF fast_heap_sz, Between
<1>8. CASE Architecture = 5
  BY SMT, <1>1, <1>8 DEF fast_heap_sz, Between
<1>. QED BY SMT, <1>2, <1>3, <1>4, <1>5, <1>6, <1>7, <1>8

(* The descriptor sc_main builds. *)
LEMMA BuildRight ==
  ASSUME MapInv, BuildMemArchi
  PROVE  ArchitectureRight'
<1>1. /\ Architecture \in Architectures /\ app_footprint \in Footprints
      /\ Between(app_footprint, 480, 67108864) /\ Between(IdealSize, 480, 67108864) /\ HEAP_BASE \in Nat
  BY SMT, MemoryMapAssumption DEF Between, MapInv, HEAP_BASE, STACK_TOP, DATA_BASE, DATA_SIZE, STACK_SIZE
<1>2. CASE Architecture \in SingleHeap
  <2>1. PICK n : Between(n, 480, 67108864) /\ dy_mem_arch' = <<Bank(HEAP_BASE, n)>>
    BY SMT, <1>1, <1>2 DEF BuildMemArchi
  <2>. QED BY SMT, <1>1, <2>1 DEF ArchitectureRight, Between, Bank
<1>3. CASE Architecture \notin SingleHeap
  <2>1. Between(fast_heap_sz, 24, 134217728)
    BY SMT, <1>1, <1>3, FastSize
  <2>2. PICK f : f = dycton_align_16(fast_heap_sz)
    OBVIOUS
  <2>3. Between(f, 17, 134217736) /\ f % 16 = 0
    <3>1. \A x \in Nat : /\ dycton_align_16(x) \in Nat /\ dycton_align_16(x) % 16 = 0
                         /\ x - 7 <= dycton_align_16(x) /\ dycton_align_16(x) <= x + 8
      BY SMT, Align
    <3>2. /\ f \in Nat /\ f % 16 = 0
          /\ fast_heap_sz - 7 <= f /\ f <= fast_heap_sz + 8
      BY <2>1, <2>2, <3>1, SMT DEF Between
    <3>. QED BY SMT, <2>1, <3>2 DEF Between
  <2>4. Between(f, 32, 134217736)
    BY SMT, <2>3 DEF Between
  <2>5. PICK s : s = slow_heap_sz
    OBVIOUS
  <2>6. Between(s, 32, 67108880)
    <3>1. app_footprint \in Nat
      BY SMT, <1>1 DEF Between
    <3>2. s \in Nat /\ app_footprint - 7 <= s /\ s <= app_footprint + 8
      BY SMT, <2>5, <3>1, Align DEF slow_heap_sz
    <3>. QED BY SMT, <1>1, <3>2 DEF Between
  <2>7. dy_mem_arch' = <<Bank(HEAP_BASE, f), Bank(HEAP_BASE + f, s)>>
    BY SMT, <1>3, <2>2, <2>5 DEF BuildMemArchi
  <2>. QED BY SMT, <1>1, <2>3, <2>4, <2>6, <2>7 DEF ArchitectureRight, Between, Bank
<1>. QED BY SMT, <1>2, <1>3

(* The banks of the sections, followed by those of the heaps. *)
LEMMA Joined ==
  ASSUME NEW n \in {1, 2}, NEW f, f = [h \in 1 .. n |-> f[h]], NEW a, NEW b, NEW c, NEW s, s = <<a, b, c>> \o f
  PROVE  /\ Len(s) = 3 + n /\ DOMAIN s = 1 .. (3 + n)
         /\ s[1] = a /\ s[2] = b /\ s[3] = c /\ s[4] = f[1]
         /\ n = 2 => s[5] = f[2]
BY SMT

(* The addresses and sizes of the sections. *)
LEMMA Numbers ==
  /\ TEXT_BASE = 4194304 /\ TEXT_SIZE = 524288 /\ DATA_BASE = 268435456 /\ DATA_SIZE = 524288
  /\ STACK_SIZE = 524288 /\ DATA_BASE + DATA_SIZE = 268959744 /\ HEAP_BASE = 269484032
  /\ Fixed = 1572864
BY SMT DEF TEXT_BASE, TEXT_SIZE, DATA_BASE, DATA_SIZE, STACK_SIZE, HEAP_BASE, STACK_TOP,
   Fixed, SPM_I_SIZE, SPM_D_SIZE, SPM_S_SIZE

(* An elaborated platform with n heaps, of c and (if there are two) d      *)
(* bytes: its banks, one by one.                                           *)
HeapsOf(n, c, d) ==
  /\ n \in {1, 2} /\ Between(c, 32, 134217744) /\ Between(d, 32, 67108880)
  /\ Len(dy_mem_arch) = n /\ Heaps = 1 .. n
  /\ dy_mem_arch[1].size = c /\ dy_mem_arch[1].base_ad = HEAP_BASE
  /\ n = 2 => dy_mem_arch[2].size = d /\ dy_mem_arch[2].base_ad = HEAP_BASE + c /\ c % 16 = 0

BanksOf(n, c, d) ==
  /\ Len(m_sizes) = 3 + n /\ Banks = 1 .. (3 + n) /\ Len(bank_base) = 3 + n
  /\ m_sizes[1] = TEXT_SIZE /\ m_sizes[2] = DATA_SIZE /\ m_sizes[3] = STACK_SIZE
  /\ m_sizes[4] = c /\ (n = 2 => m_sizes[5] = d)
  /\ bank_base[1] = TEXT_BASE /\ bank_base[2] = DATA_BASE
  /\ bank_base[3] = DATA_BASE + DATA_SIZE
  /\ bank_base[4] = HEAP_BASE /\ (n = 2 => bank_base[5] = HEAP_BASE + c)

LEMMA BankFacts ==
  ASSUME ArchitectureRight, PlatformRight
  PROVE  \E n, c, d : HeapsOf(n, c, d) /\ BanksOf(n, c, d)
<1>1. PICK n \in {1, 2} : n = Len(dy_mem_arch)
  BY SMT DEF ArchitectureRight
<1>2. Heaps = 1 .. n
  BY SMT, <1>1 DEF Heaps, ArchitectureRight
<1>3. PICK f : f = [h \in 1 .. n |-> dy_mem_arch[h].size]
  OBVIOUS
<1>4. PICK g : g = [h \in 1 .. n |-> dy_mem_arch[h].base_ad]
  OBVIOUS
<1>5. /\ m_sizes = <<SPM_I_SIZE, SPM_D_SIZE, SPM_S_SIZE>> \o f
      /\ bank_base = <<TEXT_BASE, DATA_BASE, DATA_BASE + DATA_SIZE>> \o g
  BY SMT, <1>2, <1>3, <1>4 DEF PlatformRight, set_bank_base_address
<1>6. /\ f = [h \in 1 .. n |-> f[h]] /\ g = [h \in 1 .. n |-> g[h]]
      /\ f[1] = dy_mem_arch[1].size /\ g[1] = dy_mem_arch[1].base_ad
      /\ n = 2 => f[2] = dy_mem_arch[2].size /\ g[2] = dy_mem_arch[2].base_ad
  BY SMT, <1>3, <1>4
<1>7. /\ Len(m_sizes) = 3 + n /\ Banks = 1 .. (3 + n)
      /\ m_sizes[1] = SPM_I_SIZE /\ m_sizes[2] = SPM_D_SIZE /\ m_sizes[3] = SPM_S_SIZE
      /\ m_sizes[4] = f[1] /\ (n = 2 => m_sizes[5] = f[2])
  BY <1>5, <1>6, Joined, SMT DEF Banks
<1>8. /\ Len(bank_base) = 3 + n
      /\ bank_base[1] = TEXT_BASE /\ bank_base[2] = DATA_BASE /\ bank_base[3] = DATA_BASE + DATA_SIZE
      /\ bank_base[4] = g[1] /\ (n = 2 => bank_base[5] = g[2])
  BY <1>5, <1>6, Joined, SMT
<1>9. /\ dy_mem_arch[1].base_ad = HEAP_BASE /\ Between(dy_mem_arch[1].size, 32, 134217744)
      /\ n = 2 => /\ dy_mem_arch[1].size % 16 = 0
                  /\ dy_mem_arch[2].base_ad = HEAP_BASE + dy_mem_arch[1].size
                  /\ Between(dy_mem_arch[2].size, 32, 67108880)
  BY SMT, <1>1 DEF ArchitectureRight
<1>10. PICK c : c = dy_mem_arch[1].size
  OBVIOUS
<1>11. PICK d : d = IF n = 2 THEN dy_mem_arch[2].size ELSE 32
  OBVIOUS
<1>12. Between(d, 32, 67108880)
  BY SMT, <1>9, <1>11 DEF Between
<1>13. HeapsOf(n, c, d)
  BY SMT, <1>1, <1>2, <1>9, <1>10, <1>11, <1>12 DEF HeapsOf
<1>14. BanksOf(n, c, d)
  <2>1. /\ m_sizes[1] = TEXT_SIZE /\ m_sizes[2] = DATA_SIZE /\ m_sizes[3] = STACK_SIZE
        /\ m_sizes[4] = c /\ (n = 2 => m_sizes[5] = d)
    BY SMT, <1>6, <1>7, <1>10, <1>11 DEF SPM_I_SIZE, SPM_D_SIZE, SPM_S_SIZE
  <2>2. bank_base[4] = HEAP_BASE /\ (n = 2 => bank_base[5] = HEAP_BASE + c)
    BY SMT, <1>6, <1>8, <1>9, <1>10
  <2>. QED BY SMT, <1>7, <1>8, <2>1, <2>2 DEF BanksOf
<1>. QED BY <1>13, <1>14, Zenon


(* The search of the scratch pad memory has one result. *)
LEMMA OneBank ==
  ASSUME NEW m \in {4, 5}, Banks = 1 .. m, Len(m_sizes) = m, NEW addr \in Nat, NEW b \in Banks,
         \A c \in 1 .. b - 1 : Behind(addr, c), b = m \/ ~Behind(addr, b)
  PROVE  BankOf(addr) = b
<1>1. ASSUME NEW d \in Banks, \A c \in 1 .. d - 1 : Behind(addr, c), d = Len(m_sizes) \/ ~Behind(addr, d)
      PROVE  d = b
  BY SMT, <1>1
<1>. QED BY <1>1, Zenon DEF BankOf

(* Where bank b begins in the scratch pad memory, its size and its base.   *)
Place(b, c, d, begin, size, base) ==
  \/ b = 1 /\ begin = 0 /\ size = 524288 /\ base = 4194304
  \/ b = 2 /\ begin = 524288 /\ size = 524288 /\ base = 268435456
  \/ b = 3 /\ begin = 1048576 /\ size = 524288 /\ base = 268959744
  \/ b = 4 /\ begin = 1572864 /\ size = c /\ base = 269484032
  \/ b = 5 /\ begin = 1572864 + c /\ size = d /\ base = 269484032 + c

LEMMA BankPlace ==
  ASSUME NEW n, NEW c, NEW d, HeapsOf(n, c, d), BanksOf(n, c, d), NEW b \in Banks
  PROVE  /\ b \in {1, 2, 3, 4, 5} /\ (b = 5 => n = 2)
         /\ Place(b, c, d, SizeUpTo(b), m_sizes[b], bank_base[b])
<1>1. n \in {1, 2} /\ c \in Nat /\ Banks = 1 .. (3 + n)
  BY SMT DEF HeapsOf, BanksOf, Between
<1>2. b \in {1, 2, 3, 4, 5} /\ (b = 5 => n = 2)
  BY SMT, <1>1
<1>3. /\ m_sizes[1] = 524288 /\ m_sizes[2] = 524288 /\ m_sizes[3] = 524288
      /\ m_sizes[4] = c /\ (n = 2 => m_sizes[5] = d)
  BY SMT, Numbers DEF BanksOf
<1>4. /\ bank_base[1] = 4194304 /\ bank_base[2] = 268435456 /\ bank_base[3] = 268959744
      /\ bank_base[4] = 269484032 /\ (n = 2 => bank_base[5] = 269484032 + c)
  BY SMT, Numbers DEF BanksOf
<1>5. CASE b = 1
  BY SMT, <1>3, <1>4, <1>5 DEF Place, SizeUpTo
<1>6. CASE b = 2
  BY SMT, <1>3, <1>4, <1>6 DEF Place, SizeUpTo
<1>7. CASE b = 3
  BY SMT, <1>3, <1>4, <1>7 DEF Place, SizeUpTo
<1>8. CASE b = 4
  BY SMT, <1>3, <1>4, <1>8 DEF Place, SizeUpTo
<1>9. CASE b = 5
  BY SMT, <1>1, <1>2, <1>3, <1>4, <1>9 DEF Place, SizeUpTo
<1>. QED BY SMT, <1>2, <1>5, <1>6, <1>7, <1>8, <1>9

(* The memory all banks make up, and the end of the last heap.             *)
LEMMA Totals ==
  ASSUME NEW n, NEW c, NEW d, HeapsOf(n, c, d)
  PROVE  /\ n = 1 => m_spm_size = 1572864 + c /\ heap_end = 269484032 + c
         /\ n = 2 => m_spm_size = 1572864 + c + d /\ heap_end = 269484032 + c + d
<1>1. /\ c \in Nat /\ d \in Nat /\ Len(dy_mem_arch) = n /\ Heaps = 1 .. n
      /\ dy_mem_arch[1].size = c /\ dy_mem_arch[1].base_ad = 269484032
      /\ n = 2 => dy_mem_arch[2].size = d /\ dy_mem_arch[2].base_ad = 269484032 + c
  BY SMT, Numbers DEF HeapsOf, Between
<1>2. Fixed = 1572864
  BY SMT, Numbers
<1>3. n = 1 => Heaps = {1}
  BY SMT, <1>1
<1>4. n = 2 => Heaps # {1}
  <2>1. n = 2 => 2 \in Heaps
    BY SMT, <1>1
  <2>. QED BY SMT, <2>1
<1>5. n = 1 => m_spm_size = 1572864 + c
  BY SMT, <1>1, <1>2, <1>3 DEF m_spm_size, spm_tot_size
<1>6. n = 2 => m_spm_size = 1572864 + c + d
  BY SMT, <1>1, <1>2, <1>4 DEF m_spm_size, spm_tot_size
<1>7. n = 1 => heap_end = 269484032 + c
  BY SMT, <1>1 DEF heap_end, LastBank
<1>8. n = 2 => heap_end = 269484032 + c + d
  BY SMT, <1>1 DEF heap_end, LastBank
<1>. QED BY SMT, <1>5, <1>6, <1>7, <1>8

(* An access to a word of a bank: the wrapper sends it to the scratch pad  *)
(* memory, it arrives in that bank, which holds it, and the banks of the   *)
(* heaps log it.                                                           *)
LEMMA ArrivesAt ==
  ASSUME ArchitectureRight, PlatformRight, NEW b \in Banks, NEW off \in Nat, off + 4 <= m_sizes[b],
         NEW a, a = bank_base[b] + off
  PROVE  Arrival(IF b = 1 THEN request_fetch(a) ELSE request_data(a)) =
           [socket |-> IF b = 1 THEN "i" ELSE "d", bank |-> b, word |-> off \div 4, stored |-> TRUE,
            log |-> IF b <= 3 THEN {} ELSE {a}]
<1>1. PICK n, c, d : HeapsOf(n, c, d) /\ BanksOf(n, c, d)
  BY Zenon, BankFacts
<1>2. PICK begin, size, base : begin = SizeUpTo(b) /\ size = m_sizes[b] /\ base = bank_base[b]
  OBVIOUS
<1>3. b \in {1, 2, 3, 4, 5} /\ (b = 5 => n = 2) /\ Place(b, c, d, begin, size, base)
  BY Zenon, <1>1, <1>2, BankPlace
<1>4. n \in {1, 2} /\ c \in Nat /\ d \in Nat /\ c >= 32 /\ d >= 32
  BY SMT, <1>1 DEF HeapsOf, Between
<1>5. /\ n = 1 => m_spm_size = 1572864 + c /\ heap_end = 269484032 + c
      /\ n = 2 => m_spm_size = 1572864 + c + d /\ heap_end = 269484032 + c + d
  BY SMT, <1>1, Totals
<1>6. begin \in Nat /\ size \in Nat /\ base \in Nat /\ off + 4 <= size /\ a = base + off
  BY SMT, <1>2, <1>3, <1>4 DEF Place
<1>7. PICK way : way = IF b = 1 THEN request_fetch(a) ELSE request_data(a)
  OBVIOUS
<1>8. way.addr = begin + off /\ way.socket = IF b = 1 THEN "i" ELSE "d"
  <2>1. CASE b = 1
    <3>1. begin = 0 /\ base = 4194304 /\ size = 524288
      BY SMT, <1>3, <2>1 DEF Place
    <3>2. TEXT_BASE = 4194304
      BY SMT, Numbers
    <3>3. TEXT_BASE <= a /\ a < TEXT_BASE + m_spm_size /\ a - TEXT_BASE = off
      BY SMT, <1>4, <1>5, <1>6, <3>1, <3>2
    <3>. QED BY SMT, <1>6, <1>7, <2>1, <3>1, <3>3 DEF request_fetch
  <2>2. CASE b # 1
    <3>1. base - 268435456 + 524288 = begin /\ base >= 268435456 /\ begin + size <= m_spm_size
      BY SMT, <1>3, <1>4, <1>5, <2>2 DEF Place
    <3>2. DATA_BASE = 268435456 /\ TEXT_SIZE = 524288
      BY SMT, Numbers
    <3>3. m_spm_size \in Nat
      BY SMT, <1>4, <1>5
    <3>4. DATA_BASE <= a /\ a < DATA_BASE + m_spm_size /\ a - DATA_BASE + TEXT_SIZE = begin + off
      BY SMT, <1>6, <3>1, <3>2, <3>3
    <3>. QED BY SMT, <1>7, <2>2, <3>4 DEF request_data
  <2>. QED BY SMT, <2>1, <2>2
<1>9. ASSUME NEW e \in 1 .. b - 1 PROVE Behind(way.addr, e)
  <2>1. e \in Banks /\ e < b /\ e \in {1, 2, 3, 4}
    BY SMT, <1>1, <1>3, <1>4 DEF BanksOf
  <2>2. Place(e, c, d, SizeUpTo(e), m_sizes[e], bank_base[e])
    BY Zenon, <1>1, <2>1, BankPlace
  <2>3. /\ SizeUpTo(e) \in Nat /\ m_sizes[e] \in Nat
        /\ SizeUpTo(e) + m_sizes[e] <= begin
    BY SMT, <1>3, <1>4, <2>1, <2>2 DEF Place
  <2>. QED BY SMT, <1>6, <1>8, <2>3 DEF Behind
<1>10. ~Behind(way.addr, b)
  BY SMT, <1>2, <1>6, <1>8 DEF Behind
<1>11. BankOf(way.addr) = b
  <2>1. way.addr \in Nat /\ 3 + n \in {4, 5}
    BY SMT, <1>4, <1>6, <1>8
  <2>2. Banks = 1 .. (3 + n) /\ Len(m_sizes) = 3 + n
    BY SMT, <1>1 DEF BanksOf
  <2>. QED BY Zenon, <1>9, <1>10, <2>1, <2>2, OneBank
<1>12. off \div 4 < m_sizes[b] \div 4
  BY SMT, <1>2, <1>6
<1>13. Logs(b) <=> ~(b <= 3)
  <2>1. HEAP_BASE = 269484032
    BY SMT, Numbers
  <2>. QED BY SMT, <1>2, <1>3, <1>4, <1>5, <2>1 DEF Logs, Place
<1>14. way.addr - SizeUpTo(b) = off /\ off + bank_base[b] = a
  BY SMT, <1>2, <1>6, <1>8
<1>15. Arrival(way) = [socket |-> way.socket, bank |-> b, word |-> off \div 4, stored |-> TRUE,
                       log |-> IF Logs(b) THEN {a} ELSE {}]
  <2>1. Arrival(way) = [socket |-> way.socket, bank |-> b, word |-> (way.addr - SizeUpTo(b)) \div 4,
                        stored |-> (way.addr - SizeUpTo(b)) \div 4 < m_sizes[b] \div 4,
                        log |-> IF Logs(b) THEN {way.addr - SizeUpTo(b) + bank_base[b]} ELSE {}]
    BY Zenon, <1>11 DEF Arrival
  <2>2. Arrival(way) = [socket |-> way.socket, bank |-> b, word |-> off \div 4,
                        stored |-> off \div 4 < m_sizes[b] \div 4,
                        log |-> IF Logs(b) THEN {a} ELSE {}]
    BY Zenon, <1>14, <2>1
  <2>3. (off \div 4 < m_sizes[b] \div 4) = TRUE
    BY SMT, <1>12
  <2>. QED BY Zenon, <2>2, <2>3
<1>16. CASE b <= 3
  <2>1. ~Logs(b)
    BY Zenon, <1>13, <1>16
  <2>. QED BY Zenon, <1>7, <1>8, <1>15, <1>16, <2>1
<1>17. CASE ~(b <= 3)
  <2>1. Logs(b)
    BY Zenon, <1>13, <1>17
  <2>. QED BY Zenon, <1>7, <1>8, <1>15, <1>17, <2>1
<1>. QED BY Zenon, <1>16, <1>17

-----------------------------------------------------------------------------
(* A region the program uses lies at the beginning of its bank.            *)
RegionIn(r, b) ==
  /\ b \in Banks /\ r.base = bank_base[b] /\ BankOfRegion[r.name] = b
  /\ r.size \in Nat /\ r.size >= 8 /\ r.size <= m_sizes[b] /\ r.base \in Nat
  /\ r.name = "text" <=> b = 1
  /\ r.name \in {"HEAP_0", "HEAP_1"} <=> ~ (b <= 3)

(* The bytes of a heap that chunks cover lie in the heap.                  *)
LEMMA ReclaimedInside ==
  ASSUME NEW h, NEW size \in Nat, h.heap_max_size = size, size >= 32
  PROVE  /\ Reclaimed(h) \in Nat /\ Reclaimed(h) > 16 /\ Reclaimed(h) <= size
BY SMT DEF Reclaimed

LEMMA RegionPlace ==
  ASSUME ArchitectureRight, PlatformRight, multi_heap_ctx = << >> \/ HeapsKnown, NEW r \in Regions
  PROVE  \E b : RegionIn(r, b)
<1>1. PICK n, c, d : HeapsOf(n, c, d) /\ BanksOf(n, c, d)
  BY Zenon, BankFacts
<1>2. /\ n \in {1, 2} /\ Banks = 1 .. (3 + n)
      /\ c \in Nat /\ d \in Nat /\ c >= 32 /\ d >= 32
  BY SMT, <1>1 DEF HeapsOf, BanksOf, Between
<1>3. CASE r = Region("text", TEXT_BASE, TEXT_SIZE)
  <2>1. r.name = "text" /\ r.base = bank_base[1] /\ r.size = m_sizes[1] /\ r.base \in Nat /\ r.size = 524288
    BY SMT, <1>1, <1>3, Numbers DEF BanksOf, Region
  <2>2. 1 \in Banks
    BY SMT, <1>2
  <2>3. RegionIn(r, 1)
    BY SMT, <2>1, <2>2 DEF RegionIn, BankOfRegion
  <2>. QED BY Zenon, <2>3
<1>4. CASE r = Region("data", DATA_BASE, DATA_SIZE)
  <2>1. r.name = "data" /\ r.base = bank_base[2] /\ r.size = m_sizes[2] /\ r.base \in Nat /\ r.size = 524288
    BY SMT, <1>1, <1>4, Numbers DEF BanksOf, Region
  <2>2. 2 \in Banks
    BY SMT, <1>2
  <2>3. RegionIn(r, 2)
    BY SMT, <2>1, <2>2 DEF RegionIn, BankOfRegion
  <2>. QED BY Zenon, <2>3
<1>5. CASE r = Region("stack", DATA_BASE + DATA_SIZE, STACK_SIZE)
  <2>1. r.name = "stack" /\ r.base = bank_base[3] /\ r.size = m_sizes[3] /\ r.base \in Nat /\ r.size = 524288
    BY SMT, <1>1, <1>5, Numbers DEF BanksOf, Region
  <2>2. 3 \in Banks
    BY SMT, <1>2
  <2>3. RegionIn(r, 3)
    BY SMT, <2>1, <2>2 DEF RegionIn, BankOfRegion
  <2>. QED BY Zenon, <2>3
<1>6. CASE \E x \in DOMAIN multi_heap_ctx :
             r = Region(<<"HEAP_0", "HEAP_1">>[x], multi_heap_ctx[x].heap_base, Reclaimed(multi_heap_ctx[x]))
  <2>1. PICK x \in DOMAIN multi_heap_ctx :
             r = Region(<<"HEAP_0", "HEAP_1">>[x], multi_heap_ctx[x].heap_base, Reclaimed(multi_heap_ctx[x]))
    BY Zenon, <1>6
  <2>2. HeapsKnown
    BY SMT, <2>1
  <2>3. x \in 1 .. n /\ multi_heap_ctx[x] = [heap_base |-> dy_mem_arch[x].base_ad, heap_max_size |-> dy_mem_arch[x].size]
    BY SMT, <1>1, <2>1, <2>2 DEF HeapsKnown, HeapsOf, HEAP_X_BASE, HEAP_X_SIZE
  <2>4. PICK h : h = multi_heap_ctx[x]
    OBVIOUS
  <2>5. PICK s, ad : s = dy_mem_arch[x].size /\ ad = dy_mem_arch[x].base_ad
    OBVIOUS
  <2>6. HEAP_BASE \in Nat
    BY SMT, Numbers
  <2>7. CASE x = 1
    <3>1. s = c /\ ad = HEAP_BASE /\ s = m_sizes[4] /\ ad = bank_base[4] /\ 4 \in Banks /\ ad \in Nat
      BY SMT, <1>1, <1>2, <2>5, <2>6, <2>7 DEF HeapsOf, BanksOf
    <3>2. h.heap_max_size = s /\ h.heap_base = ad
      BY SMT, <2>3, <2>4, <2>5
    <3>3. Reclaimed(h) \in Nat /\ Reclaimed(h) > 16 /\ Reclaimed(h) <= s
      BY SMT, <1>2, <3>1, <3>2, ReclaimedInside
    <3>4. r.name = "HEAP_0" /\ r.base = ad /\ r.size = Reclaimed(h)
      BY SMT, <2>1, <2>4, <2>7, <3>2 DEF Region
    <3>5. RegionIn(r, 4)
      BY SMT, <1>2, <3>1, <3>3, <3>4 DEF RegionIn, BankOfRegion
    <3>. QED BY Zenon, <3>5
  <2>8. CASE x = 2
    <3>1. s = d /\ ad = HEAP_BASE + c /\ s = m_sizes[5] /\ ad = bank_base[5] /\ 5 \in Banks /\ ad \in Nat
      BY SMT, <1>1, <1>2, <2>3, <2>5, <2>6, <2>8 DEF HeapsOf, BanksOf
    <3>2. h.heap_max_size = s /\ h.heap_base = ad
      BY SMT, <2>3, <2>4, <2>5
    <3>3. Reclaimed(h) \in Nat /\ Reclaimed(h) > 16 /\ Reclaimed(h) <= s
      BY SMT, <1>2, <3>1, <3>2, ReclaimedInside
    <3>4. r.name = "HEAP_1" /\ r.base = ad /\ r.size = Reclaimed(h)
      BY SMT, <2>1, <2>4, <2>8, <3>2 DEF Region
    <3>5. RegionIn(r, 5)
      BY SMT, <1>2, <3>1, <3>3, <3>4 DEF RegionIn, BankOfRegion
    <3>. QED BY Zenon, <3>5
  <2>. QED BY SMT, <1>2, <2>3, <2>7, <2>8
<1>. QED BY Zenon, <1>3, <1>4, <1>5, <1>6 DEF Regions

(* An access reaches its bank and is logged as it should be.               *)
LEMMA AccessRight ==
  ASSUME MapInv, Access
  PROVE  ProgramReachesBanks' /\ HeapAccessesLogged'
<1>1. ArchitectureRight /\ PlatformRight /\ (multi_heap_ctx = << >> \/ HeapsKnown)
  BY Zenon DEF MapInv, Access
<1>2. PICK r \in Regions : \E a \in Edges(r.base, r.size) :
         seen' = [region |-> r.name, base |-> r.base, addr |-> a,
                  to |-> Arrival(IF r.name = "text" THEN request_fetch(a) ELSE request_data(a))]
  BY Zenon DEF Access
<1>3. PICK a \in Edges(r.base, r.size) :
         seen' = [region |-> r.name, base |-> r.base, addr |-> a,
                  to |-> Arrival(IF r.name = "text" THEN request_fetch(a) ELSE request_data(a))]
  BY Zenon, <1>2
<1>4. PICK b : RegionIn(r, b)
  BY Zenon, <1>1, RegionPlace
<1>5. PICK off : off = a - r.base
  OBVIOUS
<1>6. /\ off \in Nat /\ off + 4 <= m_sizes[b] /\ a = bank_base[b] + off /\ b \in Banks
  <2>1. PICK n, c, d : HeapsOf(n, c, d) /\ BanksOf(n, c, d)
    BY Zenon, <1>1, BankFacts
  <2>2. b \in Banks /\ r.base = bank_base[b] /\ r.size \in Nat /\ r.size >= 8 /\ r.size <= m_sizes[b] /\ r.base \in Nat
    BY Zenon, <1>4 DEF RegionIn
  <2>3. Place(b, c, d, SizeUpTo(b), m_sizes[b], bank_base[b])
    BY Zenon, <2>1, <2>2, BankPlace
  <2>4. m_sizes[b] \in Nat
    BY SMT, <2>1, <2>3 DEF Place, HeapsOf, Between
  <2>. QED BY SMT, <1>3, <1>5, <2>2, <2>4 DEF Edges
<1>7. /\ r.name = "text" <=> b = 1
      /\ r.name \in {"HEAP_0", "HEAP_1"} <=> ~ (b <= 3)
      /\ BankOfRegion[r.name] = b
  BY Zenon, <1>4 DEF RegionIn
<1>8. Arrival(IF b = 1 THEN request_fetch(a) ELSE request_data(a)) =
           [socket |-> IF b = 1 THEN "i" ELSE "d", bank |-> b, word |-> off \div 4, stored |-> TRUE,
            log |-> IF b <= 3 THEN {} ELSE {a}]
  BY Zenon, <1>1, <1>6, ArrivesAt
<1>9. seen' = [region |-> r.name, base |-> r.base, addr |-> a,
               to |-> [socket |-> IF b = 1 THEN "i" ELSE "d", bank |-> b, word |-> off \div 4, stored |-> TRUE,
                       log |-> IF b <= 3 THEN {} ELSE {a}]]
  <2>1. CASE b = 1
    BY Zenon, <1>3, <1>7, <1>8, <2>1
  <2>2. CASE b # 1
    BY Zenon, <1>3, <1>7, <1>8, <2>2
  <2>. QED BY Zenon, <2>1, <2>2
<1>10. /\ seen'.region = r.name /\ seen'.base = r.base /\ seen'.addr = a
       /\ seen'.to.socket = (IF b = 1 THEN "i" ELSE "d") /\ seen'.to.bank = b
       /\ seen'.to.word = off \div 4 /\ seen'.to.stored = TRUE
       /\ seen'.to.log = (IF b <= 3 THEN {} ELSE {a})
  <2>1. PICK t : t = [socket |-> IF b = 1 THEN "i" ELSE "d", bank |-> b, word |-> off \div 4,
                      stored |-> TRUE, log |-> IF b <= 3 THEN {} ELSE {a}]
    OBVIOUS
  <2>2. seen' = [region |-> r.name, base |-> r.base, addr |-> a, to |-> t]
    BY Zenon, <1>9, <2>1
  <2>3. /\ t.socket = (IF b = 1 THEN "i" ELSE "d") /\ t.bank = b /\ t.word = off \div 4
        /\ t.stored = TRUE /\ t.log = (IF b <= 3 THEN {} ELSE {a})
    BY Zenon, <2>1
  <2>4. seen'.region = r.name /\ seen'.base = r.base /\ seen'.addr = a /\ seen'.to = t
    BY Zenon, <2>2
  <2>. QED BY Zenon, <2>3, <2>4
<1>11. ProgramReachesBanks'
  <2>1. BankOfRegion' = BankOfRegion
    BY Zenon DEF BankOfRegion
  <2>. QED BY SMT, <1>5, <1>7, <1>10, <2>1 DEF ProgramReachesBanks
<1>12. HeapAccessesLogged'
  BY SMT, <1>7, <1>10 DEF HeapAccessesLogged
<1>. QED BY Zenon, <1>11, <1>12

LEMMA InitMapInv == Init => MapInv
BY SMT DEF Init, MapInv, ProgramReachesBanks, HeapAccessesLogged

(* Every step keeps what the stages before it made of the parameters.      *)
LEMMA NextMapInv == MapInv /\ [Next]_vars => MapInv'
<1>. SUFFICES ASSUME MapInv, [Next]_vars PROVE MapInv'
  OBVIOUS
<1>1. ASSUME UNCHANGED seen PROVE ProgramReachesBanks' /\ HeapAccessesLogged'
  BY Zenon, <1>1 DEF MapInv, ProgramReachesBanks, HeapAccessesLogged, BankOfRegion
<1>2. ASSUME UNCHANGED dy_mem_arch PROVE ArchitectureRight' <=> ArchitectureRight
  BY SMT, <1>2 DEF ArchitectureRight, Between
<1>3. ASSUME UNCHANGED platform PROVE PlatformRight' <=> PlatformRight
  BY SMT, <1>3 DEF PlatformRight, platform, set_bank_base_address, bind_targets, spm_tot_size, Heaps
<1>4. ASSUME UNCHANGED <<dy_mem_arch, multi_heap_ctx>> PROVE HeapsKnown' <=> HeapsKnown
  BY Zenon, <1>4 DEF HeapsKnown, HEAP_X_BASE, HEAP_X_SIZE
<1>5. CASE BuildMemArchi
  <2>1. /\ stage' = "architecture" /\ UNCHANGED <<Architecture, app_footprint, multi_heap_ctx, seen>>
        /\ stage = "parameters"
    BY Zenon, <1>5 DEF BuildMemArchi, params
  <2>2. multi_heap_ctx = << >>
    BY Zenon, <2>1 DEF MapInv
  <2>. QED BY Zenon, <1>1, <1>5, <2>1, <2>2, BuildRight DEF MapInv
<1>6. CASE BindComponents
  <2>1. /\ stage = "architecture" /\ stage' = "elaborated"
        /\ UNCHANGED <<Architecture, app_footprint, dy_mem_arch, multi_heap_ctx, seen>>
    BY Zenon, <1>6 DEF BindComponents, params
  <2>2. ArchitectureRight /\ multi_heap_ctx = << >>
    BY Zenon, <2>1 DEF MapInv
  <2>3. PlatformRight'
    BY SMT, <1>6, <2>1 DEF BindComponents, PlatformRight, set_bank_base_address, bind_targets, spm_tot_size, Heaps
  <2>. QED BY Zenon, <1>1, <1>2, <2>1, <2>2, <2>3 DEF MapInv
<1>7. CASE init_multi_heap
  <2>1. /\ stage = "elaborated" /\ UNCHANGED <<Architecture, app_footprint, stage, platform, seen>>
        /\ UNCHANGED dy_mem_arch
    BY Zenon, <1>7 DEF init_multi_heap, params, platform
  <2>2. ArchitectureRight /\ PlatformRight
    BY Zenon, <2>1 DEF MapInv
  <2>3. (IF HEAP_COUNT >= 2 THEN 2 ELSE 1) = Len(dy_mem_arch)
    <3>1. Len(dy_mem_arch) \in {1, 2}
      BY SMT, <2>2 DEF ArchitectureRight
    <3>. QED BY SMT, <3>1 DEF HEAP_COUNT
  <2>4. HeapsKnown'
    BY Zenon, <1>7, <2>1, <2>3 DEF init_multi_heap, HeapsKnown, HEAP_X_BASE, HEAP_X_SIZE
  <2>. QED BY Zenon, <1>1, <1>2, <1>3, <2>1, <2>2, <2>4 DEF MapInv
<1>8. CASE Access
  <2>1. /\ stage = "elaborated"
        /\ UNCHANGED <<Architecture, app_footprint, stage, platform, dy_mem_arch, multi_heap_ctx>>
    BY Zenon, <1>8 DEF Access, params, platform
  <2>2. ArchitectureRight /\ PlatformRight /\ (multi_heap_ctx = << >> \/ HeapsKnown)
    BY Zenon, <2>1 DEF MapInv
  <2>. QED BY Zenon, <1>2, <1>3, <1>4, <1>8, <2>1, <2>2, AccessRight DEF MapInv
<1>9. CASE UNCHANGED vars
  <2>1. UNCHANGED <<Architecture, app_footprint, stage, platform, dy_mem_arch, multi_heap_ctx, seen>>
    BY Zenon, <1>9 DEF vars, params, platform
  <2>. QED BY Zenon, <1>1, <1>2, <1>3, <1>4, <2>1 DEF MapInv
<1>. QED BY Zenon, <1>5, <1>6, <1>7, <1>8, <1>9 DEF Next

LEMMA MapInvariant == Spec => []MapInv
<1>. QED BY InitMapInv, NextMapInv, PTL DEF Spec

(* Every word of a section or a heap reaches its own bank, at its own      *)
(* offset, whatever the architecture and the footprint.                    *)
THEOREM ReachesBanks == Spec => []ProgramReachesBanks
<1>1. MapInv => ProgramReachesBanks
  BY DEF MapInv
<1>. QED BY <1>1, MapInvariant, PTL

(* The log has the accesses to the heaps, at the program's addresses.      *)
THEOREM Logged == Spec => []HeapAccessesLogged
<1>1. MapInv => HeapAccessesLogged
  BY DEF MapInv
<1>. QED BY <1>1, MapInvariant, PTL

(* What the stages built has its type. *)
LEMMA MapTypes == MapInv => TypeOK
<1>. SUFFICES ASSUME MapInv PROVE TypeOK
  OBVIOUS
<1>1. CASE stage = "parameters"
  BY SMT, <1>1 DEF MapInv, TypeOK, Heaps
<1>2. ASSUME ArchitectureRight
      PROVE  /\ Len(dy_mem_arch) \in {1, 2}
             /\ \A h \in Heaps : dy_mem_arch[h] \in [base_ad : Nat, size : Nat]
  <2>1. dy_mem_arch \in Seq([base_ad : Nat, size : Nat]) /\ Len(dy_mem_arch) \in {1, 2}
    BY SMT, <1>2 DEF ArchitectureRight
  <2>2. Heaps = 1 .. Len(dy_mem_arch)
    BY SMT, <2>1 DEF Heaps
  <2>3. PICK R : R = [base_ad : Nat, size : Nat]
    OBVIOUS
  <2>4. \A h \in 1 .. Len(dy_mem_arch) : dy_mem_arch[h] \in R
    <3>1. dy_mem_arch \in Seq(R)
      BY Zenon, <2>1, <2>3
    <3>. QED BY Zenon, <3>1, ElementOfSeq
  <2>. QED BY Zenon, <2>1, <2>2, <2>3, <2>4
<1>3. CASE stage = "architecture"
  <2>1. ArchitectureRight /\ multi_heap_ctx = << >>
    BY Zenon, <1>3 DEF MapInv
  <2>2. Architecture \in Architectures /\ app_footprint \in Footprints
    BY Zenon DEF MapInv
  <2>3. Len(dy_mem_arch) <= 2 /\ Len(multi_heap_ctx) = 0
    <3>1. Len(dy_mem_arch) \in {1, 2}
      BY Zenon, <1>2, <2>1
    <3>2. Len(multi_heap_ctx) = 0
      BY SMT, <2>1
    <3>. QED BY SMT, <3>1, <3>2
  <2>4. \A h \in Heaps : dy_mem_arch[h] \in [base_ad : Nat, size : Nat]
    BY Zenon, <1>2, <2>1
  <2>. QED BY SMT, <1>3, <2>2, <2>3, <2>4 DEF TypeOK
<1>4. CASE stage = "elaborated"
  <2>1. ArchitectureRight /\ PlatformRight /\ (multi_heap_ctx = << >> \/ HeapsKnown)
    BY Zenon, <1>4 DEF MapInv
  <2>2. PICK n, c, d : HeapsOf(n, c, d) /\ BanksOf(n, c, d)
    BY Zenon, <2>1, BankFacts
  <2>3. /\ n \in {1, 2} /\ Banks = 1 .. (3 + n) /\ Len(dy_mem_arch) = n /\ c \in Nat /\ d \in Nat
        /\ Len(m_sizes) = 3 + n /\ Len(bank_base) = 3 + n
    BY SMT, <2>2 DEF HeapsOf, BanksOf, Between
  <2>4. ASSUME NEW b \in Banks PROVE m_sizes[b] \in Nat /\ bank_base[b] \in Nat
    <3>1. Place(b, c, d, SizeUpTo(b), m_sizes[b], bank_base[b])
      BY Zenon, <2>2, BankPlace
    <3>. QED BY SMT, <2>3, <3>1 DEF Place
  <2>5. Len(multi_heap_ctx) \in {0, n}
    <3>1. CASE multi_heap_ctx = << >>
      BY SMT, <3>1
    <3>2. CASE HeapsKnown
      BY SMT, <2>3, <3>2 DEF HeapsKnown
    <3>. QED BY Zenon, <2>1, <3>1, <3>2
  <2>6. \A h \in Heaps : dy_mem_arch[h] \in [base_ad : Nat, size : Nat]
    BY Zenon, <1>2, <2>1
  <2>7. Architecture \in Architectures /\ app_footprint \in Footprints
    BY Zenon DEF MapInv
  <2>. QED BY SMT, <1>4, <2>3, <2>4, <2>5, <2>6, <2>7 DEF TypeOK
<1>. QED BY Zenon, <1>1, <1>3, <1>4 DEF MapInv

(* The descriptor, the banks and the software's heaps have their types.    *)
THEOREM TypeCorrect == Spec => []TypeOK
<1>. QED BY MapTypes, MapInvariant, PTL

(* The heaps the software knows, one by one.                               *)
LEMMA HeapFacts ==
  ASSUME HeapsKnown, NEW n, NEW c, NEW d, HeapsOf(n, c, d), BanksOf(n, c, d)
  PROVE  /\ DOMAIN multi_heap_ctx = 1 .. n
         /\ \A x \in 1 .. n : multi_heap_ctx[x].heap_base = bank_base[x + 3]
                              /\ multi_heap_ctx[x].heap_max_size = m_sizes[x + 3]
<1>1. n \in {1, 2} /\ Len(dy_mem_arch) = n
  BY SMT DEF HeapsOf
<1>2. DOMAIN multi_heap_ctx = 1 .. n
  BY Zenon, <1>1 DEF HeapsKnown
<1>3. ASSUME NEW x \in 1 .. n
      PROVE  /\ multi_heap_ctx[x].heap_base = dy_mem_arch[x].base_ad
             /\ multi_heap_ctx[x].heap_max_size = dy_mem_arch[x].size
  BY Zenon, <1>1, <1>3 DEF HeapsKnown, HEAP_X_BASE, HEAP_X_SIZE
<1>4. ASSUME NEW x \in 1 .. n
      PROVE dy_mem_arch[x].base_ad = bank_base[x + 3] /\ dy_mem_arch[x].size = m_sizes[x + 3]
  <2>1. x = 1 \/ (x = 2 /\ n = 2)
    BY SMT, <1>1
  <2>. QED BY SMT, <2>1 DEF HeapsOf, BanksOf
<1>. QED BY Zenon, <1>2, <1>3, <1>4

(* What the allocator assumes of its heap is what sc_main built.           *)
LEMMA HeapsFit == MapInv => HeapsFitAllocator
<1>. SUFFICES ASSUME MapInv, NEW x \in DOMAIN multi_heap_ctx
              PROVE  LET h == multi_heap_ctx[x]
                     IN /\ h.heap_base % 8 = 0
                        /\ Reclaimed(h) > 16
                        /\ h.heap_base = bank_base[x + 3] /\ h.heap_max_size = m_sizes[x + 3]
                        /\ HEAP_BASE <= h.heap_base /\ h.heap_base + Reclaimed(h) <= heap_end
                        /\ \A y \in DOMAIN multi_heap_ctx :
                             x < y => h.heap_base + h.heap_max_size <= multi_heap_ctx[y].heap_base
  BY Zenon DEF HeapsFitAllocator
<1>1. multi_heap_ctx # << >>
  BY SMT
<1>2. ArchitectureRight /\ PlatformRight /\ HeapsKnown
  BY Zenon, <1>1 DEF MapInv
<1>3. PICK n, c, d : HeapsOf(n, c, d) /\ BanksOf(n, c, d)
  BY Zenon, <1>2, BankFacts
<1>4. DOMAIN multi_heap_ctx = 1 .. n
  BY Zenon, <1>2, <1>3, HeapFacts
<1>5. \A y \in 1 .. n : multi_heap_ctx[y].heap_base = bank_base[y + 3]
                        /\ multi_heap_ctx[y].heap_max_size = m_sizes[y + 3]
  BY Zenon, <1>2, <1>3, HeapFacts
<1>6. n \in {1, 2} /\ c \in Nat /\ d \in Nat /\ c >= 32 /\ d >= 32 /\ (n = 2 => c % 16 = 0)
  BY SMT, <1>3 DEF HeapsOf, Between
<1>7. /\ bank_base[4] = 269484032 /\ m_sizes[4] = c /\ HEAP_BASE = 269484032
      /\ n = 2 => bank_base[5] = 269484032 + c /\ m_sizes[5] = d
  BY SMT, <1>3, Numbers DEF BanksOf
<1>8. /\ n = 1 => heap_end = 269484032 + c
      /\ n = 2 => heap_end = 269484032 + c + d
  BY SMT, <1>3, Totals
<1>9. PICK h : h = multi_heap_ctx[x]
  OBVIOUS
<1>10. CASE x = 1
  <2>1. h.heap_base = 269484032 /\ h.heap_max_size = c
    BY SMT, <1>4, <1>5, <1>7, <1>9, <1>10
  <2>2. Reclaimed(h) \in Nat /\ Reclaimed(h) > 16 /\ Reclaimed(h) <= c
    BY SMT, <1>6, <2>1, ReclaimedInside
  <2>3. h.heap_base % 8 = 0 /\ HEAP_BASE <= h.heap_base /\ h.heap_base + Reclaimed(h) <= heap_end
    BY SMT, <1>6, <1>7, <1>8, <2>1, <2>2
  <2>4. ASSUME NEW y \in DOMAIN multi_heap_ctx, x < y
        PROVE  h.heap_base + h.heap_max_size <= multi_heap_ctx[y].heap_base
    <3>1. y = 2 /\ n = 2
      BY SMT, <1>4, <1>6, <1>10, <2>4
    <3>2. multi_heap_ctx[y].heap_base = 269484032 + c
      BY SMT, <1>4, <1>5, <1>7, <3>1
    <3>. QED BY SMT, <1>6, <2>1, <3>2
  <2>5. h.heap_base = bank_base[x + 3] /\ h.heap_max_size = m_sizes[x + 3]
    BY SMT, <1>4, <1>5, <1>9
  <2>. QED BY Zenon, <1>9, <2>2, <2>3, <2>4, <2>5
<1>11. CASE x = 2
  <2>0. n = 2
    BY SMT, <1>4, <1>6, <1>11
  <2>1. h.heap_base = 269484032 + c /\ h.heap_max_size = d
    BY SMT, <1>4, <1>5, <1>7, <1>9, <1>11, <2>0
  <2>2. Reclaimed(h) \in Nat /\ Reclaimed(h) > 16 /\ Reclaimed(h) <= d
    BY SMT, <1>6, <2>1, ReclaimedInside
  <2>3. h.heap_base % 8 = 0 /\ HEAP_BASE <= h.heap_base /\ h.heap_base + Reclaimed(h) <= heap_end
    BY SMT, <1>6, <1>7, <1>8, <2>0, <2>1, <2>2
  <2>4. ASSUME NEW y \in DOMAIN multi_heap_ctx, x < y
        PROVE  h.heap_base + h.heap_max_size <= multi_heap_ctx[y].heap_base
    BY SMT, <1>4, <1>6, <1>11, <2>4
  <2>5. h.heap_base = bank_base[x + 3] /\ h.heap_max_size = m_sizes[x + 3]
    BY SMT, <1>4, <1>5, <1>9
  <2>. QED BY Zenon, <1>9, <2>2, <2>3, <2>4, <2>5
<1>. QED BY SMT, <1>4, <1>6, <1>10, <1>11

(* Every heap of every architecture is one the allocator can use.          *)
THEOREM HeapsUsable == Spec => []HeapsFitAllocator
<1>. QED BY HeapsFit, MapInvariant, PTL

(* The intervals of the bus: one block for the buffers and the helper, 16  *)
(* for the boot memories and the UART, and as many for the scratch pad     *)
(* memory as its banks need, below 50000.                                  *)
LEMMA Intervals ==
  ASSUME ArchitectureRight, PlatformRight
  PROVE  \E k \in Nat :
           /\ 1 <= k /\ k <= 50000
           /\ intervals = [in_buf |-> [first |-> 270336, last |-> 270336],
                           out_buf |-> [first |-> 274432, last |-> 274432],
                           reset |-> [first |-> 785408, last |-> 785423],
                           except |-> [first |-> 524288, last |-> 524303],
                           spm |-> [first |-> 0, last |-> k - 1],
                           dense |-> [first |-> 917504, last |-> 919039],
                           uart |-> [first |-> 263680, last |-> 263695],
                           helper |-> [first |-> 269312, last |-> 269312]]
           /\ Window(TEXT_BASE) = [first |-> 1024, last |-> 1024 + k - 1]
           /\ Window(DATA_BASE) = [first |-> 65536, last |-> 65536 + k - 1]
<1>1. PICK n, c, d : HeapsOf(n, c, d) /\ BanksOf(n, c, d)
  BY Zenon, BankFacts
<1>2. /\ n = 1 => m_spm_size = 1572864 + c
      /\ n = 2 => m_spm_size = 1572864 + c + d
  BY SMT, <1>1, Totals
<1>3. PICK t : t = m_spm_size
  OBVIOUS
<1>4. t \in Nat /\ 1572864 <= t /\ t <= 202899488
  BY SMT, <1>1, <1>2, <1>3 DEF HeapsOf, Between
<1>5. PICK k : k = (t + 4095) \div 4096
  OBVIOUS
<1>6. k \in Nat /\ 1 <= k /\ k <= 50000
  BY SMT, <1>4, <1>5
<1>7. \A a \in Nat : Blocks(a, t) = [first |-> a, last |-> a + k - 1]
  <2>1. t + 4096 - 1 = t + 4095
    BY SMT, <1>4
  <2>. QED BY SMT, <1>4, <1>5, <2>1 DEF Blocks, KB4
<1>8. \A a \in Nat : /\ Blocks(a, 4) = [first |-> a, last |-> a]
                     /\ Blocks(a, 4096) = [first |-> a, last |-> a]
                     /\ Blocks(a, 65536) = [first |-> a, last |-> a + 15]
                     /\ Blocks(a, 6291456) = [first |-> a, last |-> a + 1535]
  <2>1. /\ (4 + 4096 - 1) \div 4096 = 1 /\ (4096 + 4096 - 1) \div 4096 = 1
        /\ (65536 + 4096 - 1) \div 4096 = 16 /\ (6291456 + 4096 - 1) \div 4096 = 1536
    BY SMT
  <2>. QED BY SMT, <2>1 DEF Blocks, KB4
<1>9. intervals = bind_targets
  BY SMT DEF PlatformRight
<1>10. bind_targets = [in_buf |-> [first |-> 270336, last |-> 270336],
                       out_buf |-> [first |-> 274432, last |-> 274432],
                       reset |-> [first |-> 785408, last |-> 785423],
                       except |-> [first |-> 524288, last |-> 524303],
                       spm |-> [first |-> 0, last |-> k - 1],
                       dense |-> [first |-> 917504, last |-> 919039],
                       uart |-> [first |-> 263680, last |-> 263695],
                       helper |-> [first |-> 269312, last |-> 269312]]
  <2>1. spm_tot_size = t
    BY SMT, <1>3 DEF m_spm_size
  <2>2. Blocks(0, spm_tot_size) = [first |-> 0, last |-> k - 1]
    BY SMT, <1>6, <1>7, <2>1
  <2>3. /\ Blocks(270336, 4) = [first |-> 270336, last |-> 270336]
        /\ Blocks(274432, 4) = [first |-> 274432, last |-> 274432]
        /\ Blocks(269312, 4096) = [first |-> 269312, last |-> 269312]
    BY SMT, <1>8
  <2>4. /\ Blocks(785408, 65536) = [first |-> 785408, last |-> 785423]
        /\ Blocks(524288, 65536) = [first |-> 524288, last |-> 524303]
        /\ Blocks(263680, 65536) = [first |-> 263680, last |-> 263695]
        /\ Blocks(917504, 6291456) = [first |-> 917504, last |-> 919039]
    BY SMT, <1>8
  <2>. QED BY SMT, <2>2, <2>3, <2>4 DEF bind_targets, HelperInterval
<1>11. Window(TEXT_BASE) = [first |-> 1024, last |-> 1024 + k - 1]
  <2>1. TEXT_BASE \div KB4 = 1024
    BY SMT, Numbers DEF KB4
  <2>. QED BY SMT, <1>3, <1>7, <2>1 DEF Window
<1>12. Window(DATA_BASE) = [first |-> 65536, last |-> 65536 + k - 1]
  <2>1. DATA_BASE \div KB4 = 65536
    BY SMT, Numbers DEF KB4
  <2>. QED BY SMT, <1>3, <1>7, <2>1 DEF Window
<1>. QED BY SMT, <1>6, <1>9, <1>10, <1>11, <1>12

LEMMA TargetsApart == MapInv => OneTargetPerAddress
<1>. SUFFICES ASSUME MapInv, stage = "elaborated"
              PROVE  /\ \A t, u \in DOMAIN intervals : t # u => Disjoint(intervals[t], intervals[u])
                     /\ \A t \in DOMAIN intervals \ {"spm"} : \A base \in {TEXT_BASE, DATA_BASE} :
                          Disjoint(intervals[t], Window(base))
                     /\ Disjoint(Window(TEXT_BASE), Window(DATA_BASE))
  BY Zenon DEF OneTargetPerAddress
<1>1. ArchitectureRight /\ PlatformRight
  BY Zenon DEF MapInv
<1>2. PICK k \in Nat :
           /\ 1 <= k /\ k <= 50000
           /\ intervals = [in_buf |-> [first |-> 270336, last |-> 270336],
                           out_buf |-> [first |-> 274432, last |-> 274432],
                           reset |-> [first |-> 785408, last |-> 785423],
                           except |-> [first |-> 524288, last |-> 524303],
                           spm |-> [first |-> 0, last |-> k - 1],
                           dense |-> [first |-> 917504, last |-> 919039],
                           uart |-> [first |-> 263680, last |-> 263695],
                           helper |-> [first |-> 269312, last |-> 269312]]
           /\ Window(TEXT_BASE) = [first |-> 1024, last |-> 1024 + k - 1]
           /\ Window(DATA_BASE) = [first |-> 65536, last |-> 65536 + k - 1]
  BY SMT, <1>1, Intervals
<1>3. /\ DOMAIN intervals = {"in_buf", "out_buf", "reset", "except", "spm", "dense", "uart", "helper"}
      /\ intervals["spm"].first = 0 /\ intervals["spm"].last = k - 1
      /\ intervals["uart"].first = 263680 /\ intervals["uart"].last = 263695
      /\ intervals["helper"].first = 269312 /\ intervals["helper"].last = 269312
      /\ intervals["in_buf"].first = 270336 /\ intervals["in_buf"].last = 270336
      /\ intervals["out_buf"].first = 274432 /\ intervals["out_buf"].last = 274432
      /\ intervals["except"].first = 524288 /\ intervals["except"].last = 524303
      /\ intervals["reset"].first = 785408 /\ intervals["reset"].last = 785423
      /\ intervals["dense"].first = 917504 /\ intervals["dense"].last = 919039
  BY SMT, <1>2
<1>4. \A t, u \in DOMAIN intervals : t # u => Disjoint(intervals[t], intervals[u])
  BY SMTT(30), <1>2, <1>3 DEF Disjoint
<1>5. \A t \in DOMAIN intervals \ {"spm"} : \A base \in {TEXT_BASE, DATA_BASE} :
         Disjoint(intervals[t], Window(base))
  <2>1. \A t \in DOMAIN intervals \ {"spm"} : intervals[t].first \in Nat /\ 263680 <= intervals[t].first
    BY SMT, <1>3
  <2>2. \A base \in {TEXT_BASE, DATA_BASE} : Window(base).last \in Nat /\ Window(base).last < 263680
    BY SMT, <1>2
  <2>. QED BY SMT, <2>1, <2>2 DEF Disjoint
<1>6. Disjoint(Window(TEXT_BASE), Window(DATA_BASE))
  BY SMT, <1>2 DEF Disjoint
<1>. QED BY Zenon, <1>4, <1>5, <1>6

(* No bus address has two targets and no device hides in a window of the   *)
(* wrapper, whatever the architecture and the footprint.                   *)
THEOREM OneTarget == Spec => []OneTargetPerAddress
<1>. QED BY TargetsApart, MapInvariant, PTL
=============================================================================
