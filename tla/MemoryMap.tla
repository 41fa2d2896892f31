----------------------------- MODULE MemoryMap -----------------------------
(***************************************************************************)
(* The memory architecture of a simulation and the three places that must  *)
(* agree on it: sc_main, which sizes the banks of the scratch pad memory   *)
(* and binds the targets of the bus (iss/sc_main_iss.cpp, address_map.h,   *)
(* log_trace.h); the way of an address through the hardware, the dispatch  *)
(* of the wrapper (iss/mips32_wrapper.cpp), the bank search of the scratch *)
(* pad memory and the address a bank logs (hardware/); and the heaps as    *)
(* the software reads them from the helper (software/common/libdycton.c).  *)
(*                                                                         *)
(* Addresses and sizes are bytes.  Bus intervals go beyond the integers of *)
(* TLC and are kept in blocks of 4 KB, rounded outwards.                   *)
(***************************************************************************)
EXTENDS Integers, Sequences, FiniteSets

CONSTANTS
  Footprints,     (* dataset_footprint of the applications                 *)
  IdealSize       (* the heap of architecture -1                           *)

(* The data sets declare 5 KB to 3.2 MB.  Below 480 bytes a fast heap has  *)
(* no room for a chunk (malloc_extend_top exits), and beyond some 80 MB    *)
(* the windows of the wrapper overlap.                                     *)
ASSUME MemoryMapAssumption ==
  /\ \A f \in Footprints \cup {IdealSize} : f \in Nat /\ 480 <= f /\ f <= 67108864

TEXT_BASE  == 4194304     (* 0x00400000 *)
TEXT_SIZE  == 524288
DATA_BASE  == 268435456   (* 0x10000000 *)
DATA_SIZE  == 524288
STACK_SIZE == 524288
STACK_TOP  == DATA_BASE + DATA_SIZE + STACK_SIZE
HEAP_BASE  == STACK_TOP

SPM_I_SIZE == TEXT_SIZE
SPM_D_SIZE == DATA_SIZE
SPM_S_SIZE == STACK_SIZE
Fixed      == SPM_I_SIZE + SPM_D_SIZE + SPM_S_SIZE

Architectures == -2 .. 6
SingleHeap    == {-1, 0, 6}

VARIABLES
  Architecture, app_footprint,   (* the parameters of the simulation       *)
  stage,        (* how far sc_main and the software have come              *)
  dy_mem_arch,  (* the memory architecture descriptor: its banks in order  *)
  m_sizes,      (* of the scratch pad memory: the size of each bank        *)
  bank_base,    (* m_bus_base_address of each bank                         *)
  intervals,    (* the bus: target -> first and last block                 *)
  multi_heap_ctx,  (* the software's heaps                                 *)
  seen          (* history: the last access, what it asked and where it    *)
                (* went                                                    *)

params == <<Architecture, app_footprint>>
platform == <<dy_mem_arch, m_sizes, bank_base, intervals>>
vars == <<params, stage, platform, multi_heap_ctx, seen>>

NoAccess == [region |-> "none"]

Init ==
  /\ Architecture \in Architectures /\ app_footprint \in Footprints
  /\ stage = "parameters"
  /\ dy_mem_arch = << >>
  /\ m_sizes = << >>
  /\ bank_base = << >>
  /\ intervals = << >>
  /\ multi_heap_ctx = << >>
  /\ seen = NoAccess

-----------------------------------------------------------------------------
(***************************************************************************)
(* MEMORY ARCHITECTURE CONSTRUCTION.                                       *)
(***************************************************************************)

(* Mutant: sizes are not rounded. *)
unaligned(x) == x

(* The multiple of 16 nearest to x, which may be below it.                 *)
dycton_align_16(x) == ((x + 8) \div 16) * 16

fast_heap_sz ==
  CASE Architecture = -2 -> 2 * app_footprint
    [] Architecture = 1  -> (app_footprint * 3) \div 4
    [] Architecture = 2  -> app_footprint \div 2
    [] Architecture = 3  -> app_footprint \div 4
    [] Architecture = 4  -> app_footprint \div 10
    [] Architecture = 5  -> app_footprint \div 20

(* The slow heap alone could hold the application, up to the rounding.     *)
slow_heap_sz == dycton_align_16(app_footprint)

Bank(base, size) == [base_ad |-> base, size |-> size]

BuildMemArchi ==
  /\ stage = "parameters"
  /\ dy_mem_arch' =
       IF Architecture \in SingleHeap
       THEN <<Bank(HEAP_BASE, IF Architecture = -1 THEN IdealSize ELSE app_footprint)>>
       ELSE LET fast == dycton_align_16(fast_heap_sz)
            IN <<Bank(HEAP_BASE, fast),
                 Bank(HEAP_BASE + fast, slow_heap_sz)>>
  /\ stage' = "architecture"
  /\ UNCHANGED <<params, m_sizes, bank_base, intervals, multi_heap_ctx, seen>>

Heaps == DOMAIN dy_mem_arch

spm_tot_size ==
  Fixed + (IF Heaps = {1} THEN 0 ELSE dy_mem_arch[2].size) + dy_mem_arch[1].size

LastBank == dy_mem_arch[Len(dy_mem_arch)]
heap_end == LastBank.base_ad + LastBank.size

(***************************************************************************)
(* Components are built and bound.  Blocks(a, s) stands for the interval   *)
(* of s bytes that begins at block a of the bus.                           *)
(***************************************************************************)
KB4 == 4096
Blocks(a, s) == [first |-> a, last |-> a + (s + KB4 - 1) \div KB4 - 1]

(* Mutant: a digit too many in HELPER_SIZE. *)
WideHelper == Blocks(269312, 65536 * 256)

HelperInterval == Blocks(269312, 4096)              (* 0x41C00000, 0x00001000 *)

bind_targets ==
  [in_buf  |-> Blocks(270336, 4),                   (* 0x42000000, one word   *)
   out_buf |-> Blocks(274432, 4),                   (* 0x43000000, one word   *)
   reset   |-> Blocks(785408, 65536),               (* 0xBFC00000, 0x00010000 *)
   except  |-> Blocks(524288, 65536),               (* 0x80000000, 0x00010000 *)
   spm     |-> Blocks(0, spm_tot_size),
   dense   |-> Blocks(917504, 6291456),             (* 0xE0000000, 0x00600000 *)
   uart    |-> Blocks(263680, 65536),               (* 0x40600000, 0x00010000 *)
   helper  |-> HelperInterval]

(* Mutants: a base for bank 4 whether or not there is one; the same base   *)
(* for both heaps.                                                         *)
set_five_base_addresses ==
  <<TEXT_BASE, DATA_BASE, DATA_BASE + DATA_SIZE, dy_mem_arch[1].base_ad, heap_end>>
set_heap_base_address ==
  <<TEXT_BASE, DATA_BASE, DATA_BASE + DATA_SIZE>> \o [h \in Heaps |-> HEAP_BASE]

set_bank_base_address ==
  <<TEXT_BASE, DATA_BASE, DATA_BASE + DATA_SIZE>>
    \o [h \in Heaps |-> dy_mem_arch[h].base_ad]

BindComponents ==
  /\ stage = "architecture"
  /\ m_sizes' = <<SPM_I_SIZE, SPM_D_SIZE, SPM_S_SIZE>> \o [h \in Heaps |-> dy_mem_arch[h].size]
  /\ bank_base' = set_bank_base_address
  /\ intervals' = bind_targets
  /\ stage' = "elaborated"
  /\ UNCHANGED <<params, dy_mem_arch, multi_heap_ctx, seen>>

-----------------------------------------------------------------------------
(***************************************************************************)
(* The software: the first allocation reads base and size of each heap     *)
(* from the helper, which looks them up in the descriptor.                 *)
(***************************************************************************)
HEAP_X_BASE(x) == dy_mem_arch[x].base_ad
HEAP_X_SIZE(x) == dy_mem_arch[x].size
HEAP_COUNT     == Len(dy_mem_arch)

init_multi_heap ==
  /\ stage = "elaborated" /\ multi_heap_ctx = << >>
  /\ multi_heap_ctx' =
       [x \in 1 .. (IF HEAP_COUNT >= 2 THEN 2 ELSE 1) |->
          [heap_base |-> HEAP_X_BASE(x), heap_max_size |-> HEAP_X_SIZE(x)]]
  /\ UNCHANGED <<params, stage, platform, seen>>

(* The bytes of a heap that chunks cover: sbrk is asked for all but four,  *)
(* and the two low bits of a chunk's size are flags.                       *)
Reclaimed(h) == ((h.heap_max_size - 4) \div 4) * 4

(***************************************************************************)
(* The dispatch of the wrapper: the socket and the address on it.          *)
(***************************************************************************)
m_spm_size == spm_tot_size

request_fetch(a) ==
  IF TEXT_BASE <= a /\ a < TEXT_BASE + m_spm_size
  THEN [socket |-> "i", addr |-> a - TEXT_BASE] ELSE [socket |-> "b", addr |-> a]

request_data(a) ==
  IF DATA_BASE <= a /\ a < DATA_BASE + m_spm_size
  THEN [socket |-> "d", addr |-> a - DATA_BASE + TEXT_SIZE] ELSE [socket |-> "b", addr |-> a]

(***************************************************************************)
(* The scratch pad memory goes through its banks while the address is      *)
(* behind the last word of the bank; the last bank ends the search.        *)
(***************************************************************************)
Banks == DOMAIN m_sizes
SizeUpTo(b) ==
  (IF b > 1 THEN m_sizes[1] ELSE 0) + (IF b > 2 THEN m_sizes[2] ELSE 0)
    + (IF b > 3 THEN m_sizes[3] ELSE 0) + (IF b > 4 THEN m_sizes[4] ELSE 0)

(* Mutant: the address of the bank's end is still taken for the bank.      *)
BehindEnd(addr, b) == addr > SizeUpTo(b) + m_sizes[b]

Behind(addr, b) == addr > SizeUpTo(b) + m_sizes[b] - 4

BankOf(addr) ==
  CHOOSE b \in Banks : /\ \A c \in 1 .. b - 1 : Behind(addr, c)
                       /\ b = Len(m_sizes) \/ ~Behind(addr, b)

(* DY_LOG_HEAP_ONLY: only banks that begin in the heap log their accesses. *)
Logs(b) == HEAP_BASE <= bank_base[b] /\ bank_base[b] < heap_end

(* Which bank and word the access to a gets, whether the bank holds it in  *)
(* its m_content, and the address it logs.                                 *)
Arrival(way) ==
  LET b == BankOf(way.addr)
      off == way.addr - SizeUpTo(b)
  IN [socket |-> way.socket, bank |-> b, word |-> off \div 4,
      stored |-> off \div 4 < m_sizes[b] \div 4,
      log    |-> IF Logs(b) THEN {off + bank_base[b]} ELSE {}]

(***************************************************************************)
(* The program accesses the first two and the last two words of a region   *)
(* that the linker, the stack or the allocator gives it.                   *)
(***************************************************************************)
Edges(base, size) == {base, base + 4, base + size - 8, base + size - 4}

Region(name, base, size) == [name |-> name, base |-> base, size |-> size]

Regions ==
  {Region("text", TEXT_BASE, TEXT_SIZE), Region("data", DATA_BASE, DATA_SIZE),
   Region("stack", DATA_BASE + DATA_SIZE, STACK_SIZE)}
    \cup {Region(<<"HEAP_0", "HEAP_1">>[x], multi_heap_ctx[x].heap_base, Reclaimed(multi_heap_ctx[x])) :
            x \in DOMAIN multi_heap_ctx}

Access ==
  /\ stage = "elaborated"
  /\ \E r \in Regions : \E a \in Edges(r.base, r.size) :
       seen' = [region |-> r.name, base |-> r.base, addr |-> a,
                to |-> Arrival(IF r.name = "text" THEN request_fetch(a) ELSE request_data(a))]
  /\ UNCHANGED <<params, stage, platform, multi_heap_ctx>>

Next == BuildMemArchi \/ BindComponents \/ init_multi_heap \/ Access

Spec == Init /\ [][Next]_vars

-----------------------------------------------------------------------------
(***************************************************************************)
(* Properties                                                              *)
(***************************************************************************)

(* Every variable has its type; a platform has one bank per section and    *)
(* heap, each with a base address.                                         *)
TypeOK ==
  /\ Architecture \in Architectures /\ app_footprint \in Footprints
  /\ stage \in {"parameters", "architecture", "elaborated"}
  /\ \A h \in Heaps : dy_mem_arch[h] \in [base_ad : Nat, size : Nat]
  /\ Len(dy_mem_arch) <= 2
  /\ stage = "elaborated" =>
       /\ Len(m_sizes) = 3 + Len(dy_mem_arch) /\ Len(bank_base) = Len(m_sizes)
       /\ \A b \in Banks : m_sizes[b] \in Nat /\ bank_base[b] \in Nat
  /\ Len(multi_heap_ctx) \in {0, Len(dy_mem_arch)}

(***************************************************************************)
(* Every word of every region reaches, through the direct port of its      *)
(* kind, its own bank at its own offset, and the bank holds it: the bases  *)
(* the linker and sc_main chose, the windows of the wrapper and the bank   *)
(* search of the scratch pad memory fit together.                          *)
(***************************************************************************)
BankOfRegion == [text |-> 1, data |-> 2, stack |-> 3, HEAP_0 |-> 4, HEAP_1 |-> 5]

ProgramReachesBanks ==
  seen # NoAccess =>
    /\ seen.to.socket = IF seen.region = "text" THEN "i" ELSE "d"
    /\ seen.to.bank = BankOfRegion[seen.region]
    /\ seen.to.word = (seen.addr - seen.base) \div 4
    /\ seen.to.stored

(***************************************************************************)
(* The access log has every access to a heap and no other, at the address  *)
(* the program used, although a bank only knows its offset: Dispatcher     *)
(* relies on it to attribute accesses to objects.                          *)
(***************************************************************************)
HeapAccessesLogged ==
  seen # NoAccess =>
    seen.to.log = IF seen.region \in {"HEAP_0", "HEAP_1"} THEN {seen.addr} ELSE {}

(***************************************************************************)
(* What DLMalloc assumes of its heap is true of every heap of every        *)
(* architecture (malloc_extend_top exits on a misaligned heap), the heaps  *)
(* are the banks and do not overlap, and the helper takes every address    *)
(* malloc can return for one inside the heap.                              *)
(***************************************************************************)
HeapsFitAllocator ==
  \A x \in DOMAIN multi_heap_ctx :
    LET h == multi_heap_ctx[x]
    IN /\ h.heap_base % 8 = 0
       /\ Reclaimed(h) > 16
       /\ h.heap_base = bank_base[x + 3] /\ h.heap_max_size = m_sizes[x + 3]
       /\ HEAP_BASE <= h.heap_base /\ h.heap_base + Reclaimed(h) <= heap_end
       /\ \A y \in DOMAIN multi_heap_ctx :
            x < y => h.heap_base + h.heap_max_size <= multi_heap_ctx[y].heap_base

(***************************************************************************)
(* No bus address has two targets (NbBus assumes it; before_end_of_        *)
(* elaboration only prints an overlap), and no device lies in a window     *)
(* that the wrapper sends to the scratch pad memory, however large the     *)
(* heaps are.                                                              *)
(***************************************************************************)
Disjoint(i, j) == i.last < j.first \/ j.last < i.first

Window(base) == Blocks(base \div KB4, m_spm_size)

OneTargetPerAddress ==
  stage = "elaborated" =>
    /\ \A t, u \in DOMAIN intervals : t # u => Disjoint(intervals[t], intervals[u])
    /\ \A t \in DOMAIN intervals \ {"spm"} : \A base \in {TEXT_BASE, DATA_BASE} :
         Disjoint(intervals[t], Window(base))
    /\ Disjoint(Window(TEXT_BASE), Window(DATA_BASE))

=============================================================================
