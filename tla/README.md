# Dycton: a TLA+ verification of the simulated platform

Dycton simulates a MIPS32 system on chip with several memory technologies and a
memory allocator that chooses among several heaps. The simulator is SystemC/TLM
C++ (`src/src/platform_tlm/hardware`, `src/src/platform_tlm/iss`); the allocator
is C software that runs on the simulated processor
(`src/src/platform_tlm/software/common`). This directory models the parts that
carry the program's own logic, checks them with TLC and proves theorems about
them with TLAPS.

All paths below are relative to `src/src/platform_tlm`.

## 1. Inventory

| Component | State it keeps | Operations | Interacts with |
|---|---|---|---|
| Scratch pad memory (`hardware/scratch_pad_memory.*`, `hardware/arbitrated_mem.*`) | one request buffer per port; storage, event and thread of each bank | `nb_transport_fw`, `memory_process` | called by the wrapper and the bus; calls the initiator back |
| ISS wrapper (`iss/mips32_wrapper.*`) | `i_req`, `d_req`, two ready flags, the store in progress, two event queues, the bus addresses awaiting a response | threads `run_iss`, `run_sim`; `nb_transport_bw_{i,d,b}` | drives the ISS; sends to the scratch pad memory (ports 0 and 1) and the bus |
| Instruction set simulator (`iss/mips32*`) | registers, the pending data request, microcode | `getRequests`, `executeNCycles` | driven by the wrapper; taken over from SocLib |
| Bus (`hardware/nb_bus.*`) | the address intervals of the targets, the last one used, the initiator of each transaction (extension) | `bind_target`, `nb_transport_fw`, `nb_transport_bw` | between the wrapper and port 2 of the scratch pad memory, the other memories and the peripherals |
| Memory (`hardware/memory.*`) | an event queue, the storage | `nb_transport_fw`, its thread | a target of the bus |
| Helper (`hardware/helper.*`) | the registers of allocation logging, of the strategy and of the heaps | register reads and writes | written by the allocator library, writes to the heap log |
| Heap log and oracle (`log_trace.h`, `iss/log_trace.cpp`) | live blocks, access counts, the file of predictions | `log_malloc`, `log_free`, `log_access`, `get_next_prediction` | called by the helper and the memories |
| Dispatcher (`software/common/libdycton.*`) | the heap contexts, the occupancy of the fast heap | `malloc`, `free`, `realloc`, `calloc`, `init_multi_heap`, the strategies | calls one allocator per heap; talks to the helper |
| Heap allocator (`software/common/newlib_malloc.c`) | bins, top, last remainder, `binblocks`, the biggest free block, boundary tags | `mALLOc`, `fREe`, `malloc_extend_top` | one context per heap; calls `sbrk` |
| `sbrk` and system calls (`software/common/hal.c`) | the break of each heap | `sbrk`, `_exit`, reentrant wrappers | called by the allocators |
| Memory architecture (`iss/sc_main_iss.cpp`, `address_map.h`) | sizes and base addresses of the banks | construction, binding | configures everything above |
| UART, buffers (`hardware/uart.*`, `hardware/gpb.*`) | FIFOs to and from files | register accesses | targets of the bus |

Not the program's own logic, and not modelled: the ELF loader (third party), the
benchmark programs, the generated profiles and data sets, the Python and R
scripts of the experiments, the docker files.

### What is hard

* **SystemC notifications are not remembered.** Both the memory banks and the
  two threads of the wrapper use immediate notification. A thread that is not
  waiting at that instant sleeps for ever, unless another check makes up for it.
* **Shared mutable payloads.** The memory and the bus rewrite the address of
  the payload on the way forward and must restore it on the way back; the
  wrapper recognises bus responses by that address alone.
* **One-place buffers.** A second request on a port aborts the simulation; what
  prevents it is in another component (the wrapper).
* **Decoupled stores.** The response of a store is consumed by a later request.
* **Fixed priorities** can starve.
* **Address arithmetic**: the walk over the banks, the bounds check and the
  offset are three separate computations.
* **Allocator bookkeeping**: boundary tags, bins, the cached biggest free block
  and the occupancy counters must agree over long sequences of calls.
* **Three ideas of one address.** The linker script, the wrapper, the bus, the
  banks and the heap log each translate addresses; sizes depend on the data set
  and are rounded.
* **Precise interrupts** in a simulator that posts a data request and fetches the
  next instruction in the same cycle, with branch delay slots.

### What makes each component correct

| Component | Correct when |
|---|---|
| Scratch pad memory | it cannot be told from one flat memory; no request is lost; responses keep their address |
| ISS wrapper | loads see earlier stores, fetches get their instruction, every request is answered, ports get one transaction at a time |
| Instruction set simulator | it cannot be told from a sequential processor, whatever the delays and interrupts |
| Bus, memories, peripherals | an address leads to one place whatever came before; accesses are answered, in order for the peripherals |
| Memory architecture | every word the software owns reaches its bank, and is logged if it is in a heap |
| Heap allocator | blocks are disjoint and stay untouched; free memory is described the same way by tags, lists and bits |
| Dispatcher, helper, log | two heaps look like one; the log describes them |

## 2. The modules

| Module | Models |
|---|---|
| `SPM` | the scratch pad memory: ports, banks, arbitration, data movement |
| `AtomicMemory` | abstract specification: a flat memory whose accesses are atomic |
| `MCSPM` | instances of `SPM` for TLC |
| `SPM_proofs` | theorems about `SPM`, and that it implements `AtomicMemory` |
| `Wrapper` | the ISS wrapper, over an arbitrary memory and ISS |
| `Wrapper_proofs` | theorems about `Wrapper` |
| `MCWrapper` | instances of `Wrapper` for TLC |
| `DLMalloc` | one heap: `mALLOc`, `fREe` and the growth by `sbrk` |
| `DLMalloc_proofs` | theorems about `DLMalloc`, and that it implements `BlockHeap` |
| `BlockHeap` | abstract specification: a heap hands out disjoint, aligned blocks |
| `Dispatcher` | the allocator library over two `DLMalloc`, the helper's allocation registers and the log of objects |
| `Dispatcher_proofs` | theorems about `Dispatcher`, from those about `DLMalloc`, and that it implements `BlockHeap` |
| `NbBus` | the bus, the memories and peripherals behind it, composed with an `AtomicMemory` for the scratch pad memory |
| `NbBus_proofs` | theorems about `NbBus`, and that it implements `AtomicMemory` |
| `MCNbBus` | an instance of `NbBus` for TLC |
| `MemoryMap` | the sizes and addresses that `sc_main` chooses, and the way of an address through wrapper, memory and log |
| `MemoryMap_proofs` | theorems about `MemoryMap` |
| `MCMemoryMap` | `MemoryMap` with the footprints of the data sets |
| `MipsIss` | the simulator's cycle: responses, stalls, requests, exceptions, interrupts, for one instruction of each class |
| `MipsIss_proofs` | theorems about `MipsIss`, and that it implements `MipsIsa` |
| `MipsIsa` | abstract specification: a sequential processor without interrupts |
| `MCMipsIss` | an instance of `MipsIss` for TLC |

How they compose: `SPM` implements `AtomicMemory`; `NbBus` uses the scratch pad
memory through `AtomicMemory` and implements a larger `AtomicMemory`, which is
what `Wrapper` takes for its memory system; `Wrapper` answers every request in the
end, which is what `MipsIss` takes for granted. `Dispatcher` is two `DLMalloc`
and implements one `BlockHeap`, as each of them does. `MemoryMap` checks what the
others assume of addresses and sizes.

Definitions named *Mutant* in a module are plausible bugs of the definition
that follows them. They are not part of the model; each shows that a property
can tell the code from a broken version of it.

### SPM

`buffers` is the array of `pl_buffer`; `pl` is the payload last sent on each
port, `content` the storage of the banks, `pc` where each `memory_process` is:
`start` before its first `wait`, `asleep` in `wait(m_req_notif)`, `zero` in
`wait(SC_ZERO_TIME)`, `scan` after it, `access` in the latency. `aborted` is the
effect of `abort()`. `issued`, `slept` and `rivals` are history: the request as
it was built, the banks asleep when the delta cycle began, and for each bank the
ports that asked in the cycle that woke it up.

| Action | Code |
|---|---|
| `Send`, `Reject` | `nb_transport_fw`, accepted or out of range |
| `Notify` | `m_req_notif.notify()`, immediate, in `nb_transport_fw` |
| `Delta` | the kernel ends a delta cycle: `wait(SC_ZERO_TIME)` returns |
| `Boot` | `memory_process` up to its first `wait` |
| `Sleep` | no port has a request: back to `wait(m_req_notif)` |
| `Serve` | election, `get_req`, the data move (`trans_read_data`, `trans_write_data`) |
| `Finish` | the end of the latency: status, bus address, `nb_transport_bw` |

Addresses are word addresses, because the initiators only build word-aligned
accesses; a word has byte lanes, so byte enables are kept. Latencies are "some
time", in which delta cycles may pass or none: the real ones depend on the
technology under test, and the properties hold for any. Within a delta cycle
initiators and banks run in any order, as SystemC allows. An out-of-range offset reads any value and writes nothing the
model sees. Initiators send only on an idle port (`Idle`): that is what
`OneTransactionPerPort` establishes for the wrapper, and what the generator of
`hw_validation` does.

`SPM` implements `AtomicMemory` (`ImplementsAtomicMemory`): word *a* of the flat
array is the cell of the bank that decodes *a*; a port is *asked* while its
buffer is full and *performed* while a bank serves it; a `Reject` is a request that the array
refuses.

### Wrapper

`ireq` and `dreq` are `i_req` and `d_req`, `simI` and `simD` the ready flags,
`writing` is `data_write_in_progress`, `iPeq` and `dPeq` the event queues.
`simPc` is where `run_sim` is: `idle` in its first `wait`, `notified` when
woken, `await_write` and `write_answered` around the wait for the store in
progress, and one value per branch of its second part; `waitFor` is the set of
events that branch still waits for. `flight` is what the memory system holds.

| Action | Code |
|---|---|
| `Request` | `run_iss`: `getRequests`, reset of the flags, notification |
| `RefetchFromBuffer` | `run_iss`: the repeated fetch served from `i_resp_buf` |
| `Deliver` | `run_iss`: responses popped and given to `executeNCycles` |
| `Issue`, `IssueFetch`, `IssueData` | `run_sim`: the transactions, before or after the wait for a store |
| `Answered` | `run_sim`: the flags, after the awaited events |
| `RespondSpm`, `RespondBus` | `nb_transport_bw_{i,d}`, `nb_transport_bw_b` |
| `Perform` | the memory system (environment) |

The ISS is its interface: after a cycle it stalls on the same fetch (a load-use
hazard or a multi-cycle instruction) or moves to another address, with or
without a data access. `Doubles` adds the microcoded double-word FPU accesses,
which request data without a fetch. On the platform there are none, because the
boot code leaves coprocessor 1 disabled; the run has the loads, which only adds
behaviours. The stores would lose a request (see the hazards). A cycle of `run_iss` that finds no response ready
changes nothing and is not an action. An instruction is named by the address it
was read from. `Cell` lets two addresses designate one word, as the data bank
does through `DATA_BASE` and through `SPM_D_BASE`. `WrapperAssumption` says that
no program fetches from the bus a word that it accesses as data through the bus:
responses could then be mistaken (a comment of `nb_transport_bw_b` says so).

### DLMalloc

`alloc_context` is the `Heap_ctx` of the heap. Its `head` maps the address of
each existing chunk to its header; `bins` are the lists, in the order of `fd`;
`binblocks` is the set of marked blocks of bins (kept in the code in the header
of bin 0); `top` and `last_remainder` are bins 0 and 1; `bfbs` is the biggest
free block size of the early failure. `live` is history: the blocks in use and
the bytes asked for each.

| Definition | Code |
|---|---|
| `Refuse` | `mALLOc`: overflow of the size, early failure |
| `TakeExact`, `TakeRemainder` | `mALLOc`: the exact search, the last remainder |
| `Search` | `mALLOc`: the scan of the bins, `malloc_extend_top`, the cut of the top, the failure that looks up `bfbs` |
| `FreeIntoTop`, `FreeIntoBin` | `fREe`, beside the top or elsewhere |

The code runs on one processor with interrupts unused, so a call is one step.
What is dropped: headers that a merge leaves inside a larger chunk, `prev_size`
while the chunk before is the program's, statistics, and what newlib does with
`malloc_trim`, `mallinfo`, `realloc` and `calloc` (compiled out). The heap grows
once, by all its size but a word, so `malloc_extend_top` has no second case.

`DLMalloc` implements `BlockHeap` (`ImplementsBlockHeap`).

### Dispatcher

`ctx0`, `live0`, `ctx1`, `live1` are two instances of `DLMalloc`, at
consecutive addresses as `sc_main` places them; `m_log_obj_map` is the map of
the log, `fallbacked` the helper's register. `strategy` is chosen at the start
and kept, as the option of the command line is.

| Action | Code |
|---|---|
| `malloc`, `calloc` | the functions, with `dispatch_and_allocate` and the helper's `ALLOC_*` registers |
| `realloc`, `FinishRealloc` | `realloc` up to its `free`; that `free` |
| `free` | `free`, with the helper's `FREE_*` registers |
| `NoPrediction` | the oracle has no usable prediction |

The predictions of the oracle are any numbers, and the heap of a profile
strategy depends on the allocation site, which is any: both are a choice. The
contents of blocks are left out; what matters of `memcpy` and `memset` is where
they read and write. `status` becomes "abort" when `realloc` reads beyond the
last bank, where the scratch pad memory stops the simulation, and "corrupted"
when `calloc` or `realloc` writes to address 0 after a failure: the bus finds
the code bank there, and what the program does next is not this code's to say.
Architectures with one heap are not instantiated: their second context is empty
and refuses every request.

### NbBus

`previous` is the target of `m_previous_it`; `pl` is the payload of each slot, `peq` the
event queues, `pc` and `serving` the thread of each target. `spmMem`,
`spmPhase`, `spmReq` and `spmAnswer` are the state of the scratch pad memory, an
`AtomicMemory`. `issued`, `asked` and `got` are history.

| Action | Code |
|---|---|
| `Forward`, `ForwardToSpm` | `NbBus::nb_transport_fw` with `resolve`, up to the target's queue or port |
| `Unresolved` | `NbBus::nb_transport_fw` without a target; the wrapper aborts |
| `Direct` | the wrapper on `i_socket` and `d_socket` |
| `Serve`, `Respond` | `Memory::memory_process` before and after the latency, `nb_transport_bw` |
| `PutChar` | `UART::process` and the helper's plain writes |
| `Read`, `Write` | `GPBuffer::process` |
| `SpmPerform`, `SpmRespond` | the scratch pad memory, by its abstract specification |

`Rivals` keeps to what `run_sim` does: one fetch and one data access at a time.
`FairSpec` is weak fairness of each thread, by the SystemC scheduler, and of the
bus port of the scratch pad memory, by `ServedWhenOthersQuiet`: on this platform
the bus port has the best priority.

A memory behind the bus looks at its queue once per notification, and a payload
that arrives during the latency of another one stays there. A fetch and a data
access that meet at one memory could do that; `AnsweredUnlessShared` is about
all other behaviours. On the platform they do not meet: the reset and the exception
memory are only fetched from, and the dense memory is not used by the software.

### MemoryMap

`dy_mem_arch` is the descriptor of the heaps, `m_sizes` and `bank_base` are those
of the scratch pad memory, `intervals` those of the bus, `multi_heap_ctx` is the
software's. `seen` is the last access with the place it reached.

| Action | Code |
|---|---|
| `BuildMemArchi` | `sc_main`: sizes of the banks from the architecture and the footprint |
| `BindComponents` | `sc_main`: the scratch pad memory and the targets of the bus |
| `init_multi_heap` | `init_multi_heap`, through the helper's registers |
| `Access` | `request_fetch` or `request_*_data`, `nb_transport_fw` of the memory, the address given to the log |

### MipsIss

`iss` is the record of the registers of `Mips32Iss` that last from call to call:
`gp`, `pc`, `npc`, the posted request `dreq`, `delay` (`m_ins_delay`), the last
instruction fetched, and the bits of `Status`, `Cause` and `EPC` that matter
(`ip` is the masked pending bit). `mem` is data memory, changed when a store is
answered. `due` is history: where an interrupted program must go on.

`Cycle(iOk, dOk)` is one call of `executeNCycles(1, ...)` with either response
valid or not: the responses are taken (`Loaded`, `Stored`), then the cycle is lost
(`Stall`), or an instruction is executed, or none for want of a response
(`Executed`), and that ends in an exception, an interrupt or the next address (`Except`,
`Interrupt`, `Complete`). The operators carry the names of the code's functions.
An instruction that uses a register just loaded waits a cycle (`Hazard`), except a
likely branch, for which `use_table` has nothing: it runs in the call that gets
the data, with the loaded value. A multiply stalls when `rt` is not 0 after `rd` is
written; the model's multiplies have `rd` = `rt`, so the product decides. The wrapper only
gives both responses or none, so the model has more behaviours than the platform.
The environment of the interrupt is the program: `mtc0` and an initial pending
bit. With a handler that does not withdraw the interrupt it strikes after every
single instruction.

`MipsIss` implements `MipsIsa` (`ImplementsIsa`): a posted load counts as
loaded, a posted store as stored, and from the interrupt to the moment the program
is back at `due` nothing happens. So an interrupt is invisible.

Left out by `IssAssumption`: what MIPS32 calls unpredictable (a branch in a delay
slot), and two corners where the simulator is wrong (below). `ProgramAssumption`
says what software must do for `MipsIsa` to be possible at all: the program stays
in a text that is closed under its branches and lies below the handler, and the
handler runs straight to its `eret` and writes register 26 only.

## 3. The runs

| Run | Bounds | Shows |
|---|---|---|
| `spm_safety` | 3 ports, 2 banks of 1 and 2 words, 2 byte lanes, 2 byte values, one address outside | no lost wakeup, one place per request, addresses restored, requests of one delta cycle in the order of priority, a port is served once better ones are quiet, refinement of `AtomicMemory` |
| `spm_edge` (violation) | the address one past the end | the bounds check lets it through |
| `spm_doc_priority` (violation) | priorities of `sc_main` | the fetch port is last, not first |
| `wrapper_safety` | 3 fetch addresses on 2 routes, 3 data addresses on 2 routes, 2 words of storage, microcoded loads | no crash, loads see stores, right instruction, one transaction per port, no lost request, every request answered |
| `heap_small` | 124 bytes, 4 blocks, sizes 12, 16, 28, 250 and 505 in words of 9 bits | boundary tags, consolidation, untouched blocks, best fit, refinement of `BlockHeap` |
| `heap_large` | 1208 bytes, 3 blocks of 260, 500 and 508 bytes | bins, block bits and `bfbs` describe the free memory |
| `heap_bfbs` (violation) | as `heap_small` | `bfbs` loses sight of small free blocks |
| `dispatcher` | heaps of 48 and 64 bytes, 3 blocks, all strategies | two heaps look like one; the log agrees with them, fallbacks included; accesses are counted to the right object |
| `dispatcher_realloc` (violation) | heaps of 80 and 64 bytes | `realloc` reads beyond the last heap |
| `bus` | 7 targets, intervals of 1 and 2 words with and without gaps, 2 accesses to peripherals | an address leads to one place, addresses restored, one place per payload, peripherals in order, answers, refinement of `AtomicMemory` |
| `memory_map` | 9 architectures, the 43 footprints of the data sets | words reach their banks, heaps are logged, heaps fit the allocator, no two targets overlap |
| `iss` | 976 programs, 4-bit words, 4 words of data | refinement of `MipsIsa`; no endless stall, pending interrupts taken |

*SPM.* Three ports are what the platform has, and enough for a port to wait
behind two others in one cycle; two banks of different sizes make a bank boundary inside the
memory. `spm_safety` does not check for deadlock, because the access outside the
memory stops the simulation; `ServedWhenOthersQuiet` says that nothing else does.

*Wrapper.* Only one fetch and one data access can be in the wrapper at a time,
so three fetch and three data addresses give every pair of routes, a repeated
and a different address, and an alias across routes.

*DLMalloc.* 12 and 16 are either side of a rounding limit, and 28 makes a chunk
that splits; four blocks leave room for two free chunks with a block between
them, for merges on both sides, and for a last remainder beside a full bin. 250
overflows `INT_MAX` of the short words and 505 wraps around, as requests near
2^31 and 2^32 do. 124 bytes leave an odd end, as the heaps of architectures 0 and
6 do, which are not rounded. In 1208 bytes the three large sizes make chunks on both sides
of 512 bytes, where small bins end and `bfbs` looks, and a scan that takes,
splits, and goes on to another block of bins.

*Dispatcher.* The fast heap holds one block and the slow one two, so every
request can be served at once, fall back or fail; 20 * 43 is too big for any
heap and 12 * 43 wraps around to 4. Deadlock is not checked, because the program
may exit.

*NbBus.* Two words per memory make an offset and its restoration differ, the
order of the targets is that of the platform, and one pair of intervals touches.
Two accesses to peripherals are enough to be queued at two of them and to read an
input past its end; its file has one word. Deadlock is not checked: a request to
the gap stops the simulation.

*MemoryMap.* The footprints are those of `software/*/dycton_*_app.h`;
`MemoryMapAssumption` allows any from 480 bytes to 64 MB (section 4 says why). Accesses go
to the first and last two words of each region, where the walk over the banks and
the windows can go wrong; inside, they are linear. Deadlock is not an issue:
accesses go on for ever.

*MipsIss.* A program is an instruction of five kinds, two of eleven kinds, one that
uses the result, and an endless loop. Three in a row are what the pipeline can
hold: one with its request posted, one waiting, and one in the delay slot.
Words of 4 bits overflow, wrap in a product and make misaligned addresses.

**Fairness.** `SPM!FairSpec` is weak fairness of each bank and of the end of delta
cycles: a SystemC kernel runs every runnable process and advances time when none is. Nothing obliges an
initiator. `Wrapper!FairSpec` is weak fairness of both threads and of the memory
for fetches and for data accesses separately: a fetch only competes with the
data access requested with it or the store before, so fixed priorities cannot
starve it (`ServedWhenOthersQuiet`). `NbBus!FairSpec` is explained above.
`MipsIss!FairSpec` is weak fairness of the cycle with both responses, which
`RequestsAnswered` of the wrapper justifies. The allocator has no liveness property:
a call runs to its end.

### Disagreements found

* `spm_edge`: the bounds check compares with `>` where the offset must be below
  the size; the address one past the end reaches the storage of the last bank.
  The wrapper can send it: the range it routes to port 1 is as large as the whole
  memory but starts after the code bank.
* `spm_doc_priority`: the documentation gives the fetch interface the highest
  priority; the configuration of `sc_main` gives it the lowest.
* `heap_bfbs`: the biggest free block is looked up after a failure only in the
  top and among chunks of 512 bytes and more; requests that smaller free chunks
  could serve are then refused without a search.
* `dispatcher_realloc`: `realloc` copies the size of the new object, and from the
  end of the last heap reads beyond the memory.

Observations without a run of their own:

* The early failure (`newlib_malloc.c:2040`) compares the request plus a minimal chunk
  with the biggest free block, so an exact fit is refused.
* Failed requests are logged as objects at address 0 (`log_trace.cpp:118`), and the second one as
  an overlap; `LogMatchesHeaps` says what the log has instead.
* The help text of the simulator (`sc_main_iss.cpp:693`) and a comment (`:310`)
  give architecture -2 other sizes than the code, 200 % fast and 100 % slow.
* The heaps of architectures 0 and 6 are not rounded to 16 although
  `address_map.h:84` asks for it. The allocator needs less (a base that is a
  multiple of 8) and has it (`HeapsFitAllocator`).
* The slow heap can be up to 7 bytes smaller than the footprint.
* `assert(0 || "...")` (`mips32_wrapper.cpp:92`) cannot fail.
* Overlapping targets of the bus are only reported (`nb_bus.cpp:41`); no
  architecture has any (`OneTargetPerAddress`).
* ISS: `ei` with an interrupt pending and already enabled leaves `Status` in
  register 0 for the handler's first instruction (`mips32.cpp:280` is skipped).
* ISS: an interrupt after the first pass through the delay slot of a branch or call to
  its own delay slot takes the second pass for a delay slot (`mips32.cpp:426`)
  and resumes at the branch.
* Wrapper: with an interrupt the ISS changes its fetch address while the wrapper
  may hold an older fetch. `MipsIss` assumes the instruction belongs to the
  address the ISS asks for; on the platform no device raises an interrupt.

## 4. The proofs

The theorems hold for every value of the constants that the assumption of the
module allows: any number of ports, banks, targets, addresses and requests, any
footprint, any heap. Each component's invariant `...Inv` is inductive: it holds
initially and every action keeps it (one lemma per action), and the properties
follow from it. The sections below say what had to be added to the properties,
which are seldom inductive by themselves, and why.

### SPM_proofs, under `SPMAssumption`

| Theorem | States |
|---|---|
| `TypeCorrect` | `TypeOK` |
| `OnePlace` | `RequestInOnePlace` |
| `WakeupKept` | `NoLostWakeup` |
| `ResponseAddress` | `AddressRestored` |
| `NoOverflowAbort` | `AbortsOnlyOnBadAddress` |
| `CycleOrder` | `SameCycleByPriority` |
| `InBounds` | `AccessInBounds`, if all requests are inside the memory |
| `Refinement` | `ImplementsAtomicMemory`, if nobody asks for the edge (`NoEdgeRequest`) |

`SPMInv`: `NoLostWakeup` alone is not inductive, because
`Send` must know that the port it fills has no older request (`RequestInOnePlace`
with `Idle`), and a bank that is not booted must have none (`BootQuiet`).
`AddressRestored` needs that the emptied buffer of a port in service still
holds the address of its own request (`AddressKept`).

`CycleInv`, for `SameCycleByPriority`: until the delta cycle that woke a bank is
over, the bank is in `wait(SC_ZERO_TIME)` and all its rivals wait (`WokenWaits`),
which needs that a bank falls asleep without rivals (`NoOldRivals`). Later the
election decides, and it sees every rival that waits (`RivalsHere`). The order
holds for a bank that was asleep only: a bank that is already scanning in a cycle
serves what it finds when the kernel runs it.

`InBounds` adds that a buffered request is decoded inside its bank
(`DecodedInBounds`).

The refinement adds that a buffered request still is the request that was issued
but for its rewritten address (`Carried`), and that the banks, which leave no gap
and do not overlap, give each address one cell. The edge, one address past the end, is
the disagreement of `spm_edge`: it passes the check and reaches a word the flat
memory does not have.

`NoOverflowAbort` and `InBounds` have no passing run: the address outside the
memory is in `spm_safety` and the address at the edge in `spm_edge`.

### Wrapper_proofs, under `WrapperAssumption` and `NoDoubleStores`

| Theorem | States |
|---|---|
| `TypeCorrect` | `TypeOK` |
| `NeverCrashes` | `NoCrash` |
| `StoresSeen` | `LoadsSeeStores` |
| `InstructionRight` | `RightInstruction` |
| `OnePerPort` | `OneTransactionPerPort` |
| `NothingMissed` | whatever a thread waits for is raised or to come (`Heard`, `ToCome`) |

`WrapperInv` says where the one fetch and the one data transaction are
(`FetchPlace`, `DataPlace`: sent, answered and queued, or neither, as the flags
and the place of `run_sim` tell), what the flags mean at each place of `run_sim`
(`Control`), that the request registers hold what the ISS asked for (`IssAgrees`), that
the addresses awaited from the bus are those in flight (`BusAgrees`), and what
the program may expect a word to hold while a store to it is on its way
(`ShadowAgrees`). A response can then only find the request it belongs to, which
is what all the properties come down to. `LoadsSeeStores` rests on
`run_sim` waiting for a store before the next data access.

`NoDoubleStores` leaves out the microcoded store of a double-word FPU register,
which the boot code makes impossible by leaving coprocessor 1 disabled. With it
the theorems are false: the second store raises its flag too early
(`mips32_wrapper.cpp:450`, a hazard without a property). `NothingMissed` is the
safety part of `RequestsAnswered`: no notification is lost.

### NbBus_proofs, under `NbBusAssumption`

| Theorem | States |
|---|---|
| `TypeCorrect` | `TypeOK` |
| `HistoryFree` | `ResolutionHistoryFree` |
| `AddressComesBack` | `AddressRestored` |
| `InOnePlace` | `OnePlace` |
| `InOrder` | `DevicesInOrder` |
| `Refinement` | `ImplementsAtomicMemory` |

`HistoryFree` is about the walk from the last target to the right one: it can
only end at the one interval that holds the address, because intervals are in
order and do not overlap. `BusInv` says of each queue that its payloads
were sent to this target, with the address relative to it, and are there once (`QueuedRight`,
`QueuedOnce`), the same of the payload a thread serves (`ServedRight`) and of
those in the scratch pad memory (`SpmRight`), and that a payload in flight is
somewhere (`Somewhere`). A thread is asleep before a queue of more than one
payload never (`ThreadsAwake`), and the program's accesses exclude each other as `Rivals`
says (`RivalsWait`). `InOrder` needs where the words are that were asked for and
not written (`WordsInOrder`), and how far a file was read (`FileInOrder`).

The refinement maps a word of a memory behind the bus to the flat memory at the
same bus address; a `Serve` is a performed access, everything before it an
asked one. The scratch pad memory is an `AtomicMemory` already: with
`SPM_proofs!Refinement` the two say that the bus and the banks behind it are one memory.

### MemoryMap_proofs, under `MemoryMapAssumption`

| Theorem | States |
|---|---|
| `TypeCorrect` | `TypeOK` |
| `ReachesBanks` | `ProgramReachesBanks` |
| `Logged` | `HeapAccessesLogged` |
| `HeapsUsable` | `HeapsFitAllocator` |
| `OneTarget` | `OneTargetPerAddress` |

The assumption is that footprints lie between 480 bytes and 64 MB; those of the
data sets do, by a wide margin. Below that, the smallest fast heap (a
twentieth of the footprint, rounded) has no room for one chunk; beyond some 80 MB the windows of
the wrapper overlap. `MapInv` says, by stage of
`sc_main`, what the descriptor, the banks and the heaps of the software are as
functions of the two parameters. The difficulty is rounding: the allocator's
divisions by 8, 16 and 100 are bounded on both sides, once (`Align`), and
the nine architectures are then cases of linear arithmetic.

### DLMalloc_proofs, under `HeapAssumption`

| Theorem | States |
|---|---|
| `HeapInvariant` | the inductive invariant |
| `TypeCorrect` | `TypeOK` |
| `TagsAgree` | `BoundaryTags` |
| `Merged` | `Consolidated` |
| `AllFiled` | `FreeChunksFiled` |
| `LargeKnown` | `LargeBlocksKnown` |
| `Untouched` | `BlocksUntouched` |
| `BestFits` | `BestFit` |
| `Refinement` | `ImplementsBlockHeap` |

`HeapAssumption` asks of a heap what `MemoryMap_proofs!HeapsUsable` shows of
those of the platform. `HeapInv` is a conjunction of

* `Tiled`: chunks are aligned, inside the heap and apart (`Placed`), leave no
  gap up to the top (`Covered`), and the header of the next chunk tells whether
  and how long a chunk is free (`Told`);
* `Filed`: lists are in order and of the right bin (`Binned`), blocks
  with a list are marked (`Marked`), and the lists and the last remainder are
  exactly the free chunks;
* `Known`: `bfbs` is as large as the top and as any large free chunk;
* `Blocks`: the chunks in use are those of the program's blocks, with room for what
  was asked.

Each part speaks of one chunk and its neighbours, or of one bin, never of the
chain from the start of the heap: so nothing needs induction. The parts take the fields of a
context as parameters, and each helper of `mALLOc` and `fREe` has a lemma
about each part: `Split`, `Absorb` and `malloc_extend_top` change the
tiling, `frontlink` and `unlink` the lists, the scan of the bins the marks. The hard ones are
the merge, where up to three chunks become one, and the scan, which clears a
mark only when it has seen all bins of a block empty. TLC found no state of
the bounds of `heap_small` and `heap_large` that breaks `HeapInv`.

`BestFits` needs the order inside bins, the order between bins (`bin_index` grows with
the size), and that the scan starts no later than the bin of the request. The
refinement needs that blocks are in chunks that are disjoint and inside the heap.

### Dispatcher_proofs, under `DispatcherAssumption`

| Theorem | States |
|---|---|
| `TypeCorrect` | `TypeOK` |
| `LogAgrees` | `LogMatchesHeaps` |
| `Attributed` | `AccessesAttributed` |
| `Refinement` | `ImplementsOneHeap` |

The theorems about one heap are used twice, through an instance of
`DLMalloc_proofs` for each heap (`FastP`, `SlowP`): `DispatcherAssumption` implies
`HeapAssumption` for both (`HeapsAssumed`). An instance brings its own copies of the
operators, so `FastIsFast` and `SlowIsSlow` first show that the heap of the
model and that of the theorems are the same one. Of a heap the proofs then need
no chunk and no bin, only what a caller may rely on (`BlocksUsable`,
`MallocAnswers`): blocks lie apart, inside the heap, below its `heap_end`, which is 0
until the first block, and a request adds one block or none.

`DispInv` is that both heaps keep `HeapInv`, the properties themselves, and that
the fallback register is clear while the program runs: without it a request
served at once could be logged as a fallback. `free` finds the heap by
`heap_end`, so it needs that a heap with a block has a full `heap_end`, and that no foreign address
is below it. `Attributed` is a fact about maps: no object of the log lies between an
address and the block it is in, because blocks do not overlap.

### MipsIss_proofs, under `IssAssumption` and `ProgramAssumption`

| Theorem | States |
|---|---|
| `TypeCorrect` | `TypeOK` |
| `Refinement` | `ImplementsIsa` |

Words have any even number of values, programs any length. `IssInv` says where
the simulator can be (`Place`): in the program (`InProgram`), in the handler
of a trap (`InTrap`) or of an interrupt (`InIrq`), or back at a branch whose
delay slot was interrupted (`OnBranch`). Wherever the program goes on (`Flow`), it
is in its text or in the delay slot of a taken branch (`InSlot`). The difficult part is
`Retaken`: a branch executed again goes where it went before, because
nothing that the program sees has changed since, and a call leaves the same link.

An instruction has a lemma that says what it does to the processor (`RunAddi`
and so on), the steps of `MipsIsa` have one that says the same of the sequential one
(`MipsDoes`), and a cycle is then one of six: without an instruction
(`Rests`, `IdleCycle`), in the program (`ProgramCycle`), in a handler (`TrapCycle`,
`IrqCycle`), at a branch again (`BranchCycle`). `InterruptSeen` is the heart: with a request
just posted, backing out restores all that the program sees; without one, the
instruction counts. The proof showed that a call, too, must not go to its own
delay slot, which the bounds of the run did not reach.

### Only model-checked

* Liveness, of all modules: `ServedWhenOthersQuiet`, `RequestsAnswered`,
  `AnsweredUnlessShared` and `Progress` rest on fairness, and so on `ENABLED`.
* The four disagreements, which are counterexamples.
* `AtomicMemory` and `BlockHeap` are specifications to be implemented; they
  have no theorems of their own.

## 5. Plan

Done: the models above, and the proofs about all the detailed ones. Next: proofs
of what the users of `AtomicMemory` and `BlockHeap` rely on (a response belongs to its
request, blocks are disjoint), so that they follow for any implementation.

## 6. Not modelled

* *The rest of the ISS*: the other instructions differ from the modelled ones in
  what they compute, not in how they stall, trap or restart. Floating point,
  bus errors, user mode and the timer are not used by the platform's software;
  sub-word and unaligned accesses are data manipulation.
* *Time*: latencies, cycle counts and energy are what the experiments measure, and
  no property of the models depends on their values.
* *Helper, heap log, system calls*: what is not in `Dispatcher` and `DLMalloc` is
  constants, counters, file formats and output.
* *Third-party and generated code*: the ELF loader, mbedtls, JasPer, the JPEG and
  H.263 codecs, parson and the generated allocation-site profiles make up more
  than nine tenths of the lines of the repository. They are
  workloads; the models take any sequence of allocations and accesses instead.
* *Experiment scripts*: they run the simulator and draw its results.
