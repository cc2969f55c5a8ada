# TLA+ models of CXL-SpecKV

This directory holds TLA+ models of the host-side memory and coherence engine in
`src/` (FastLM/CXL-SpecKV). It also holds the TLC configurations that check them.
`PROJECT.json` is the machine-readable index of this work:
- the components and their status;
- the runs, with their expected outcome;
- one mutant per checked property;
- the map from each TLA+ definition to the lines of C++ it models;
- the findings;
- the hazards of the code.

## 1. Inventory

### Components, their state and operations

| Component | Source | State | Operations | Talks to |
|---|---|---|---|---|
| Coherence manager | `src/src/cxl_memory/coherence_manager.cpp` | `directory_` (line → {state, tier, ...}), `stats_`, `directory_mutex_`, `stats_mutex_` | request_read, request_write, invalidate, writeback, flush_all, promote_to_l1, demote_to_l3, update_tier, batch_invalidate, batch_writeback, reset/get_statistics | the FPGA transport (`SpeckvDriver`, declared only) |
| CXL memory manager | `src/src/cxl_memory/cxl_memory_manager.cpp` | `page_table_`, `l1/l2/l3_pages_`, `l1_lru_list_`, `next_virtual_addr_`, physical cursors, `stats_`, three mutexes | allocate, deallocate, translate, is_in_cache, promote_to_l1 (+ evict_l1_lru), demote_to_l3, invalidate_page, mark_modified, update_access_tracking, is_hot_page | — |
| Allocator facade | `src/src/integration/memory_allocator.cpp` | `handle_map_`, allocator stats | cxl_malloc, cxl_free, cxl_access, prefetch_hint | memory manager, prefetcher |
| Speculative prefetcher | `src/src/prefetcher/speculative_prefetcher.cpp` | `adaptive_depth_` (atomic), `accuracy_history_`, outstanding FIFO (≤ 16), stats | prefetch, update_prediction_accuracy, handle_misprediction, set_prefetch_depth | memory manager (tier queries), LSTM predictor |
| LSTM predictor | `src/src/prefetcher/lstm_predictor.cpp` | weights (data) | predict_top_k | — |
| FPGA cache engine | `src/src/fpga_engine/cache_engine.cpp` | compression stats, TLB array | compress/decompress (quantize → delta → RLE), translate_address | — |
| Address translation | `src/src/utils/address_translation.cpp` | direct-mapped TLB | translate, invalidate, invalidate_all | — |
| Kernel driver | `src/driver/speckv_kernel_module.c` | DMA ring write/read pointers, `dma_pending`, MMIO registers | DMA batch, prefetch, set_param, poll_done ioctls | the device |
| Host library | `src/host/src/*.cpp` | device fd | ioctl wrappers, `sync_fetch_page` busy-wait | kernel driver |

### Hard behaviours

- Lock nesting in the memory manager. `promote_to_l1` holds `page_table_mutex_` when it evicts, and the eviction path locks that mutex again.
- Coherence transitions that touch the home agent (the FPGA) in the wrong order, or not at all:
  - invalidate drops dirty data without writing it back;
  - the line is marked invalid before the send.
- Statistics:
  - counters are incremented twice for one call;
  - counters are incremented without their mutex while a reset runs on another thread.
- Sequences of legal calls that break bookkeeping:
  - multi-page allocations;
  - unaligned addresses;
  - LRU entries for pages outside L1.
- Concurrency in the prefetcher: the adaptive depth is a check-then-increment, and the accuracy window has no lock.
- The device protocol:
  - a ring whose read pointer never moves;
  - a completion register that is read and then cleared;
  - a host busy-wait on that register.
- Numeric edges:
  - int8 overflow in quantisation;
  - division by zero in the ratios and averages.

### What makes each component correct

- **Coherence manager:**
  - each operation follows the MESI table of spec.md §4.E;
  - a failure leaves the directory unchanged;
  - dirty data reaches the home agent before a line leaves MODIFIED;
  - the statistics stay balanced (invariant 9). They also count calls (spec scenario 2); the double count at line 419 breaks that, and tests 2, 3 and 12 of `test_coherence.cpp` already show it.
- **Memory manager:**
  - no address aliases two pages (invariant 2);
  - tier capacity is respected (invariant 6);
  - the LRU list equals the L1 set (invariant 7);
  - deallocation removes the whole allocation (spec §8);
  - no call blocks for ever.
- **Prefetcher:**
  - 2 ≤ depth ≤ 8;
  - the FIFO stays at 16 or fewer;
  - L1/L2 pages are never prefetched;
  - scenario 5.
- **Codec:**
  - RLE and delta round-trips;
  - the quantisation error bound.
- **Driver:**
  - every submitted descriptor is eventually consumed or the caller is told;
  - completions are not lost.

## 2. Plan

The modules, most important behaviour first:

1. `CoherenceDirectory` (abstract) and `CoherenceManager` (detailed, refining it). **Done.**
2. `CXLMemoryManager`. **Done**, without its statistics.
3. `MemoryAllocator`: the facade, composing `CXLMemoryManager` through `INSTANCE`. **Done**, except:
   - the allocator statistics;
   - the LRU = L1 property (spec invariant 7). The code breaks it in both directions: `update_access_tracking` (line 241) appends pages of any tier to the list, and `allocate` in L1 adds nothing to it. Showing this needs a violation run of its own, and the run budget is spent. `LruNoDuplicates` checks the half of invariant 7 that the code keeps.
4. `SpeculativePrefetcher`, with two caller threads. **Done**, without its statistics. It covers the adaptive-depth race; the FIFO bound is part of its type invariant. Scenario 5 is not a state invariant and stays a hazard.
5. `CacheCodec`: RECURSIVE operators for RLE, delta and quantisation, and the engine's direct-mapped TLB. **Done**, without `set_num_engines` and the latency statistics.
6. `KernelDriver`, composed with the host library in `HostLibrary`, with the device as a process. **Done.** It checks liveness of a synchronous fetch under weak fairness of the device.
7. `CXLSpecKVSystem`: `process_tokens` and `generate_next_token`, composing the facade and the facade's prefetcher. **Done.** It shows that `process_tokens` on an empty batch leaves the facade a handle with no page.
8. Not planned: the address translation unit and top-k (see section 5).

The run budget is 12 runs in all, and all 12 are used:
- 2 coherence and 4 memory runs, and 1 system run;
- 2 prefetcher runs, 2 codec runs and 1 driver run.

## 3. The modules

### CoherenceDirectory (abstract)

This module is written from spec.md §4.E. It states what the directory promises:
- **State:** `state[l]` is the MESI state of each line. `op` is the last operation called, with the lines it named.
- **Op(name, S, f):** the operation `name`, called on the lines S, applies its row `f` of the table to S and leaves every other line alone.
- Because every step names its operation, a concrete step can only match its own row. For example, a writeback that left a line EXCLUSIVE could not pass as some other operation.
- **demote_to_l3:** either the clean row or no change. A line already in L3 has nothing to demote, and tiers are not part of this promise.
- **Transport failures are left out.** With a driver present, the completion wait is a stub that returns true, so no send fails.

### CoherenceManager (detailed)

This module models `coherence_manager.cpp`. Every public operation holds `directory_mutex_` for its whole body, transport call included, so each operation is one atomic step.

**Variables:**
- `directory`: a function over the lines that have entries. Entries never disappear, as in the code.
- `stats`: all seven counters.
- `lastResult`: the value the last operation returned.
- A history variable, `unwritten`: the lines whose last write has not been sent back to the home agent.
- A history variable, `lastOp`: the operation last called and its lines. Every action sets it.

**Actions and helpers:**
- **Actions:** one per operation. An operation whose code has an early return gets one action per branch, e.g. `InvalidateAbsent` and `InvalidateEntry`.
- **Send:** `send_coherence_op_to_fpga`. It returns false when the driver is null. Otherwise it counts the op as a hit and succeeds, because `wait_for_fpga_completion` is a stub that returns true.
- **DriverPresent:** the model's constant for which of these two cases holds. The tests and the C API always pass a driver.

**Refinement:** `Refinement` checks `Abs!Spec` with two mappings:
- `state ← StateOf(l)` (get_state: a missing entry reports INVALID);
- `op ← lastOp`.

### CXLMemoryManager

This module models `cxl_memory_manager.cpp`. Every public operation holds `page_table_mutex_`, so each is one step.

**Addresses:**
- Addresses are small naturals. A page is `PageSize` bytes, and operations receive every address below `VaLimit`, aligned or not, allocated or not.
- Unaligned addresses matter, because the code pushes and erases the caller's raw address in its vectors.
- The cursor starts one page above 0. 0 stands for the facade's failure value; the real cursor starts at 4 GiB, which is never 0.

**Self-deadlock:**
- `PromoteEvict` is promote_to_l1 with L1 full and a non-empty LRU list.
- `evict_l1_lru` pops the front of the list and calls `demote_to_l3`, which locks `page_table_mutex_` again on the same thread. libstdc++'s `std::mutex` is a default pthread mutex, which deadlocks on a relock.
- `blocked` becomes TRUE, and every action that takes `page_table_mutex_` is then disabled. The manager really stops there, which is why `Memory.cfg` sets `CHECK_DEADLOCK FALSE`.

**Left out:**
- `access_count` is counted up to `HotThreshold + 1` only, which is all `is_hot_page` can tell apart.
- Also left out, because no control decision reads them: the statistics, physical addresses, layer_id and timestamps.

### MemoryAllocator (composition)

This module models `memory_allocator.cpp` over `MM == INSTANCE CXLMemoryManager`, with the same constants and variables.

**Variables:**
- `handles` is `handle_map_`: base address → size.
- `pc` records where the `cxl_access` in progress is, and `accVa` the address it works on.

**Steps:**
- `cxl_free` and `cxl_access` hold `handle_map_mutex_` for their whole body, so at most one of them runs at a time.
- `cxl_access` is three steps, one per manager call:
  - `AccessTrack`: update_access_tracking;
  - `AccessInL1`: the L1 check and return;
  - `AccessPromote`: promote_to_l1.
- When the promotion evicts, `pc` stays `"promoting"` for ever: the thread is blocked inside `promote_to_l1`, holding the handle lock.
- `cxl_malloc` is one step, and it may fall between the steps of an access, because its `allocate` runs outside the handle lock.

**Left out:** the L2 branch of `cxl_access`. The facade always allocates in L3, and the manager moves pages only between L1 and L3, so that branch is unreachable.

### CXLSpecKVSystem (composition)

This module models `cxl_speckv_system.cpp`. It uses `FA == INSTANCE MemoryAllocator` and `PF == INSTANCE SpeculativePrefetcher`, the prefetcher the facade builds (`memory_allocator.cpp` line 29). `MC_CXLSpecKVSystem` instantiates it.

**The prefetcher instance:**
- Its depth starts at 4, and no caller thread or `set_prefetch_depth` is reachable through the facade, so the depth stays 4.
- `compute_kv_address` packs layer and position into 32 bits. Allocations start at 0x100000000, so no candidate is ever resident: `Resident` is empty.

**Variables:**
- `sysPc` is where the inference thread is in `process_tokens`: `"idle"`, `"layer"` (loop head), `"malloc"`, `"access"` (waiting for `handle_map_mutex_`) or `"accessing"` (inside `cxl_access`).
- `batch` is the batch: whether it has more than 16 tokens, and its `kv_size` in pages.
- `layer` is `layer_id`, and `kvPtr` is the layer's `kv_ptr`.
- `calls` and `clientCalls` bound the calls of the inference thread and of the other clients.

**Steps:**
- `ProcessTokens(b)` starts one batch; a call with several batches runs the same loop again.
- Per layer:
  - `LayerHint` (`prefetch_hint` when the batch is long) or `LayerNoHint`;
  - `LayerMalloc`: `cxl_malloc`. `allocate` never returns 0, so the `nullptr` return is dead code. An empty batch asks for 0 bytes;
  - `LayerAccess`: the first step of `cxl_access`, or its early return when another client has freed `kv_ptr`;
  - `LayerAccessRest`: the rest of the access, then the next layer.
- `LayersDone` returns true after the last layer.
- `GenerateNextToken(n, l)`: an empty history returns at once; 16 or more tokens issue `prefetch_hint`.
- `Client` and `ClientAccessRest` model other threads calling `cxl_free` and `cxl_access` on any handle.

**What it shows:** an empty batch has `kv_size` 0.
- `allocate(0)` creates no page and leaves the cursor where it is.
- The facade still stores a handle for the address, so the handle names no page.
- The next allocation returns the same pointer and overwrites the handle, so two callers share one pointer.

`process_tokens` also never frees its KV buffers. Their promotions fill L1, and the promotion that must evict blocks the inference thread for ever, holding `handle_map_mutex_` (the manager's self-deadlock). TLC reaches that state from `process_tokens`. No liveness property is checked here: that blocking promote is the only way `process_tokens` fails to return, and `memory_self_deadlock` already shows it.

### SpeculativePrefetcher

This module models `speculative_prefetcher.cpp`.

**Threads and steps:**
- `adaptive_depth_` is a `std::atomic`, but update_prediction_accuracy loads it for the bound check and then increments or decrements it in a second atomic operation.
- Each caller thread of update_prediction_accuracy therefore has a program counter `pc[t]`:
  - `UpdateWindow`: push the observation and compute the mean of the last 10;
  - `CheckIncrement` / `CheckDecrement`: the load and compare (`< 8`, `> 2`);
  - `Increment` / `Decrement`: the `++` / `--`, modulo `SizeMod` (a scaled-down size_t).
- `Prefetch(l)` and `SetPrefetchDepth(d)` are one step each. prefetch loads the depth once and pushes each request under `prefetch_queue_mutex_`.

**State:**
- `window` is the last `RecentN` entries of `accuracy_history_`; only those are ever read.
- `fifo` is `outstanding_prefetches_`. A request is its address and a serial number; the history variable `issued` numbers them.
- `Candidates(l, d)`: `compute_kv_address` depends on the layer and rank only. Addresses in `Resident` (L1 or L2) are skipped.
- `Resident` is `{}` in the runs: the memory manager's addresses start at 4 GiB, and `compute_kv_address(0, ...)` is always below 2^32, so `is_in_cache` is never true for them.

**Left out:** the statistics (`stats_`, handle_misprediction, get/reset_statistics). No decision reads them.

### CacheCodec

This module models compress and decompress of `cache_engine.cpp`.

**Stages:** each stage is an operator, with the C++ casts kept:
- `ScaleFactor`: max|x| / 127 as an exact rational `<<num, den>>`.
- `Quantize`: `round(x / s * 127)`, then `static_cast<int8_t>` (`Int8`, a wrap modulo 256). The scale already holds the 127, so the product reaches 127·127. The x86-64 build keeps the low byte of that out-of-range conversion.
- `DeltaEncode` / `DeltaDecode`: int8 differences and running sums, both wrapping.
- `Runs` (RECURSIVE): the RLE loop, cut at `RunCap` (the literal 255), with the value and count cast to uint8.
- `RunLengthDecode` (RECURSIVE): expands each pair, reading the value byte back as int8.

**Actions:** `Compress(xs)`, `Decompress` (of the last compressed record), `ResetStatistics` and `TranslateAddress(va)`.

**TLB (`translate_address`, lines 118–140):**
- `tlb[i]` is the `TLBEntry` of slot i: valid, the virtual page tag and the physical page.
- `TlbIndex(va)` is `(va >> 12) % tlb_size_`, `PageOf` the `& ~0xFFF` mask and `Walk` the simplified page walk `0x4000000000 + (va & 0xFFFFFFFFFFFF)`.
- A hit (`TlbHit`: valid and the tag equal) returns the cached page plus the offset. A miss returns the walk and refills the slot.
- `translated` holds the last address pair for the property.
- The constants `PageSize`, `TlbSize`, `AddrMod` and `PhysBase` stand for 4096, 1024, 2^48 and 0x4000000000.

**Statistics:** they are kept as counters plus whether the average ratio has become NaN. The ratio is 0/0 for an empty input.

### KernelDriver and HostLibrary (composition)

`KernelDriver` models `speckv_kernel_module.c` together with the FPGA behind its registers.

**Handlers:**
- An ioctl runs in the caller's process with no lock, so each process has a handler program counter `kpc[p]`.
- `handle_dma_batch` is split at its shared accesses:
  - `IoctlDmaBatch`: the count check and the kmalloc, which may fail (`KmallocFails`);
  - `DmaCheck`: the full-ring test `(wr + 1) % size = rd`;
  - `DmaWrite`: the descriptor written into the slot;
  - `DmaPublish`: the write pointer, its register and `dma_pending`.
- `handle_poll_done` is split into `PollRead` (ioread32 of the completion count) and `PollClear` (atomic_sub, then write 0).
- `handle_prefetch` and `handle_set_param` are one step each.

**Device:**
- `DeviceConsume` transfers the slot at the device's own read index up to the write-pointer register, and counts a completion.
- `DevicePrefetch` takes a started prefetch; its FIFO may fill or drain.
- The device is not under `src/`, so both actions are marked spec_modelled.

**Host library:** `HostLibrary` instantiates `KD == INSTANCE KernelDriver` and adds the library of each process:
- `SpeckvAllocator` alloc/free/access, with `allocs` and the L2 flag of `page_table_`;
- sync_fetch_page as `Access` (submit), `FetchPoll`, `FetchRepoll` and `FetchDone`;
- the driver wrappers `Prefetch` and `SetParam`.

The C API holds `g_mutex` for each whole call, the busy-wait included, so a process starts a call only when it is idle (`Idle(p)`).

## 4. Runs

| Run | Expect | Checks | What it shows |
|---|---|---|---|
| `coherence` | pass | TypeOK, StatsBalance, Refinement | With a driver present, every call of every coherence operation on two lines takes that operation's row of the MESI table, and hits + misses = reads + writes. |
| `coherence_lost_write` | violation | NoLostWrite | `request_write(a1); invalidate(a1)` leaves a1 INVALID with a writeback counted but never sent (spec §4.E row "invalidate / Modified"). |
| `system_empty_batch` | violation | HandlesLive | `process_tokens` on an empty batch calls `cxl_malloc(0)`. `allocate(0)` (line 31) takes no page and does not move its cursor, yet the facade stores a handle for the address, so that handle names no live page. The next allocation returns the same pointer. |
| `memory` | pass | TypeOK, LruNoDuplicates, NoAliasing | Over all sequences of manager calls, allocate never hands out an address of a live page, and the LRU list never holds an address twice. |
| `memory_self_deadlock` | violation | NoSelfDeadlock | Four steps: allocate L1, allocate L3, touch the L1 page, promote the L3 page. The thread relocks `page_table_mutex_`. |
| `memory_dealloc` | violation | DeallocateRemovesAllocation | deallocate of a two-page allocation leaves its second page. |
| `memory_l1_capacity` | violation | L1WithinCapacity | L1 ends up with two pages where one fits: promotion with an empty LRU list evicts nothing. |
| `prefetcher` | pass | TypeOK, DepthWithinRaceBound | With two controller threads, prefetches and set_prefetch_depth(2 or 8), the depth overshoots [2, 8] by at most one step per thread, so it stays in 0..10. |
| `prefetcher_depth_race` | violation | DepthBounds | Both threads see depth 3 and pass the `> 2` check, both decrement, and the depth is 1. spec.md §8 says 2 ≤ depth ≤ 8 for any sequence of calls. |
| `dma_fetch_hang` | violation | FetchReturns | Two processes fetch at once. Both `handle_dma_batch` calls read `dma_ring_wr_ptr` = 0 (line 87, no lock), so the second overwrites the first's descriptor, and together they publish one. The device completes it. The first poller takes that completion and marks its page fetched, although its descriptor was overwritten. The second `sync_fetch_page` polls 0 for ever, holding its `g_mutex`. The same wait never ends once a ring that never drains (line 88) is full. |
| `codec` | pass | TypeOK, LosslessAfterQuantize, RleStreamCanonical, TranslationMatchesWalk | For every input of up to 3 values in -2..2, decompress returns exactly the dequantised int8 values compress computed, quantisation wraps included. The RLE stream is canonical, with its counts capped. Every address `translate_address` returns, hit or miss, is the page walk's, and every valid TLB entry is in its own slot and caches its page's walk. |
| `codec_error_bound` | violation | ErrorBound | compress then decompress of [-2.0] returns -2/16129 (scale 2/127). Quantize multiplies by 127 twice, so it gives -16129, and the int8 cast keeps its low byte, -1, which dequantises to -1 × 2/16129. spec.md §8 bounds the error by max\|x\|/127, and scenario 3 expects the values back within it. |

Every property of a passing run has a mutant in `PROJECT.json`. A mutant is a plausible bug in the mapped code, and TLC finds the property violated under it:
- an uninitialised entry state;
- a write miss that is not counted;
- a writeback that cleans to EXCLUSIVE (the comment at line 151 allows it, the table does not);
- an off-by-one in allocate's page loop;
- a cursor not rounded to whole pages;
- update_lru without its erase;
- a window that keeps every observation;
- an increment without its `< 8` check;
- an RLE byte that is not cast to uint8;
- delta_decode adding neighbouring deltas rather than the running sum;
- an RLE run that continues at the 255 cap;
- a TLB hit that checks only the valid bit and skips the tag compare.

### Bounds and why they are enough

**Coherence** (`Coherence.cfg`):
- Two lines, so that batches and flush mix present and absent lines, and operations on one line run beside a dirty other line.
- Batches of up to 2 addresses, duplicates included.
- Statistics counters stop at `MaxStat = 2` until a reset, which is always enabled.
- Two counts are enough for every operation to run from every directory state. Every action fires, and the run reaches 38,053 distinct states in about 20 s.

**Memory** (`Memory.cfg`):
- Pages of 2 bytes and an L1 of one page, so L1 fills after one page.
- Allocations of 0 to 4 bytes: no page, one page or two pages, with and without rounding.
- An address space of two pages after the reserved one.
- Vectors of up to 2 entries, and a hot threshold of 1 (the code uses 10; only "above the threshold or not" matters).
- This reaches 2,812,726 states in about 100 s, including the multi-page, unaligned and full-L1 cases of every finding.

**System** (`System_HandlesLive.cfg`):
- Pages of 2 bytes and an L1 of 2 bytes (one page), so L1 fills.
- Batches of 0 to 3 bytes, long and short (an empty batch is short); 2 layers; at most 2 calls of the inference thread and 3 client calls.
- Client offsets 0–3 reach the second page of a two-page allocation.
- TLC finds the violation after one `process_tokens` call.

**Prefetcher** (`Prefetcher.cfg`):
- Two controller threads and one layer.
- The 10-observation window is kept at its real size `RecentN = 10`, so the 95% and 85% thresholds are the code's.
- The FIFO cap is 2 for the code's 16, and at most `MaxIssued = 4` requests are issued.
- set_prefetch_depth is called with 2 and 8, the bounds themselves.
- size_t is scaled to `SizeMod = 16`: a wrap shows as a value near 16.
- This reaches 13,597,570 states in about 90 s.
- `Prefetcher_DepthBounds.cfg` leaves set_prefetch_depth out, so the violation it finds comes from the two threads alone.

**Codec** (`Codec.cfg`):
- Inputs of up to 3 values in -2..2, with the RLE cap at 2 for 255.
- With max |x| = 2, the value 1 quantises to round(8064.5) = 8065, which wraps to -127. Neighbouring deltas then wrap too.
- [0, 0, 0] gives three equal deltas, which exceeds the cap.
- The TLB has 2 slots and pages of 2. The mask is 8 and the walk base 16.
- The addresses 0, 3, 5 and 9 cover:
  - pages 0, 1, 2 and 4;
  - pages 0, 2 and 4 sharing slot 0, so entries evict each other;
  - 9 aliasing 1 under the mask;
  - an offset of 0 and of 1.
- This reaches 29,128 states.

**Driver** (`Dma_FetchReturns.cfg`):
- Two processes, so that their ioctls interleave in the unlocked handlers.
- A ring of 3 slots for 1024, single-page allocations and at most 2 handles per process.
- Two concurrent fetches reach the slot overwrite and the stolen completion. Three fetches would fill a ring that never drains.

### Fairness

The only liveness property is `FetchReturns` in `HostLibrary`. It assumes two kinds of weak fairness:
- **The device's consume step:** the hardware eventually transfers a descriptor it has been handed.
- **Each process inside a call:** it keeps running, because an ioctl handler and sync_fetch_page's loop never block on a lock the model leaves out.

Starting a call is the user's choice, so it is not fair. The prefetcher and codec runs check safety only.

## 5. Not modelled, and why

- **The transport implementation:** `SpeckvDriver` is declared but not implemented under `src/`.
  - It is reduced to whether the driver pointer is null.
  - Per-call transport failures are not modelled, because the build cannot produce them.
  - So the hazards of a failing send, "INVALID before send" and "ignored writeback result", cannot happen in this build and are not listed.
- **Unlocked statistics increments racing `reset_statistics`:** each operation is atomic here.
- **The prefetcher's and the codec's statistics:** no decision reads them. The codec still records whether its average ratio has become NaN.
- **The address translation unit (`address_translation.cpp`):** nothing under `src/` calls it. Its miss path also adds the page offset twice: `page_walk` returns the base plus the whole address (line 89), and `translate` adds the offset again (line 45). Only a run of its own would show this, and all 12 runs are in use. The engine's own TLB, which is used, is modelled.
- **The engine's `set_num_engines` and its latency and throughput figures:** no decision reads them.
- **The LSTM predictor:** its floating-point weights are data with no control effect. `predict_top_k` always returns as many candidates as the depth asks for, since the vocabulary is far larger.
- **The coherence C API** is a set of stateless wrappers with null checks, around calls that are modelled.
- **The C API argument checks and `main.cpp`:** argument conversion and printing only.
- **`CXLSpecKVSystem::initialize`, `get_statistics` and `reset_statistics`:** initialisation is assumed to succeed, and the statistics functions are placeholders.
- **The driver's module exit, the parameter register values and the prefetch FIFO payload:** they have no control effect on the host.
