# A TLA+ model of ShaperIO

ShaperIO lets GPU threads issue NVMe I/O. A thread puts its request in a ring in
GPU memory; a persistent *scheduler* block drains the ring, sorts the requests by
offset, merges adjacent ones into commands of up to 2 MB, submits them in rounds
of bounded size to a queue pair it owns, and announces the completions. Around
it are a page cache with a victim buffer, queue pairs shared by many threads, a
host library that brings controllers up and maps memory for them, a Linux kernel
module, and the benchmark and experiment tools.

Paths are relative to `src/`: **H** is `include/io_scheduler.cuh`, **K**
`benchmarks/io_scheduler/io_scheduler_impl.cuh`, **P** `include/page_cache.h`,
**Q** `include/nvm_parallel_queue.h`, **B** `benchmarks/io/gpu_io_benchmark.cu`,
**W** `benchmarks/io/io_workload.h`. `PROJECT.json` maps every definition to its
lines and lists the hazards of the code at theirs.

## Parts and modules

| Part | Modules | What is hard about it |
|---|---|---|
| Request ring (H) | `IoRing` | slots reused lap after lap; publication out of order; 32-bit numbers; one flag shared by all occupants of a slot |
| Write scheduler (K) | `WriteScheduler`, `SchedInv` (inductive invariant) | 128 threads between barriers while producers publish; exit against late requests |
| Sort and merge (K) | `SchedMerge` (as functions), `BatchShaping` (radix sort step by step, PRP lists, sizes) | stability; scratch space; sizes |
| What the scheduler promises | `WriteService`, `TransferService` (refinement mapping), `ServiceInv` (its inductive invariant) | |
| Its clients (B, H) | `Transfer` (the benchmark's workers, launches, shutdown), `AsyncClient` (submit, wait, forget) | windows reuse buffers; flags reused |
| Page order (B, W) | `Workload`, `PageShuffle`, `PageCoverage` | must be a bijection |
| Queue pairs (Q, P) | `NvmeQueue` (the queues and the controller), `ParallelQueue` (tickets), `BatchQueue` (batches), `QueueUse` (either use) | many threads moving head and tail; polls the last completion only |
| Page cache, victim buffer (P, H) | `PageCache` | reference counts against eviction; dirty bits; buffers swapped |
| Admin queue, RPC (`src/rpc.cpp`, `admin.cpp`, `queue.cpp`) | `AdminQueue` | timeouts and late completions |
| Start and stop (`ctrl.h`, `queue.h`, P, H) | `Startup`, `PageTables` (the address tables) | one step of many failing; index arithmetic |
| Handles (`src/ctrl.cpp`, `dma.cpp`, `linux/`) | `Handles` | reference counts of two levels |
| Kernel module (`module/`) | `Driver`, composed with `Handles` | lists walked without the lock; processes that die |

`MC*` modules hold constants for TLC. The `*Proofs` modules hold theorems and
proofs; see *Proofs*.

Variables keep the code's names. `asked`, `retired`, `waited`, `disk`, `drained`,
`touched`, `done`, `before`, `covered`, `finished`, `missed` and `astray`, and the
field `droppers` of a mapping, are histories that no action's guard reads. Definitions commented *Mutant* are
plausible bugs used to confirm that each property can fail; no specification uses
them.

### How the actions correspond to the code

*Enqueue* (H 288-336): `ClaimSlot` (fetch_add), `LeaveFull` (the load that ends
the wait), `ClearFlag`, `WriteEntry`, `Publish`. Numbers are kept unwrapped and
compared modulo `SeqMod` (2^32 in the code), so steps depend only on wrapped
values while properties can tell laps apart.

*Scheduler* (K 269-1016): `OpenBatch`, `BoundRound`, `LaneCheck` for each thread,
`CountReady`, `LaneDrain` for each thread, `EndRound`, `EmptyRound`, `WaitProbe`,
`WaitOver`, `Sort`, `Merge`, `Submit`, `SubmitReturn`, `SubmitDone`, `Notify` for
each position, `Advance`. Threads act in any order between barriers.

*Ticketed calls*: `get_cid`; `sq_enqueue` (Q 167-330) is `TakeTicket`,
`CopyCommand`, then rounds of `CheckTailMark`, `LockTail`, `move_tail`, `RingSq`;
`cq_poll`; `cq_dequeue` (Q 424-535) is `LockPosition`, rounds of `CheckHeadMark`,
`LockHead`, `TakeHeadMark`, `move_head_cq`, `RingCq`, `AdvanceCqHead`, then
`ReleasePosition`; `put_cid`. `read_data` adds `TakePosition`, `CheckSecond`,
`enqueue_second`, `SecondDone`. A record per call (`read_data`, `write_data`, ...)
says which of these it goes through.

*Batch calls*: the submission, the poll of the last completion and the release of
the two queues; a record per call says what it does differently.

*Page cache*: `acquire_page` is `Pin`, `SetBusy`, `ClearBusy`, `Hit`, `Reload`
and, on a miss, `find_slot` (`TakeSlot`, `Inspect`, `Claim`, `Unclaim` or the
eviction, `Clear`, `Assign`), `ReadIn`, `Publish`; then `Use` and `release_page`.
The scheduler behind it is `Perform` and `Notify`, in any order.

*Start*: `Open`, the reset (`Disable`, `Enable`, `ResetDone` or
`ResetTimesOut`), the admin commands of `initializeController`, `Register`, a CQ
and an SQ for each pair, `MakeCache`, `io_sched_create`, `victim_create`, and the
destruction in reverse. `Throw` and `CacheThrows` are exceptions: only members that
have been constructed are destroyed. An admin command is `nvm_raw_rpc` (lock), `Submit`, and
`Complete` or `TimeOut`.

*Handles and driver*: a library call is a step per lock or ioctl; an ioctl is a
step per element of the list it walks.

*Controllers* (external) fetch commands in order and complete them in any order.

### Decisions and abstractions

- Memory is sequentially consistent. The shared words are volatile or atomic and
  the code fences between entry and publication.
- The build's options are fixed: global sort 2, parallel drain and merge, batched
  writes, buffers swapped. Code compiled out is not modelled. The pause
  (K 775-804) is dead: nothing sets `sched_paused`.
- The block's reading of `shutdown` and its second scan are one step. In the code
  each thread loads `shutdown` itself; see the hazard at K 347.
- In `WriteScheduler` a round ends when the controller has completed all its
  commands. That the poll of one completion achieves this is `WholeBatchDone`.
- Commands succeed: the code reads only the phase bit (P 3142).
- In `WriteScheduler` all requests have one size, as with every caller in the
  repository. `BatchShaping` has sizes as a parameter.
- `Sort` takes any order in `StableOrders`; run `batch_uniform` shows that the
  radix sort produces it.
- `done_seq` and `done_flags` are stored in one step: no reader looks at both.
- A queue pair is used either by ticketed calls or by batches, as the code asks.
- In `PageCache` a thread stands for the lanes of a warp that meet on a page. A
  buffer's content is the page it came from and the set of writes made to it.
  The scheduler is what `WriteService` promises: a set of requests, each performed
  once and then announced. The override of the eviction's controller, the staging
  buffer and the fake delay of the experiments are left out.
- The identifier of an admin command is left out, since no code compares it.
- `Driver` abstracts pages to buffers: a buffer is pinned and mapped, or not. Its
  address is a GPU page and a place in it, since `map_find` also compares by GPU
  page. A walk that stands on a removed element goes on to any element or ends.
  A device is removed only when nothing is mapped for it, and the GPU driver
  takes memory back only after the process has closed its file.
- `PageCoverage` omits the latency option, the check against the namespace size
  and the warm-up launch without workers.
- In `Startup` the allocations of one step fail together. `cuda_err_chk` only prints
  (`util.h` 36), so what it wraps is not a failure there. A field that a failed
  `cudaMalloc` leaves unset reads as null or as anything; freeing it ends the model.
- `io_sched_submit*`, `io_sched_wait` and `io_sched_access` have no caller in the
  repository.

## Runs

| Run | Instance | Result |
|---|---|---|
| `transfer_laps` | 2 workers, window 2, 3 requests each in random order, ring of 4, knee 2 | `RightBufferOnce`, `WaitReturnsAfterWrite`, `BufferNotReused`, `ExitDrained`, `RoundsAreShaped` hold; `ImplementsService`: it refines `WriteService` |
| `transfer_terminates` | 2 workers, 2 launches, ring of 2, fairness | `IndInv`, `ServiceInv`, `Termination` hold |
| `async_callers` | 2 callers, each holding one pointer, 2 requests each, some forgotten, ring of 2 | `EveryWaitReturns`, `FlagMeansDone`, `ForgottenAreServed` hold |
| `coverage` | about 110,000 small command lines, and random orders of up to 2^14 pages | `CoversOnce` holds |
| `batch_uniform` | up to 5 requests of one size, 2 warps of 2 | `SortedStably`, `BlocksFromOwnBuffer`, `GroupsWithinTarget` hold |
| `queue_use` | queues of 2 and 4 after three commands; 2 threads with up to two calls, or 3 batches of up to 3 | `CidsDistinct`, `OwnCompletion`, `FetchedOnce`, `ReadIsCovered`, `WholeBatchDone`, `UseInv`, `EveryCallReturns` hold |
| `page_cache` | 2 threads, 4 pages, 2 slots, 1 victim entry, seven setups, then the flush | `HoldsLatest`, `OneOwner`, `CacheInv`, `NothingLost`, `EveryAccessReturns` hold |
| `startup` | eight configurations, failing allocations, mappings and commands, 2 further threads on the admin reference | `OwnReply`, `Usable`, `TablesReachEntries`, `NothingElseLeaked`, `StartEnds` hold |
| `handles` | 3 tasks in 2 processes, 2 devices, 6 buffers | `HandlesMapped`, `IoctlOnOpenFile`, `RemovedOnce`, `UnmapUnpins`, `OwnMappingFound`, `AllGivenBack`, `ProgramsEnd` hold |
| `transfer_split` | a full batch with one long run | `SplitScratchFits` violated |
| `cache_prp` | pages of four PRPs and a victim entry | `HoldsLatest` violated |
| `admin_late` | an admin command answered after its timeout | `OwnReply` violated |

### Why the bounds suffice

- Six requests on a ring of four lap it; three requests on a window of two reuse
  a window position. In the random order (even pages first) a batch has separate
  groups, more than the knee limit of two, and runs above the target of two.
- Workers of `transfer_terminates` are synchronous, and its two launches are
  sequential: `main` rejects several launches in random order. Its ring still
  fills, since a worker can return before `cons_head` advances.
- The batches of `batch_uniform` exceed the four threads, so a pass takes two
  chunks; the pass count is even, as in the code (6), so the result ends in the
  caller's buffers.
- 2^14 pages make every shift of `ae_page` (7, 13, 11) take effect.
- `queue_use` starts after three commands: the queue of 2 is on its second lap,
  that of 4 goes into it, so the phase changes; two entries hold one command, so
  a thread waits for its slot; batches go up to what the queue takes, and may be
  empty. The counter of identifiers wraps in both uses; the ticketed calls are too
  few for it to come round to an identifier still in use.
- The ring of `async_callers` is lapped while both callers hold a pointer.
- `page_cache` has more pages than slots and as many slots as threads, each of
  which holds one page; one victim entry is taken when a second is wanted.
- `startup` has cache entries of half a controller page, one, two and four, whose
  GPU pages are mapped back to front, and admin queues that wrap. In one setup the
  queues exceed a GPU page, the size of the PRP lists its width, and `max_range` is
  not a power of two.
- In `handles` a process has two threads, which drop the handles of one mapping in
  one program; another dies with mappings; two buffers share a GPU page; and a
  second device comes and goes.

### Fairness

Weak fairness of every worker, caller and GPU thread, of the schedulers, the
controller, the host and the launched flush kernel. The scheduler block is
resident before the first worker is launched, and resident threads make progress;
the scheduler's fairness is that of the block as a whole. `startup` assumes it of
the host alone: `StartEnds` does not depend on the controller answering, since
every wait of the host has a timeout. `handles` assumes it of tasks in the library
and in ioctls, not of exits, device removal or unload.

## What the violations mean

1. **Split scratch** (`transfer_split`, K 639): the refined list is written behind
   the coarse one in an array of `capacity` entries; both may not fit.
2. **PRP list after a swap** (`cache_prp`, P 2228): the swap of a slot's buffer with
   a victim entry sets `prp2` to the second sub-page; with more than two sub-pages
   it should be the address of a PRP list, and the next read lands elsewhere.
3. **Late admin completion** (`admin_late`, `src/rpc.cpp` 300): a command that timed
   out stays outstanding and the next caller takes its completion.

### Conditions

The code does not enforce some of what the passing runs rest on. Where the exceptional
case can occur in a run, the property names it as an exception, and without the
exception TLC finds the property violated in the same run:

| Property | Exception | Why |
|---|---|---|
| `EveryWaitReturns` | a slot is taken again while a caller holds the pointer to its flag (`Overtaken`) | the flag is cleared before its waiter saw it (H 314) |
| `HoldsLatest`, `NothingLost` | pages written through a `bam_ptr` when slots and page numbers differ (`Strays`) | the slot is used as a page number (P 1767), so another page is marked dirty |
| `Usable`, size within a GPU page | controllers without CQR | the size is then not reduced (`queue.h` 100-107) |
| `TablesReachEntries`, PRP lists | a size of 2^32 bytes or more (`ListFits`) | `prp_list_size` has 32 bits (P 990) |
| `TablesReachEntries`, victim tables | entries smaller than a controller page | the table steps by controller pages (H 757) |
| `TablesReachEntries`, global addresses | `max_range` not a power of two | shift and mask then overlap (P 881) |
| `NothingElseLeaked` | `NeverFreed`, by where the host turned back | `~Controller` and `~page_cache_t` do not run after an exception in the constructor; `createDma` keeps memory it cannot map (`buffer.h` 200); `page_vaddrs` and the registration are never given back |
| `RemovedOnce` | references dropped by several threads | `put_map` reads `va` after unlocking (`src/dma.cpp` 211) |
| `OwnMappingFound`, `UnmapUnpins` | a walk that stood on an element while it was removed (`astray`) | `map_find` takes no lock (`module/map.c` 73) |
| `UnmapUnpins` | unmapped by a thread other than the one that mapped | `map_find` compares the task (`module/map.c` 82) |
| `UnmapUnpins`, `HandlesMapped` | buffers in one GPU page (`Apart`) | `map_find` also compares the address rounded to a GPU page (`module/map.c` 82) |

The others are conditions on the constants, and can be dropped by changing them:

| Condition | Change | What fails |
|---|---|---|
| fewer than 2^32 requests on a ring (H 394) | `transfer_laps`, `SeqMod = 4`, `Capacity = 2` | `WaitReturnsAfterWrite`: a wait returns before its write |
| fewer than 2^32 commands on a queue pair (Q 184) | `queue_use`, `TicketMod = 4` | deadlock: the lap of a ticket restarts, the counter of its slot does not |
| the PRP pool is mapped (H 622, K 669) | `transfer_terminates`, `PrpSlots = 0` | `Termination`: submission does not advance |
| one request size (K 748, K 649) | `batch_uniform`, `Sizes = {1, 2}`, `Offsets = 0 .. 4`, `MergeTarget = 2` | `BlocksFromOwnBuffer`, `GroupsWithinTarget` |
| victim buffer with a scheduler, or one block to a page (P 2178) | `page_cache`, `Setups <- FallbackSetups` | `NothingLost`: written to a wrong block |

The victim buffer is used with disjoint regions, as the code asks (P 1374): a page
written and evicted is not used again before the flush. With other accesses a
page can be read from the SSD before its victim entry is written.

## The refinement

`WriteService` accepts requests, performs each once from its own buffer, answers a
request only after it was performed, lets its caller return after that, and closes
when nothing is left. `TransferService` maps `asked`, `disk`, the slots whose
`done_seq` is reached, `retired` and the exit of the scheduler to it.
Every step of ring, scheduler, controller and workers is a step of the service or
leaves it unchanged: `transfer_laps` checks it on an instance, and
`ServiceProofs!Refinement` proves it for all of them.

| Step of `WriteService` | Step of `Transfer` |
|---|---|
| `Accept` | `StartEnqueue`: the slot is claimed |
| `Perform` | `DeviceComplete`: a command writes the pages of its group |
| `Answer` | `Notify` |
| `Return` | `AwaitOldest` |
| `Close` | `EmptyRound`, when it leaves |
| none | every other step |

## Proofs

The write path, for every number of workers, window, number of launches, ring size,
block size, merge target, PRP pool and knee limit:

| Theorem | States |
|---|---|
| `ServiceProofs!Invariance` | `Spec /\ []NoWrap => []IndInv` |
| `ServiceProofs!TypeCorrect` | the type invariant |
| `ServiceProofs!WaitIsSound` | `WaitReturnsAfterWrite` |
| `ServiceProofs!BuffersSafe` | `BufferNotReused` |
| `ServiceProofs!PagesWrittenOnce` | `RightBufferOnce` |
| `ServiceProofs!RoundsShaped` | `RoundsAreShaped` |
| `ServiceProofs!ServiceInvariance` | `ServiceInv` |
| `ServiceProofs!DrainedOnExit` | `ExitDrained` |
| `ServiceProofs!Refinement` | `Spec /\ []NoWrap => ImplementsService` |
| `ServiceProofs!CounterNeverWraps` | `Batches * PagesPerLaunch < SeqMod` implies `[]NoWrap` |
| `ServiceProofs!WholeRunIsCorrect` | under that bound, the refinement and the five safety properties, without `NoWrap` |
| `AlgorithmProofs!IndexInjective`, `IndexInRange`, `WorkerInjective` | the benchmark's index functions neither collide nor leave the range |
| `AlgorithmProofs!GroupsWithinMergeTarget` | the split leaves no group above the target |

Batch calls on a queue pair, for every queue size, kind and size of batch, number of
batches and earlier commands:

| Theorem | States |
|---|---|
| `QueueProofs!UseInvariance` | `UseSpec => []UseInv` |
| `QueueProofs!BatchesComplete` | `WholeBatchDone` |
| `QueueProofs!BatchCids` | `CidsDistinct`, while the pair is used by batches |
| `QueueProofs!BatchFetches` | `FetchedOnce`, while the pair is used by batches |

The page cache, for every number of threads, pages, slots and victim entries, every
plan of accesses and every way a dirty page leaves:

| Theorem | States |
|---|---|
| `CacheProofs!CacheInvariance` | `Spec => []CacheInv` |
| `CacheProofs!SlotsHaveOneOwner` | `OneOwner` |

`NoWrap` (fewer than `SeqMod` requests so far) is a hypothesis because the
properties are false without it (see *Conditions*). It is not an assumption
about the scheduler: a run claims each of its pages once, so one that writes fewer
than `SeqMod` pages (2^32) has it, which is what `CounterNeverWraps` says. The
other hypotheses are the named assumptions on the constants, among them that the
page order is injective.

### The argument

*`IndInv`*, for the waits. That a wait returns only after the write says nothing
inductive about how `done_seq` got its value. `DoneSeqInv` says a number covers
only slots consumed or being notified; `ServedBeforeNotified` that those are on the
SSD. This needs `SubmitInv` (groups before `gpos` are on the SSD, those of the
round are there or in flight), `SortInv` and `MergeInv` (groups cover the whole
batch), `BatchIsAsked`, `BallotInv` and `DrainInv` (what was drained is what was
asked for), and `RingInv` (a published slot holds its producer's request and nobody
overwrites it within the lap). `SchedulerProofs` shows that the scheduler and
the controller keep this, `TransferProofs` the producers, the workers and the host.

*`ServiceInv`*, for everything else, on top of `IndInv`:

- `PagesInv`: every slot holds a request that some worker has begun, and no page is
  asked for twice. It rests on the injectivity of the index functions and bounds
  `prod_tail` by the number of pages (`WorkerProofs`).
- `WindowInv`: the slots that have not returned are exactly those in the workers'
  windows, each in the position whose buffer it names. Positions are taken modulo
  `Window`; a buffer belongs to one worker and one position. Hence
  `BufferNotReused` (`WorkerProofs`).
- `ShapeInv` and `FreshInv`: commands in flight are those of the current round and
  no longer than the target, and nothing of a group is on the SSD before its
  command completes. Sorted groups of distinct pages do not overlap, so a
  completion writes the pages of its own group, each for the first time. Hence
  `RightBufferOnce` and `RoundsAreShaped` (`CommandProofs`).
- `ClaimedInv`: a claimed slot is published or its producer is still filling it.
  After the shutdown nobody is, so the second scan of an empty round sees whatever
  is left. `ExitInv` adds what shutdown says about the workers and what the
  counters count. Hence `ExitDrained` (`WorkerProofs`).
- `AnswersInv`: consumed slots are answered, and the notified ones of the batch. A
  batch is at most one lap long, so raising one number takes back no answer, and
  `cons_head` passes a batch only when all of it has been answered
  (`CommandProofs`).

`CommandProofs` and `ServiceProofs` then show, action by action, which step of
`WriteService` is taken; the table under *The refinement* is the case split of
`ServiceProofs!NextServes`. `AlgorithmProofs` has the facts about division, stable
orders, groups and contiguous runs. `transfer_terminates` checks
`IndInv` and `ServiceInv` as invariants.

*`UseInv`*, for the batches. A call polls the completion of its last command; that
this is enough depends on the controller filling the CQ in order, on phases, and on
what the last call left behind. `BatchInv` therefore says that between calls the
pair is `Quiet` (both rings drained, heads and tails equal, nothing executing), and
while a call polls it is `Waiting`: what the controller has fetched of the batch is
executing or has a CQ entry, and `PhasesTell` an entry of this call from one of an
earlier lap. An entry with the new phase at the last position then means that
all earlier positions were filled, which is `LastIsAll`. The commands of a batch fit
into the queue, so their slots and identifiers differ although nothing locks them.
The ticketed calls are outside this invariant.

*`CacheInv`*, for the cache. A page's BUSY and a slot's lock are bits in shared
words that do not say who set them; the invariant names the owner by what the
threads are doing (`HoldsBusy`, `LocksSlot`, `Fills`). `LocksInv` and `BusyInv` give
each one owner, and say that a thread that loads a page sees it invalid and one that
evicts sees it valid. `SlotsInv` relates the two directions of the mapping: a valid
page is in the slot it names, and a slot in use holds a valid page, or one being
read, or was just emptied by the thread that holds its lock. `BuffersInv` says that
slots and victim entries together hold every buffer, which by counting means that
none is shared. The proof has one lemma for each action of a thread. It uses
`NSlots <= NPages`, because `bam_ptr` indexes the pages with a slot number.
`page_cache` checks `CacheInv`, `queue_use` `UseInv`.

### Only model-checked

- Liveness (`Termination` and the other properties under fairness): outside the
  prover's reach.
- The radix sort and the bijection `ae_page`: what a loop computes needs induction
  over data, and `PageShuffle` uses bitwise operators. The proofs take the sort as
  any stable order and the page order as any injection; `batch_uniform` and
  `coverage` show that the code's are such.
- `SplitScratchFits` is violated, so there is nothing to prove.
- `HoldsLatest` and `NothingLost`: the content of buffers depends on DIRTY and on
  the plans of the setups (disjoint regions behind a victim buffer, no straying
  pages), and they are false for others; `CacheInv` does not speak of content.
- The ticketed calls (`OwnCompletion`, `ReadIsCovered`, and `CidsDistinct` and
  `FetchedOnce` for them): their invariant has to follow the marks that threads set
  and clear for each other over the laps of two rings; not attempted.
- The asynchronous callers, the start, the handles and the driver: no theorems.

## Not modelled

- The read scheduler kernels (K 1020-1702): a second `WriteScheduler` of the same
  size; their batch calls are in `BatchQueue`.
- The thread-by-thread shutdown check (K 347): threads that disagree meet different
  barriers, which CUDA leaves undefined.
- `tlb`, `bam_ptr_tlb`, `bafs_ptr`: templates that nothing instantiates.
- `sq_dequeue`, `move_head_sq`, and the handles and bindings of remote managers:
  nothing calls them.
- Weak memory, completion status, and what the controller does after its queues'
  memory was freed.
- The experiment runner: sequential scripts around external programs. The GDS
  benchmark: blocking library calls. Option parsing, command and register layouts,
  error strings, plotting, and the variants that the build does not compile.

## Next

Proofs for the ticketed calls (`OwnCompletion`) and the asynchronous callers
(`FlagMeansDone`); then the read scheduler.
