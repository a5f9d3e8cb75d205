----------------------------- MODULE Transfer -----------------------------
(***************************************************************************)
(* The write benchmark of benchmarks/io/gpu_io_benchmark.cu: every worker  *)
(* thread of the transfer kernel keeps up to Window requests outstanding   *)
(* in the ring, each with its own DMA buffer, and waits for the oldest     *)
(* through done_seq.  The host launches Batches such kernels one after the *)
(* other and shuts the scheduler down when the last has ended.  With       *)
(* Window = 1 a worker is a caller of the synchronous io_sched_write.      *)
(***************************************************************************)
EXTENDS SchedInv, Workload

CONSTANTS
  Count,       \* requests per worker and launch
  Window,      \* --window
  Tile,        \* --tile-pages
  Transpose,   \* --worker-order warp-transpose
  WarpSize,    \* 32
  Batches,     \* launches
  PageOrder    \* ae_page: the order in which a launch visits its pages

Workers == Cardinality(Producers)
PagesPerLaunch == Workers * Count

ASSUME TransferAssumption ==
  /\ Count \in Nat \ {0}
  /\ Window \in Nat \ {0}
  /\ Tile \in Nat
  /\ Count % EffectiveTile(Tile, Count) = 0
  /\ Transpose \in BOOLEAN
  /\ WarpSize \in Nat \ {0}
  /\ Transpose /\ Workers >= WarpSize => Workers % WarpSize = 0
  /\ Batches \in Nat \ {0}
  /\ IsFiniteSet(Producers)
  /\ Producers = 0 .. Workers - 1
  /\ Pages = 0 .. Batches * PagesPerLaunch - 1
  /\ PageOrder \in [0 .. PagesPerLaunch - 1 -> 0 .. PagesPerLaunch - 1]
  /\ \A x, y \in 0 .. PagesPerLaunch - 1 : PageOrder[x] = PageOrder[y] => x = y

VARIABLES
  launch,     \* launches before the current one
  iter,       \* worker -> loop counter i
  head,       \* worker -> position of its oldest outstanding request
  pending,    \* worker -> number of outstanding requests
  slots,      \* worker -> window position -> slot
  retired     \* history: slots whose worker saw them complete

workerVars == <<iter, head, pending, slots, retired>>
clientVars == <<launch, workerVars>>
vars == <<ringVars, schedVars, disk, clientVars>>

Init ==
  /\ RingInit
  /\ SchedInit
  /\ launch = 0
  /\ iter = [p \in Producers |-> 0]
  /\ head = [p \in Producers |-> 0]
  /\ pending = [p \in Producers |-> 0]
  /\ slots = [p \in Producers |-> [x \in 0 .. Window - 1 |-> 0]]
  /\ retired = {}

---------------------------------------------------------------------------
(* One worker of the transfer kernel *)

\* Mutant: the window check comes one request late.
MustWaitLate(p) == pending[p] > 0 /\ (pending[p] = Window + 1 \/ iter[p] >= Count)

MustWait(p) == pending[p] > 0 /\ (pending[p] = Window \/ iter[p] >= Count)

NextWindowPos(p) == (head[p] + pending[p]) % Window

\* The page of the i-th request of worker p in launch l.
PageAt(l, p, i) ==
  LET worker == ae_worker(p, Workers, Transpose, WarpSize) IN
  l * PagesPerLaunch
    + PageOrder[ae_index(worker, i, PagesPerLaunch, Workers, Tile)]

Address(p) == PageAt(launch, p, iter[p])

Request(p) == [off |-> Address(p), pe |-> p * Window + NextWindowPos(p)]

\* Wait for the oldest outstanding request, then free its window position.
AwaitOldest(p) ==
  LET ticket == slots[p][head[p]] IN
  /\ pc[p] = "out"
  /\ MustWait(p)
  /\ DoneSeqReached(ticket)
  /\ head' = [head EXCEPT ![p] = (@ + 1) % Window]
  /\ pending' = [pending EXCEPT ![p] = @ - 1]
  /\ retired' = retired \cup {ticket}
  /\ UNCHANGED <<ringVars, schedVars, disk, launch, iter, slots>>

StartEnqueue(p) ==
  /\ iter[p] < Count
  /\ ~MustWait(p)
  /\ ClaimSlot(p, Request(p))
  /\ UNCHANGED <<schedVars, disk, clientVars>>

ContinueEnqueue(p) ==
  /\ EnqueueStep(p)
  /\ UNCHANGED <<schedVars, disk, clientVars>>

\* io_sched_enqueue returns the slot, which the worker records.
FinishEnqueue(p) ==
  /\ Publish(p)
  /\ slots' = [slots EXCEPT ![p][NextWindowPos(p)] = my_slot[p]]
  /\ pending' = [pending EXCEPT ![p] = @ + 1]
  /\ iter' = [iter EXCEPT ![p] = @ + 1]
  /\ UNCHANGED <<schedVars, disk, launch, head, retired>>

WorkerStep(p) ==
  AwaitOldest(p) \/ StartEnqueue(p) \/ ContinueEnqueue(p) \/ FinishEnqueue(p)

---------------------------------------------------------------------------
(* The host *)

Ended(p) == pc[p] = "out" /\ iter[p] = Count /\ pending[p] = 0

LaunchEnded == \A p \in Producers : Ended(p)

NextLaunch ==
  /\ LaunchEnded
  /\ launch < Batches - 1
  /\ launch' = launch + 1
  /\ iter' = [p \in Producers |-> 0]
  /\ head' = [p \in Producers |-> 0]
  /\ pending' = [p \in Producers |-> 0]
  /\ slots' = [p \in Producers |-> [x \in 0 .. Window - 1 |-> 0]]
  /\ UNCHANGED <<ringVars, schedVars, disk, retired>>

shutdown_queue ==
  /\ LaunchEnded
  /\ launch = Batches - 1
  /\ ~shutdown
  /\ SetShutdown
  /\ UNCHANGED <<schedVars, disk, clientVars>>

---------------------------------------------------------------------------
SchedulerStep == SchedStep /\ UNCHANGED clientVars

ControllerStep == DeviceStep /\ UNCHANGED clientVars

Terminated == phase = "exit" /\ UNCHANGED vars

Next ==
  \/ \E p \in Producers : WorkerStep(p)
  \/ NextLaunch
  \/ shutdown_queue
  \/ SchedulerStep
  \/ ControllerStep
  \/ Terminated

Spec == Init /\ [][Next]_vars

(***************************************************************************)
(* Every worker thread, the scheduler block, the controller and the host   *)
(* keep running: the scheduler block is resident before the first worker   *)
(* is launched, and resident threads make progress.                        *)
(***************************************************************************)
Fairness ==
  /\ \A p \in Producers : WF_vars(WorkerStep(p))
  /\ WF_vars(NextLaunch)
  /\ WF_vars(shutdown_queue)
  /\ WF_vars(SchedulerStep)
  /\ WF_vars(ControllerStep)

FairSpec == Spec /\ Fairness

---------------------------------------------------------------------------
(* Properties *)

WorkerTypeOK ==
  /\ launch \in 0 .. Batches - 1
  /\ iter \in [Producers -> 0 .. Count]
  /\ head \in [Producers -> 0 .. Window - 1]
  /\ pending \in [Producers -> 0 .. Window]
  /\ slots \in [Producers -> [0 .. Window - 1 -> Nat]]
  /\ retired \subseteq Nat

TypeOK == RingTypeOK /\ SchedTypeOK /\ WorkerTypeOK

(***************************************************************************)
(* A page is written at most once, and from the DMA buffer of the request  *)
(* that asked for it: no request is lost in the ring, taken twice, mixed   *)
(* up with the one that reuses its slot, or merged at the wrong place.     *)
(***************************************************************************)
RightBufferOnce ==
  \A b \in Pages :
    \/ disk[b] = <<>>
    \/ \E s \in 0 .. prod_tail - 1 :
         Asked(s).off = b /\ disk[b] = <<Asked(s).pe>>

(***************************************************************************)
(* A worker's wait on done_seq ends only when the write it waits for is on *)
(* the SSD (io_sched_write: "Blocks until the NVMe write completes").      *)
(***************************************************************************)
WaitReturnsAfterWrite == \A s \in retired : Performed(Asked(s))

(***************************************************************************)
(* The inductive invariant behind WaitReturnsAfterWrite.                   *)
(***************************************************************************)
TicketsAreSlots ==
  /\ \A p \in Producers : \A x \in 0 .. Window - 1 :
       slots[p][x] = 0 \/ slots[p][x] < prod_tail
  /\ \A p \in Producers : pending[p] > 0 => prod_tail > 0
  /\ \A p \in Producers : Enqueuing(p) => iter[p] < Count /\ pending[p] < Window

RetiredInv == \A s \in retired : s < prod_tail /\ Performed(Asked(s))

IndInv == CoreInv /\ WorkerTypeOK /\ TicketsAreSlots /\ RetiredInv

(***************************************************************************)
(* Two requests that have not reached the SSD never share a DMA buffer:    *)
(* the window positions are recycled only after their write completed.     *)
(***************************************************************************)
BufferNotReused ==
  \A r, s \in 0 .. prod_tail - 1 :
    r # s /\ ~Performed(Asked(r)) /\ ~Performed(Asked(s))
      => Asked(r).pe # Asked(s).pe

(***************************************************************************)
(* The scheduler exits only after serving every request, and has counted   *)
(* each of them once in submitted_ios.                                     *)
(***************************************************************************)
ExitDrained ==
  phase = "exit" =>
    /\ \A s \in 0 .. prod_tail - 1 : Performed(Asked(s))
    /\ submitted_ios = prod_tail
    /\ merged_ios <= submitted_ios

(***************************************************************************)
(* Submission rounds hold at most KneeLimit commands, none longer than the *)
(* merge target, and no two of them touch the same page.                   *)
(***************************************************************************)
Blocks(c) == c.lba .. c.lba + c.nblks - 1

RoundsAreShaped ==
  /\ Cardinality(inflight) <= KneeLimit
  /\ \A c \in inflight : c.nblks <= MergeMax
  /\ \A c, d \in inflight : c # d => Blocks(c) \cap Blocks(d) = {}

(***************************************************************************)
(* Splitting writes the refined list behind the coarse one before copying  *)
(* it back; both lie in gsort_group_starts ("[capacity] parallel merge     *)
(* boundary positions").                                                   *)
(***************************************************************************)
SplitScratchFits ==
  phase = "submit" =>
    LET coarse == Boundaries(SortedKeys, SortedBytes, sh_accumulated) IN
    g_starts # coarse => Cardinality(coarse) + Cardinality(g_starts) <= Capacity

(***************************************************************************)
(* Every page is eventually written and the scheduler eventually exits.    *)
(***************************************************************************)
Termination == <>(phase = "exit" /\ \A b \in Pages : disk[b] # <<>>)

=============================================================================
