-------------------------- MODULE WriteScheduler --------------------------
(***************************************************************************)
(* io_scheduler_kernel in the configuration the build uses (global sort,   *)
(* parallel drain, parallel merge, batched submission): one persistent     *)
(* block of SchedThreads threads drains the ring, sorts, merges, submits   *)
(* to its own queue pair in rounds of KneeLimit commands, and notifies.    *)
(*                                                                         *)
(* The block's threads meet at __syncthreads between phases.  Within a     *)
(* phase each thread reads or writes its own words at its own time: lanes  *)
(* is the set of threads that have not yet reached the next barrier.       *)
(* Request sizes are those of one caller that always uses the same size,   *)
(* so offsets and sizes are counted in requests.                           *)
(***************************************************************************)
EXTENDS IoRing, SchedMerge

CONSTANTS
  SchedThreads,   \* kSchedThreads
  MaxDrain,       \* 64 * 2^(MaxDrain-1) ns is the longest drain wait (8192 ns)
  MergeMax,       \* kSchedMergeTarget, in requests
  PrpSlots,       \* groups per PRP chunk: prp_pool_n_slots or kSchedMaxBatch
  KneeLimit,      \* kSchedKneeLimit
  Pages           \* SSD pages

ASSUME SchedAssumption ==
  /\ SchedThreads \in Nat \ {0}
  /\ MaxDrain \in Nat \ {0}
  /\ MergeMax \in Nat \ {0}
  /\ PrpSlots \in Nat
  /\ KneeLimit \in Nat \ {0}

VARIABLES
  phase,
  sh_base_head,    \* cons_head when the batch was opened
  sh_accumulated,  \* requests drained into the batch
  sh_avail,        \* size of the current drain round
  ballot,          \* thread -> did it find its slot ready
  lanes,           \* threads still to act before the next barrier
  sh_drain_ns,     \* adaptive wait, as a level: 64 * 2^(level-1) ns
  ns,              \* what is left of the current wait
  gsort,           \* batch index -> drained request (keys, pc_entries)
  g_vals,          \* sorted position -> batch index
  g_starts,        \* positions where a merge group starts
  gpos,            \* groups submitted so far
  inflight,        \* commands the controller has not completed
  to_notify,       \* sorted positions still to notify
  submitted_ios,
  merged_ios,
  disk             \* history, per SSD page: the buffers written to it

drainVars == <<sh_avail, ballot, lanes, sh_drain_ns, ns>>
batchVars == <<sh_base_head, sh_accumulated, gsort>>
mergeVars == <<g_vals, g_starts, gpos>>
schedVars == <<phase, drainVars, batchVars, mergeVars, inflight, to_notify,
               submitted_ios, merged_ios>>

Lanes == 0 .. SchedThreads - 1

Min2(a, b) == IF a < b THEN a ELSE b

SchedInit ==
  /\ phase = "base"
  /\ sh_base_head = 0
  /\ sh_accumulated = 0
  /\ sh_avail = 0
  /\ ballot = [t \in Lanes |-> FALSE]
  /\ lanes = {}
  /\ sh_drain_ns = MaxDrain
  /\ ns = 0
  /\ gsort = [k \in RingIdx |-> ZeroEntry]
  /\ g_vals = <<>>
  /\ g_starts = {}
  /\ gpos = 0
  /\ inflight = {}
  /\ to_notify = {}
  /\ submitted_ios = 0
  /\ merged_ios = 0
  /\ disk = [b \in Pages |-> <<>>]

GotoPhase(from, to) ==
  /\ phase = from
  /\ phase' = to

---------------------------------------------------------------------------
(* Phase 1: accumulate *)

OpenBatch ==
  /\ GotoPhase("base", "tail")
  /\ sh_base_head' = cons_head
  /\ sh_accumulated' = 0
  /\ UNCHANGED <<ringVars, drainVars, gsort, mergeVars, inflight, to_notify,
                 submitted_ios, merged_ios, disk>>

\* Thread 0 bounds the round by what is claimed, by the room and by the block.
BoundRound ==
  /\ GotoPhase("tail", "ballot")
  /\ LET pending == U32(prod_tail - (sh_base_head + sh_accumulated))
         room == Capacity - sh_accumulated
     IN  sh_avail' = Min2(Min2(pending, room), SchedThreads)
  /\ lanes' = Lanes
  /\ UNCHANGED <<ringVars, ballot, sh_drain_ns, ns, batchVars, mergeVars,
                 inflight, to_notify, submitted_ios, merged_ios, disk>>

LaneCheck(t) ==
  /\ phase = "ballot"
  /\ t \in lanes
  /\ ballot' = [ballot EXCEPT
       ![t] = t < sh_avail /\ ReadyAt(sh_base_head + sh_accumulated + t)]
  /\ lanes' = lanes \ {t}
  /\ UNCHANGED <<phase, ringVars, sh_avail, sh_drain_ns, ns, batchVars, mergeVars,
                 inflight, to_notify, submitted_ios, merged_ios, disk>>

(***************************************************************************)
(* Thread 0 counts the ready prefix of the ballot, k threads.  What an     *)
(* empty round leads to depends on whether the batch holds requests.       *)
(***************************************************************************)
ReadyPrefix(k) ==
  /\ \A u \in 0 .. k - 1 : ballot[u]
  /\ k < SchedThreads => ~ballot[k]

AfterCount(k) ==
  \/ k > 0 /\ phase' = "drain" /\ lanes' = 0 .. k - 1 /\ ns' = ns
  \/ k = 0 /\ sh_accumulated = 0 /\ phase' = "empty" /\ UNCHANGED <<lanes, ns>>
  \/ k = 0 /\ sh_accumulated > 0 /\ phase' = "wait" /\ lanes' = lanes /\ ns' = sh_drain_ns

CountReady ==
  /\ phase = "ballot"
  /\ lanes = {}
  /\ \E k \in 0 .. SchedThreads :
       /\ ReadyPrefix(k)
       /\ sh_avail' = k
       /\ AfterCount(k)
  /\ UNCHANGED <<ringVars, ballot, sh_drain_ns, batchVars, mergeVars,
                 inflight, to_notify, submitted_ios, merged_ios, disk>>

LaneDrain(t) ==
  /\ phase = "drain"
  /\ t \in lanes
  /\ gsort' = [gsort EXCEPT ![sh_accumulated + t] =
                 entries[Idx(sh_base_head + sh_accumulated + t)]]
  /\ lanes' = lanes \ {t}
  /\ UNCHANGED <<phase, ringVars, sh_avail, ballot, sh_drain_ns, ns, sh_base_head,
                 sh_accumulated, mergeVars, inflight, to_notify,
                 submitted_ios, merged_ios, disk>>

\* A full round tries for more at once; a partial one waits.
EndRound ==
  /\ phase = "drain"
  /\ lanes = {}
  /\ sh_accumulated' = sh_accumulated + sh_avail
  /\ phase' = IF sh_avail = SchedThreads THEN "tail" ELSE "wait"
  /\ ns' = sh_drain_ns
  /\ UNCHANGED <<ringVars, sh_avail, ballot, lanes, sh_drain_ns, sh_base_head, gsort,
                 mergeVars, inflight, to_notify, submitted_ios, merged_ios, disk>>

\* Mutant: the block leaves without the second scan.
EmptyRoundNoRescan ==
  /\ phase = "empty"
  /\ phase' = IF shutdown THEN "exit" ELSE "tail"
  /\ UNCHANGED <<ringVars, drainVars, batchVars, mergeVars, inflight, to_notify,
                 submitted_ios, merged_ios, disk>>

\* Mutant: the block leaves whenever it finds nothing.
EmptyRoundNoShutdown ==
  /\ phase = "empty"
  /\ phase' = IF ~ScanFindsReady(sh_base_head, Capacity) THEN "exit" ELSE "tail"
  /\ UNCHANGED <<ringVars, drainVars, batchVars, mergeVars, inflight, to_notify,
                 submitted_ios, merged_ios, disk>>

(***************************************************************************)
(* Nothing drained and nothing accumulated: leave only if shutdown is set  *)
(* and a second scan, made after reading it, still finds nothing.          *)
(***************************************************************************)
EmptyRound ==
  /\ phase = "empty"
  /\ phase' = IF shutdown /\ ~ScanFindsReady(sh_base_head, Capacity)
              THEN "exit" ELSE "tail"
  /\ UNCHANGED <<ringVars, drainVars, batchVars, mergeVars, inflight, to_notify,
                 submitted_ios, merged_ios, disk>>

\* One probe of the adaptive wait: more work doubles the wait and drains again.
WaitProbe ==
  /\ phase = "wait"
  /\ ns > 0
  /\ IF ScanFindsReady(sh_base_head + sh_accumulated, Capacity - sh_accumulated)
     THEN /\ phase' = "tail"
          /\ sh_drain_ns' = Min2(sh_drain_ns + 1, MaxDrain)
          /\ ns' = ns
     ELSE /\ ns' = ns - 1
          /\ UNCHANGED <<phase, sh_drain_ns>>
  /\ UNCHANGED <<ringVars, sh_avail, ballot, lanes, batchVars, mergeVars,
                 inflight, to_notify, submitted_ios, merged_ios, disk>>

WaitOver ==
  /\ GotoPhase("wait", "sort")
  /\ ns = 0
  /\ sh_drain_ns' = IF sh_drain_ns > 1 THEN sh_drain_ns - 1 ELSE 1
  /\ UNCHANGED <<ringVars, sh_avail, ballot, lanes, ns, batchVars, mergeVars,
                 inflight, to_notify, submitted_ios, merged_ios, disk>>

---------------------------------------------------------------------------
(* Phases 2 to 4: sort, merge, submit *)

Sort ==
  /\ GotoPhase("sort", "merge")
  /\ g_vals' \in StableOrders([k \in Positions(sh_accumulated) |-> gsort[k].off],
                              sh_accumulated)
  /\ UNCHANGED <<ringVars, drainVars, batchVars, g_starts, gpos, inflight, to_notify,
                 submitted_ios, merged_ios, disk>>

SortedKeys == [pos \in Positions(sh_accumulated) |-> gsort[g_vals[pos]].off]
SortedBytes == [pos \in Positions(sh_accumulated) |-> 1]

Merge ==
  /\ GotoPhase("merge", "submit")
  /\ g_starts' = GroupStarts(SortedKeys, SortedBytes, sh_accumulated, MergeMax)
  /\ gpos' = 0
  /\ UNCHANGED <<ringVars, drainVars, batchVars, g_vals, inflight, to_notify,
                 submitted_ios, merged_ios, disk>>

\* Mutant: the PRP list skips the permutation.
CommandUnsorted(s) ==
  LET e == GroupEnd(g_starts, s, sh_accumulated) IN
  [ lba   |-> SortedKeys[s],
    nblks |-> RunBytes(SortedKeys, SortedBytes, s, e),
    prps  |-> [r \in 0 .. (e - s - 1) |-> gsort[s + r].pe] ]

(***************************************************************************)
(* The merged command of the group that starts at s: one range of the SSD  *)
(* and the PRP list of the buffers of its requests, in position order.     *)
(***************************************************************************)
Command(s) ==
  LET e == GroupEnd(g_starts, s, sh_accumulated) IN
  [ lba   |-> SortedKeys[s],
    nblks |-> RunBytes(SortedKeys, SortedBytes, s, e),
    prps  |-> [r \in 0 .. (e - s - 1) |-> gsort[g_vals[s + r]].pe] ]

(***************************************************************************)
(* Groups in the next submission round: at most KneeLimit of them, and     *)
(* never past the end of the current PRP chunk.  A pool without slots      *)
(* makes every chunk empty: the loop turns without submitting anything.    *)
(***************************************************************************)
ChunkLeft == IF PrpSlots = 0 THEN 0 ELSE PrpSlots - (gpos % PrpSlots)

\* Mutant: no knee limit.
RoundSizeNoKnee == Min2(ChunkLeft, Cardinality(g_starts) - gpos)

RoundSize == Min2(KneeLimit, Min2(ChunkLeft, Cardinality(g_starts) - gpos))

NextGroups ==
  {s \in g_starts : GroupNumber(g_starts, s) \in gpos .. gpos + RoundSize - 1}

Submit ==
  /\ GotoPhase("submit", "poll")
  /\ gpos < Cardinality(g_starts)
  /\ inflight' = {Command(s) : s \in NextGroups}
  /\ UNCHANGED <<ringVars, drainVars, batchVars, mergeVars, to_notify,
                 submitted_ios, merged_ios, disk>>

\* The controller completes a command: page lba + r now holds buffer prps[r].
DeviceComplete(c) ==
  /\ c \in inflight
  /\ inflight' = inflight \ {c}
  /\ disk' = [b \in Pages |->
       IF b \in c.lba .. c.lba + c.nblks - 1
       THEN Append(disk[b], c.prps[b - c.lba])
       ELSE disk[b]]
  /\ UNCHANGED <<phase, ringVars, drainVars, batchVars, mergeVars, to_notify,
                 submitted_ios, merged_ios>>

\* The command that serves request e has reached the SSD.
Performed(e) == disk[e.off] # <<>>

\* The last completion of the round is in the completion queue.
SubmitReturn ==
  /\ GotoPhase("poll", "submit")
  /\ inflight = {}
  /\ gpos' = gpos + RoundSize
  /\ UNCHANGED <<ringVars, drainVars, batchVars, g_vals, g_starts, inflight, to_notify,
                 submitted_ios, merged_ios, disk>>

SubmitDone ==
  /\ GotoPhase("submit", "notify")
  /\ gpos = Cardinality(g_starts)
  /\ to_notify' = Positions(sh_accumulated)
  /\ UNCHANGED <<ringVars, drainVars, batchVars, mergeVars, inflight,
                 submitted_ios, merged_ios, disk>>

---------------------------------------------------------------------------
(* Phase 5: notify *)

\* Thread t notifies positions t, t + SchedThreads, ... in that order.
NotifyTurn(pos) == pos \in to_notify /\ pos - SchedThreads \notin to_notify

\* Mutant: the slot is found from the sorted position instead of the batch index.
NotifySortedPosition(pos) ==
  /\ phase = "notify"
  /\ NotifyTurn(pos)
  /\ LET slot == sh_base_head + pos IN
       /\ done_seq' = [done_seq EXCEPT ![Idx(slot)] = sh_base_head + g_vals[pos] + 1]
       /\ done_flags' = [done_flags EXCEPT ![Idx(slot)] = 1]
  /\ to_notify' = to_notify \ {pos}
  /\ UNCHANGED <<phase, entries, prod_seq, prod_tail, cons_head, shutdown, enqueuing,
                 drainVars, batchVars, mergeVars, inflight, submitted_ios,
                 merged_ios, disk>>

\* Mutant: done_seq is announced, the flag is not.
NotifyNoFlag(pos) ==
  /\ phase = "notify"
  /\ NotifyTurn(pos)
  /\ LET slot == sh_base_head + g_vals[pos] IN
       done_seq' = [done_seq EXCEPT ![Idx(slot)] = slot + 1]
  /\ to_notify' = to_notify \ {pos}
  /\ UNCHANGED <<phase, entries, done_flags, prod_seq, prod_tail, cons_head, shutdown,
                 enqueuing, drainVars, batchVars, mergeVars, inflight, submitted_ios,
                 merged_ios, disk>>

(***************************************************************************)
(* The two stores are one step: no reader looks at both words.             *)
(***************************************************************************)
Notify(pos) ==
  /\ phase = "notify"
  /\ NotifyTurn(pos)
  /\ LET slot == sh_base_head + g_vals[pos] IN
       /\ done_seq' = [done_seq EXCEPT ![Idx(slot)] = slot + 1]
       /\ done_flags' = [done_flags EXCEPT ![Idx(slot)] = 1]
  /\ to_notify' = to_notify \ {pos}
  /\ UNCHANGED <<phase, entries, prod_seq, prod_tail, cons_head, shutdown, enqueuing,
                 drainVars, batchVars, mergeVars, inflight, submitted_ios,
                 merged_ios, disk>>

Advance ==
  /\ GotoPhase("notify", "base")
  /\ to_notify = {}
  /\ cons_head' = cons_head + sh_accumulated
  /\ submitted_ios' = submitted_ios + sh_accumulated
  /\ merged_ios' = merged_ios + Cardinality(g_starts)
  /\ UNCHANGED <<memory, prod_tail, shutdown, enqueuing, drainVars, batchVars,
                 mergeVars, inflight, to_notify, disk>>

SchedStep ==
  \/ OpenBatch \/ BoundRound \/ CountReady \/ EndRound \/ EmptyRound
  \/ WaitProbe \/ WaitOver \/ Sort \/ Merge \/ Submit
  \/ SubmitReturn \/ SubmitDone \/ Advance
  \/ \E t \in Lanes : LaneCheck(t) \/ LaneDrain(t)
  \/ \E pos \in RingIdx : Notify(pos)

DeviceStep == \E c \in inflight : DeviceComplete(c)

=============================================================================
