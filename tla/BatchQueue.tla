----------------------------- MODULE BatchQueue ---------------------------
(***************************************************************************)
(* The batch calls of include/page_cache.h: one owner of the queue pair    *)
(* (a thread, or the 32 lanes of a warp) writes n commands, rings the SQ   *)
(* doorbell once, waits for the phase of the n-th next completion, and     *)
(* gives back both queues.  CIDs are taken by count and never locked.      *)
(*                                                                         *)
(* The owner shares nothing with other threads, so a step of it ends where *)
(* the controller can observe it: at the SQ doorbell, at the completion it *)
(* waits for, at the CQ doorbell.                                          *)
(***************************************************************************)
EXTENDS NvmeQueue

CONSTANTS WarpLanes,   \* 32: the size of a warp batch
          BatchMax,    \* READ_DATA_BATCH_MAX
          Batches      \* how many calls the owner makes

ASSUME BatchAssumption == WarpLanes \in Nat

VARIABLES
  call,         \* the running call: its size n, base_tail, base CID
  made          \* calls made so far

batchVars == <<call, made>>

None == [at |-> "idle", n |-> 0]

BatchInit ==
  /\ call = None
  /\ made = 0

---------------------------------------------------------------------------
\* Mutant: the commands of a batch share one CID.
CommandsSameCid(n) ==
  [s \in 0 .. qs - 1 |->
     LET i == Slot(s - sq_tail)
     IN  IF i < n THEN [cid |-> cid_ticket, call |-> <<made, i>>] ELSE sq_mem[s]]

\* Command i of the batch goes to slot base_tail + i, under CID base_cid + i.
Commands(n) ==
  [s \in 0 .. qs - 1 |->
     LET i == Slot(s - sq_tail)
     IN  IF i < n THEN [cid |-> (cid_ticket + i) % NCids, call |-> <<made, i>>]
         ELSE sq_mem[s]]

\* Steps 1 to 3: allocate CIDs, build n commands, one doorbell, store the tail.
Submit(n, put) ==
  /\ call.at = "idle"
  /\ made < Batches
  /\ made' = made + 1
  /\ cid_ticket' = (cid_ticket + n) % NCids
  /\ sq_mem' = Commands(n)
  /\ sq_db' = Slot(sq_tail + n)
  /\ sq_tail' = sq_tail + n
  /\ call' = [at |-> "poll", n |-> n, put |-> put, base_tail |-> sq_tail,
              base_cid |-> cid_ticket]
  /\ UNCHANGED <<sq_head, cqVars, cid, devVars>>

\* Mutant: polls the last completion but one.
TargetEarly == cq_head + call.n - 2

Target == cq_head + call.n - 1

\* Step 4: the completion at Target has the phase of its lap.
LastPosted == cq_mem[Slot(Target)].phase = PhaseOf(Target)

\* Step 5 up to the CQ doorbell.
ReleaseCq ==
  /\ call.at = "poll"
  /\ LastPosted
  /\ cq_head' = cq_head + call.n
  /\ cq_db' = Slot(cq_head + call.n)
  /\ call' = [call EXCEPT !.at = "release"]
  /\ UNCHANGED <<sqVars, cidVars, devVars, made>>

\* The rest of step 5, and step 6.
ReleaseSq ==
  /\ call.at = "release"
  /\ sq_head' = call.base_tail + call.n
  /\ cid' = IF call.put
            THEN cid \ {(call.base_cid + i) % NCids : i \in 0 .. call.n - 1}
            ELSE cid
  /\ call' = None
  /\ UNCHANGED <<sq_mem, sq_tail, sq_db, cqVars, cid_ticket, devVars, made>>

---------------------------------------------------------------------------
(* The calls, of fewer commands than the queue has entries.  Reads and     *)
(* writes differ in the opcode and the statistics, both left out; the warp *)
(* calls do not release the CIDs; the scheduler's return at once from an   *)
(* empty batch.                                                            *)

read_data_batch_warp32 == WarpLanes < qs /\ Submit(WarpLanes, FALSE)
read_data_batch_warp32_profile == WarpLanes < qs /\ Submit(WarpLanes, FALSE)

read_data_batch == \E n \in 0 .. BatchMax : n < qs /\ Submit(n, TRUE)
write_data_batch == \E n \in 0 .. BatchMax : n < qs /\ Submit(n, TRUE)

write_data_batch_large == \E n \in 0 .. qs - 1 : Submit(n, TRUE)
read_data_batch_large == \E n \in 0 .. qs - 1 : Submit(n, TRUE)

sched_batch_rw == \E n \in 1 .. qs - 1 : Submit(n, TRUE)
sched_batch_merged_rw == \E n \in 1 .. qs - 1 : Submit(n, TRUE)

Owner ==
  \/ read_data_batch_warp32 \/ read_data_batch_warp32_profile
  \/ read_data_batch \/ write_data_batch
  \/ write_data_batch_large \/ read_data_batch_large
  \/ sched_batch_rw \/ sched_batch_merged_rw
  \/ ReleaseCq \/ ReleaseSq

BatchesReturned == call.at = "idle" /\ made = Batches

---------------------------------------------------------------------------
(***************************************************************************)
(* Waiting for the last completion is waiting for all: when a batch call   *)
(* gives its queue entries back, the controller has completed every one of *)
(* its commands, in whatever order it executed them, also across the wrap  *)
(* of the CQ and for an empty batch.                                       *)
(***************************************************************************)
WholeBatchDone ==
  call.at = "release" => /\ \A i \in 0 .. call.n - 1 : <<made - 1, i>> \in done
                         /\ InFlight = {}

---------------------------------------------------------------------------
(* The inductive invariant of the batched use *)

\* The i-th command of the running call.
Command(i) == [cid |-> (call.base_cid + i) % NCids, call |-> <<made - 1, i>>]

Calls == [at : {"poll", "release"}, n : 0 .. qs - 1, put : BOOLEAN, base_tail : Nat,
          base_cid : 0 .. NCids - 1]

\* Both sides have seen everything the other has done.
Quiet ==
  /\ sq_tail = cq_head /\ dev_head = cq_head /\ dev_tail = cq_head
  /\ executing = {}

\* The n commands lie in order from cq_head on.  The controller has fetched a
\* prefix of them, and of these it has completed what it does not execute.
Waiting ==
  /\ sq_tail = cq_head + call.n
  /\ dev_tail \in cq_head .. dev_head /\ dev_head <= sq_tail
  /\ \A i \in 0 .. call.n - 1 : sq_mem[Slot(cq_head + i)] = Command(i)
  /\ executing \subseteq {Command(i) : i \in 0 .. dev_head - cq_head - 1}
  /\ \A i \in 0 .. call.n - 1 :
       <<made - 1, i>> \in done
         <=> i < dev_head - cq_head /\ Command(i) \notin executing

\* Of the completions a lap can hold, those before dev_tail bear their phase.
PhasesTell ==
  \A k \in 0 .. qs - 1 :
    cq_mem[Slot(cq_head + k)].phase = PhaseOf(cq_head + k) <=> cq_head + k < dev_tail

BatchTypes ==
  /\ qs \in Sizes
  /\ cq_head \in Nat /\ sq_tail \in Nat /\ dev_head \in Nat /\ dev_tail \in Nat
  /\ cid_ticket \in 0 .. NCids - 1
  /\ cq_mem \in [0 .. qs - 1 -> [cid : Int, phase : {0, 1}, sqhd : Int]]
  /\ made \in Nat
  /\ call = None \/ (call \in Calls /\ made > 0)

(***************************************************************************)
(* While one owner makes batch calls: doorbells agree with tail and head;  *)
(* every command fetched is executing or has its completion; nothing is    *)
(* left of a call whose completions were consumed; and a completion's      *)
(* phase tells whether it is of the running call.                          *)
(***************************************************************************)
BatchInv ==
  /\ BatchTypes
  /\ sq_db = Slot(sq_tail)
  /\ IsFiniteSet(executing) /\ dev_tail + Cardinality(executing) = dev_head
  /\ \A d \in done : d \in Nat \X Nat /\ d[1] < made
  /\ PhasesTell
  /\ call.at = "poll" => Waiting
  /\ call.at # "poll" => Quiet
  /\ call.at = "release" => \A i \in 0 .. call.n - 1 : <<made - 1, i>> \in done
=============================================================================
