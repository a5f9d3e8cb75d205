------------------------------ MODULE QueueUse ----------------------------
(***************************************************************************)
(* A queue pair in either of its two uses: shared by threads that issue    *)
(* commands one by one (ParallelQueue), or owned by the caller of the      *)
(* batch calls (BatchQueue), as "Each queue must be used by exactly one    *)
(* thread" asks of those.  The two never alternate on one queue: the batch *)
(* calls move the tail without taking tickets.                             *)
(***************************************************************************)
EXTENDS ParallelQueue, BatchQueue

VARIABLE use

useVars == <<vars, batchVars, use>>

UseInit ==
  /\ Init
  /\ BatchInit
  /\ use \in {"threads", "batches"}

Device == Controller /\ UNCHANGED <<sharedVars, secondVars, plan, th, batchVars>>

Threaded ==
  /\ use = "threads"
  /\ \E t \in Threads : Thread(t)
  /\ UNCHANGED <<batchVars, use>>

Batched ==
  /\ use = "batches"
  /\ Owner
  /\ UNCHANGED <<sharedVars, secondVars, plan, th, qs, use>>

Finished ==
  IF use = "threads" THEN \A t \in Threads : Returned(t) ELSE BatchesReturned

UseNext ==
  \/ Threaded \/ Batched
  \/ Device /\ UNCHANGED use
  \/ Finished /\ UNCHANGED useVars

\* Resident GPU threads and the controller keep running.
UseSpec ==
  /\ UseInit /\ [][UseNext]_useVars
  /\ \A t \in Threads : WF_useVars(use = "threads" /\ Thread(t) /\ UNCHANGED <<batchVars, use>>)
  /\ WF_useVars(Batched)
  /\ WF_useVars(Device /\ UNCHANGED use)

(***************************************************************************)
(* Every call returns: the SQ slots, CQ positions, locks and identifiers   *)
(* that callers wait for are always given back, and a batch, an empty one  *)
(* included, finds its last completion.                                    *)
(***************************************************************************)
EveryCallReturns == <>Finished

(***************************************************************************)
(* The batch calls keep their invariant (BatchInv) and the threads make no *)
(* batch call: one queue pair is never in both uses.                       *)
(***************************************************************************)
UseInv ==
  /\ use = "threads" => call = None
  /\ use = "batches" => BatchInv
=============================================================================
