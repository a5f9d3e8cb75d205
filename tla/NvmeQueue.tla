----------------------------- MODULE NvmeQueue ----------------------------
(***************************************************************************)
(* One NVMe queue pair as the GPU code of include/nvm_parallel_queue.h and *)
(* include/page_cache.h sees it (nvm_queue_t), and the controller at its   *)
(* other end.  Who fills and drains the queues is the business of          *)
(* ParallelQueue (any number of threads, tickets) and BatchQueue (one      *)
(* owner, whole batches).                                                  *)
(*                                                                         *)
(* Heads, tails and tickets are kept unwrapped and masked where the code   *)
(* masks them; doorbells hold the masked value the code writes.  A command *)
(* is its CID and the call that issued it.                                 *)
(***************************************************************************)
EXTENDS Integers, Sequences, FiniteSets

CONSTANTS Sizes,   \* queue sizes considered
          NCids,   \* command identifiers: 65536 in the code
          Used     \* commands that have passed through the queue before

ASSUME QueueAssumption ==
  /\ Sizes \subseteq {2, 4, 8, 16, 32, 64, 128, 256, 512, 1024, 2048, 4096,
                      8192, 16384, 32768, 65536}
  /\ NCids \in Nat /\ \A q \in Sizes : q <= NCids
  /\ Used \in Nat

VARIABLES
  qs,          \* entries of the SQ and of the CQ: a power of two
  sq_mem,      \* SQ position -> command stored there
  sq_head, sq_tail, sq_db,
  cq_mem,      \* CQ position -> completion [cid, phase, sqhd]
  cq_head, cq_db,
  cid_ticket,
  cid,         \* locked command identifiers
  dev_head,    \* commands the controller has fetched
  dev_tail,    \* completions it has posted
  executing,   \* commands fetched and not completed
  done         \* history: calls whose command the controller has completed

sqVars == <<sq_mem, sq_head, sq_tail, sq_db>>
cqVars == <<cq_head, cq_db>>
cidVars == <<cid_ticket, cid>>
devVars == <<cq_mem, dev_head, dev_tail, executing, done>>
queueVars == <<qs, sqVars, cqVars, cidVars, devVars>>

Slot(n) == n % qs

\* The phase tag of the n-th completion: 1 on the first lap.
PhaseOf(n) == 1 - ((n \div qs) % 2)

NoCommand == [cid |-> -1, call |-> <<>>]

\* Index of the last of the first n users of slot s, or -1.
LastUse(s, n) == IF n > s THEN s + qs * ((n - 1 - s) \div qs) ELSE -1

\* A queue pair at rest, Used commands after its creation (Used = 0).
QueueInit ==
  /\ qs \in Sizes
  /\ sq_mem = [s \in 0 .. qs - 1 |-> NoCommand]
  /\ cq_mem = [s \in 0 .. qs - 1 |-> LET n == LastUse(s, Used) IN
       [cid |-> n % NCids, phase |-> PhaseOf(n), sqhd |-> Slot(n + 1)]]
  /\ sq_head = Used /\ sq_tail = Used /\ sq_db = Slot(Used)
  /\ cq_head = Used /\ cq_db = Slot(Used)
  /\ cid_ticket = Used % NCids
  /\ cid = {}
  /\ dev_head = Used /\ dev_tail = Used
  /\ executing = {}
  /\ done = {}

---------------------------------------------------------------------------
(* The controller: fetches in order, completes in any order *)

Fetch ==
  /\ Slot(dev_head) # sq_db
  /\ executing' = executing \cup {sq_mem[Slot(dev_head)]}
  /\ dev_head' = dev_head + 1
  /\ UNCHANGED <<cq_mem, dev_tail, done>>

\* A completion is posted only while the CQ, as its doorbell tells, has room.
Complete(c) ==
  /\ c \in executing
  /\ Slot(dev_tail + 1) # cq_db
  /\ cq_mem' = [cq_mem EXCEPT ![Slot(dev_tail)] =
       [cid |-> c.cid, phase |-> PhaseOf(dev_tail), sqhd |-> Slot(dev_head)]]
  /\ dev_tail' = dev_tail + 1
  /\ executing' = executing \ {c}
  /\ done' = done \cup {c.call}
  /\ UNCHANGED dev_head

Controller ==
  /\ Fetch \/ \E c \in executing : Complete(c)
  /\ UNCHANGED <<qs, sqVars, cqVars, cidVars>>

---------------------------------------------------------------------------
\* Commands the controller has been told of and has not fetched.
Rung == {sq_mem[Slot(dev_head + k)] : k \in 0 .. Slot(sq_db - dev_head) - 1}

InFlight == Rung \cup executing

(***************************************************************************)
(* No two commands in flight share a CID, so a completion names one        *)
(* command (get_cid locks the identifier, put_cid releases it).            *)
(***************************************************************************)
CidsDistinct ==
  /\ \A c, d \in InFlight : c # d => c.cid # d.cid
  /\ Cardinality(Rung) = Slot(sq_db - dev_head)

=============================================================================
