------------------------------ MODULE IoRing ------------------------------
(***************************************************************************)
(* The request ring of include/io_scheduler.cuh: GPU threads claim slots,  *)
(* fill them and publish them; one scheduler block consumes them in slot   *)
(* order.  This module holds the ring (io_queue_t), the steps of           *)
(* io_sched_enqueue, and what the scheduler reads; who calls them is the   *)
(* business of the modules that extend this one.                           *)
(*                                                                         *)
(* Slot numbers and sequence numbers are uint32 in the code.  They are     *)
(* kept unwrapped here and every comparison the code makes reads them      *)
(* through U32, so a step depends only on the wrapped values while the     *)
(* properties can tell two laps of the counter apart.                      *)
(*                                                                         *)
(* Memory is sequentially consistent: the shared words are volatile or     *)
(* atomic and the code fences between the entry and its sequence number.   *)
(***************************************************************************)
EXTENDS Integers, Sequences, FiniteSets

CONSTANTS Producers,   \* GPU threads that enqueue
          Capacity,    \* entries of the ring (a power of two in the code)
          SeqMod       \* 2^32: the modulus of the slot and sequence numbers

ASSUME CapacityAssumption == Capacity \in Nat \ {0}

ASSUME SeqModAssumption ==
  /\ SeqMod \in Nat
  /\ SeqMod > Capacity
  /\ SeqMod % Capacity = 0

VARIABLES
  entries,      \* ring index -> request written there
  done_flags,   \* ring index -> completion flag
  done_seq,     \* ring index -> sequence number of the last completion
  prod_seq,     \* ring index -> sequence number of the last publication
  prod_tail,    \* next slot to claim
  cons_head,    \* first slot not yet consumed
  shutdown,
  pc,           \* producer -> where it is in io_sched_enqueue
  my_slot,      \* producer -> the slot it claimed
  my_req,       \* producer -> the request it is enqueueing
  asked         \* history: the requests in the order of their slots

memory == <<entries, done_flags, done_seq, prod_seq>>
enqueuing == <<pc, my_slot, my_req, asked>>
ringVars == <<memory, prod_tail, cons_head, shutdown, enqueuing>>

(***************************************************************************)
(* The zeroed entry cudaMemset leaves in every slot of the ring.           *)
(***************************************************************************)
ZeroEntry == [off |-> 0, pe |-> 0]

U32(n) == n % SeqMod

\* slot & capacity_mask
Idx(slot) == slot % Capacity

RingIdx == 0 .. Capacity - 1

Asked(slot) == asked[slot + 1]

RingInit ==
  /\ entries = [x \in RingIdx |-> ZeroEntry]
  /\ done_flags = [x \in RingIdx |-> 0]
  /\ done_seq = [x \in RingIdx |-> 0]
  /\ prod_seq = [x \in RingIdx |-> 0]
  /\ prod_tail = 0
  /\ cons_head = 0
  /\ shutdown = FALSE
  /\ pc = [p \in Producers |-> "out"]
  /\ my_slot = [p \in Producers |-> 0]
  /\ my_req = [p \in Producers |-> ZeroEntry]
  /\ asked = <<>>

---------------------------------------------------------------------------
(* io_sched_enqueue, one action per access to shared memory *)

Goto(p, from, to) ==
  /\ pc[p] = from
  /\ pc' = [pc EXCEPT ![p] = to]

\* The fetch_add of prod_tail.
ClaimSlot(p, req) ==
  /\ Goto(p, "out", "full")
  /\ my_slot' = [my_slot EXCEPT ![p] = prod_tail]
  /\ my_req' = [my_req EXCEPT ![p] = req]
  /\ asked' = Append(asked, req)
  /\ prod_tail' = prod_tail + 1
  /\ UNCHANGED <<memory, cons_head, shutdown>>

\* Mutant: the full condition is off by one.
LeaveFullOffByOne(p) ==
  /\ Goto(p, "full", "clear")
  /\ U32(my_slot[p] - cons_head) <= Capacity
  /\ UNCHANGED <<memory, prod_tail, cons_head, shutdown, my_slot, my_req, asked>>

\* The load of cons_head that ends the wait for a full ring.
LeaveFull(p) ==
  /\ Goto(p, "full", "clear")
  /\ U32(my_slot[p] - cons_head) < Capacity
  /\ UNCHANGED <<memory, prod_tail, cons_head, shutdown, my_slot, my_req, asked>>

\* Mutant: the flag of the previous occupant is not cleared.
ClearFlagNot(p) ==
  /\ Goto(p, "clear", "write")
  /\ UNCHANGED <<memory, prod_tail, cons_head, shutdown, my_slot, my_req, asked>>

ClearFlag(p) ==
  /\ Goto(p, "clear", "write")
  /\ done_flags' = [done_flags EXCEPT ![Idx(my_slot[p])] = 0]
  /\ UNCHANGED <<entries, done_seq, prod_seq, prod_tail, cons_head, shutdown,
                 my_slot, my_req, asked>>

WriteEntry(p) ==
  /\ Goto(p, "write", "publish")
  /\ entries' = [entries EXCEPT ![Idx(my_slot[p])] = my_req[p]]
  /\ UNCHANGED <<done_flags, done_seq, prod_seq, prod_tail, cons_head, shutdown,
                 my_slot, my_req, asked>>

\* The store that makes the entry visible to the scheduler; enqueue returns.
Publish(p) ==
  /\ Goto(p, "publish", "out")
  /\ prod_seq' = [prod_seq EXCEPT ![Idx(my_slot[p])] = my_slot[p] + 1]
  /\ UNCHANGED <<entries, done_flags, done_seq, prod_tail, cons_head, shutdown,
                 my_slot, my_req, asked>>

\* The steps inside io_sched_enqueue that touch nothing of its caller.
EnqueueStep(p) == LeaveFull(p) \/ ClearFlag(p) \/ WriteEntry(p)

---------------------------------------------------------------------------
(* The other operations on the ring *)

\* Mutant: the ticket is the slot instead of the slot plus one.
DoneSeqReachedOffByOne(slot) == U32(done_seq[Idx(slot)]) >= U32(slot)

\* The wait of io_sched_read, io_sched_write, io_sched_access and transfer.
DoneSeqReached(slot) == U32(done_seq[Idx(slot)]) >= U32(slot + 1)

\* Mutant: any publication counts, the one of an earlier lap included.
ReadyAtAnyLap(slot) == U32(prod_seq[Idx(slot)]) # 0

ReadyAt(slot) == U32(prod_seq[Idx(slot)]) = U32(slot + 1)

\* io_sched_scan_ready(start, max_count) > 0, the only fact its callers use.
ScanFindsReady(start, max_count) ==
  /\ U32(prod_tail - start) > 0
  /\ max_count > 0
  /\ ReadyAt(start)

SetShutdown ==
  /\ shutdown' = TRUE
  /\ UNCHANGED <<memory, prod_tail, cons_head, enqueuing>>

=============================================================================
