---------------------------- MODULE MCPageCache ---------------------------
(* Instances of PageCache for TLC. *)
EXTENDS PageCache

\* Two threads share page 0, which the others push out of two slots.
Shared == <<<<seq_write(0, 2), get_raw(1, 1), seq_read(0, 1)>>,
            <<memcpy(2), AtomicAdd(0, 1), seq_read(3, 2)>>>>

\* Written pages are not used again: the regions are disjoint.
Disjoint == <<<<seq_write(0, 2), seq_read(1, 1)>>, <<AtomicAdd(2, 1), memcpy(3)>>>>

\* Pages that stay in the slot of their number.
Resident == <<<<bam_ptr(0, 2), bam_ptr(1, 1)>>, <<seq_write(1, 1), bam_ptr(0, 1)>>>>

\* A bam_ptr to a page that is loaded into the slot of another number.
Strayed == <<<<bam_ptr(2, 1), seq_read(0, 1)>>, <<seq_write(1, 1), seq_read(2, 1)>>>>

Cache(evict, read, ppe, blocks, dist, n, plan) ==
  [evict |-> evict, read |-> read, ppe |-> ppe, blocks |-> blocks, dist |-> dist,
   n_ctrls |-> n, warm |-> plan = Resident, plan |-> plan]

TwoThreads == {1, 2}

SoundSetups ==
  {Cache("direct", "direct", 4, 2, "STRIPE", 2, Shared),
   Cache("direct", "direct", 1, 1, "REPLICATE", 2, Shared),
   Cache("scheduler", "scheduler", 4, 2, "STRIPE", 1, Shared),
   Cache("victim", "scheduler", 2, 2, "STRIPE", 1, Disjoint),
   Cache("victim_only", "direct", 2, 1, "REPLICATE", 1, Disjoint),
   Cache("direct", "direct", 2, 1, "STRIPE", 2, Resident),
   Cache("direct", "direct", 2, 1, "STRIPE", 1, Strayed)}

\* Larger pages: prp2 is the address of a PRP list.
ListSetups == {Cache("victim", "direct", 4, 1, "STRIPE", 1, Disjoint)}

\* The victim buffer without a scheduler, several blocks in a page.
FallbackSetups == {Cache("victim_only", "direct", 2, 2, "STRIPE", 1, Disjoint)}
=============================================================================
