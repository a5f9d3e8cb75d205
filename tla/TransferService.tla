-------------------------- MODULE TransferService -------------------------
(* The write path of the benchmark implements WriteService. *)
EXTENDS Transfer

\* A slot is answered when done_seq of its ring index has reached it.
Answered == {s \in 0 .. prod_tail - 1 : done_seq[Idx(s)] >= s + 1}

Service == INSTANCE WriteService WITH
  Places <- Pages,
  Requests <- [off : Pages, pe : 0 .. Workers * Window - 1],
  accepted <- asked,
  store <- disk,
  answered <- Answered,
  returned <- retired,
  closed <- (phase = "exit")

(***************************************************************************)
(* Whatever the ring, the sort, the merge and the rounds do is, seen from  *)
(* outside, a behaviour of the service: io_sched_write "Blocks until the   *)
(* NVMe write completes", and the scheduler leaves after the last request. *)
(***************************************************************************)
ImplementsService == Service!Spec
=============================================================================
