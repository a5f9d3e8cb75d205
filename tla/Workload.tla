----------------------------- MODULE Workload -----------------------------
(***************************************************************************)
(* benchmarks/io/io_workload.h: which page the iteration-th request of a   *)
(* worker addresses.                                                       *)
(***************************************************************************)
EXTENDS Integers

\* Warp-transposed ownership; WarpSize is 32.
ae_worker(worker, workers, transpose, WarpSize) ==
  IF transpose /\ workers >= WarpSize
  THEN (worker % WarpSize) * (workers \div WarpSize) + (worker \div WarpSize)
  ELSE worker

EffectiveTile(tile, per_worker) ==
  IF tile = 0 \/ tile > per_worker THEN per_worker ELSE tile

ae_index(worker, iteration, pages, workers, tile) ==
  LET t == EffectiveTile(tile, pages \div workers) IN
  ((iteration \div t) * workers + worker) * t + (iteration % t)

=============================================================================
