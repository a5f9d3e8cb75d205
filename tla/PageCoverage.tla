--------------------------- MODULE PageCoverage ---------------------------
(***************************************************************************)
(* main of benchmarks/io/gpu_io_benchmark.cu as far as it decides which    *)
(* pages are touched: the options are checked, and the accepted ones are   *)
(* run as launches of batch_bytes each.  Which pages a launch addresses    *)
(* does not depend on how its workers interleave, so a launch is one step. *)
(***************************************************************************)
EXTENDS Workload, PageShuffle, FiniteSets

CONSTANTS
  IoSizes,       \* {4096, 65536}
  MaxWorkers,    \* 4096
  WarpSize,      \* 32
  AddressMax,    \* UINT64_MAX
  Options        \* the command lines considered

ASSUME CoverageAssumption ==
  /\ IoSizes \subseteq Nat \ {0}
  /\ MaxWorkers \in Nat \ {0}
  /\ WarpSize \in Nat \ {0}
  /\ AddressMax \in Nat
  /\ Options \subseteq [bytes : Nat, io : Nat, batch_bytes : Nat, workers : Nat, tile : Nat,
                        offset : Nat, seed : Nat, random : BOOLEAN, transpose : BOOLEAN]

VARIABLES
  opt,            \* the command line
  stage,          \* "check", "launch", "done" or "rejected"
  batch_offset,   \* bytes launched so far
  touched,        \* history: byte addresses requested
  requests        \* history: number of requests

vars == <<opt, stage, batch_offset, touched, requests>>

PowerOfTwo(n) == n > 0 /\ n & (n - 1) = 0

validate_workload(bytes, o) ==
  /\ o.io \in IoSizes
  /\ bytes # 0 /\ bytes % o.io = 0
  /\ o.workers \in 1 .. MaxWorkers
  /\ (bytes \div o.io) % o.workers = 0
  /\ o.offset % o.io = 0
  /\ o.offset <= AddressMax - bytes
  /\ PowerOfTwo(bytes \div o.io)

PerWorker(o) == (o.batch_bytes \div o.io) \div o.workers

TileAccepted(o) ==
  o.tile = 0 \/ (PowerOfTwo(o.tile)
                 /\ (o.tile < PerWorker(o) => PerWorker(o) % o.tile = 0))

OrderAccepted(o) == o.transpose /\ o.workers >= WarpSize => o.workers % WarpSize = 0

BatchAccepted(o) ==
  /\ o.batch_bytes <= o.bytes
  /\ o.bytes % o.batch_bytes = 0
  /\ o.batch_bytes # o.bytes => ~o.random

Accepted(o) ==
  /\ validate_workload(o.bytes, o)
  /\ validate_workload(o.batch_bytes, o)
  /\ OrderAccepted(o)
  /\ TileAccepted(o)
  /\ BatchAccepted(o)

Init ==
  /\ opt \in Options
  /\ stage = "check"
  /\ batch_offset = 0
  /\ touched = {}
  /\ requests = 0

Accept ==
  /\ stage = "check"
  /\ Accepted(opt)
  /\ stage' = "launch"
  /\ UNCHANGED <<opt, batch_offset, touched, requests>>

Reject ==
  /\ stage = "check"
  /\ ~Accepted(opt)
  /\ stage' = "rejected"
  /\ UNCHANGED <<opt, batch_offset, touched, requests>>

\* The byte address of request i of thread tid in the current launch.
Address(tid, i) ==
  LET pages == opt.batch_bytes \div opt.io
      worker == ae_worker(tid, opt.workers, opt.transpose, WarpSize)
      index == ae_index(worker, i, pages, opt.workers, opt.tile)
      page == ae_page(index, pages, opt.seed, opt.random)
  IN  (opt.offset + batch_offset + page * opt.io) % (AddressMax + 1)

LaunchTransfer ==
  /\ stage = "launch"
  /\ batch_offset < opt.bytes
  /\ touched' = touched \cup
       {Address(tid, i) : tid \in 0 .. opt.workers - 1, i \in 0 .. PerWorker(opt) - 1}
  /\ requests' = requests + opt.workers * PerWorker(opt)
  /\ batch_offset' = batch_offset + opt.batch_bytes
  /\ UNCHANGED <<opt, stage>>

Finish ==
  /\ stage = "launch"
  /\ batch_offset >= opt.bytes
  /\ stage' = "done"
  /\ UNCHANGED <<opt, batch_offset, touched, requests>>

Stopped == stage \in {"done", "rejected"} /\ UNCHANGED vars

Next == Accept \/ Reject \/ LaunchTransfer \/ Finish \/ Stopped

Spec == Init /\ [][Next]_vars

(***************************************************************************)
(* Every accepted command line touches each page of its range exactly once *)
(* and no other ("no repeated or omitted pages").                          *)
(***************************************************************************)
CoversOnce ==
  stage = "done" =>
    /\ touched = {opt.offset + k * opt.io : k \in 0 .. (opt.bytes \div opt.io) - 1}
    /\ requests = Cardinality(touched)

=============================================================================
