--------------------------- MODULE BatchShaping ---------------------------
(***************************************************************************)
(* Phases 2 and 3 of io_scheduler_kernel on one drained batch, in detail:  *)
(* io_sched_radix_sort_v2 with its histogram, its prefix sum and its       *)
(* scatter in which the warps claim output positions one after the other,  *)
(* then the merge into groups and the PRP list of each group.              *)
(*                                                                         *)
(* Offsets and sizes are counted in 4 KB sub-pages.  Positions and batch   *)
(* indices start at 0, as in SchedMerge.                                   *)
(***************************************************************************)
EXTENDS SchedMerge, FiniteSetsExt

CONSTANTS
  Warps,        \* 4
  WarpLanes,    \* 32
  Radix,        \* 256
  Passes,       \* 6
  MaxBatch,     \* most requests in a batch
  Offsets,      \* offsets a request may have
  Sizes,        \* sizes a request may have
  Ppe,          \* pages_per_entry: sub-pages of a buffer
  MergeTarget   \* kSchedMergeTarget

ASSUME ShapingAssumption ==
  /\ Warps \in Nat \ {0} /\ WarpLanes \in Nat \ {0} /\ Radix \in Nat \ {0, 1}
  /\ Passes \in Nat /\ MaxBatch \in Nat \ {0}
  /\ Offsets \subseteq 0 .. Radix ^ Passes - 1
  /\ Sizes \subseteq 1 .. Ppe
  /\ MergeTarget \in Nat \ {0}

VARIABLES
  n,            \* requests in the batch
  drained,      \* history: batch index -> offset
  nbytes,       \* batch index -> size
  keybuf,       \* keys and keys_a: buffer 0 is the caller's
  valbuf,       \* vals and vals_a
  s_hist,       \* bucket -> count, then next output position
  pass,
  chunk,        \* first position of the chunk being scattered
  warp,         \* warp whose turn it is to claim
  my_pos,       \* thread -> first position of its peers
  step,
  starts        \* g_starts

vars == <<n, drained, nbytes, keybuf, valbuf, s_hist, pass, chunk, warp, my_pos, step, starts>>

Threads == 0 .. Warps * WarpLanes - 1
Buckets == 0 .. Radix - 1

\* The source buffer of the current pass; the other one is its target.
Src == pass % 2
Alt == (pass + 1) % 2

Init ==
  /\ n \in 1 .. MaxBatch
  /\ drained \in [Positions(n) -> Offsets]
  /\ nbytes \in [Positions(n) -> Sizes]
  /\ keybuf = <<drained, [pos \in Positions(n) |-> 0]>>
  /\ valbuf = <<[k \in Positions(n) |-> k], [pos \in Positions(n) |-> 0]>>
  /\ s_hist = [d \in Buckets |-> 0]
  /\ pass = 0
  /\ chunk = 0
  /\ warp = 0
  /\ my_pos = [t \in Threads |-> 0]
  /\ step = "histogram"
  /\ starts = {}

Keys(b) == keybuf[b + 1]
Vals(b) == valbuf[b + 1]

Digit(pos) == (Keys(Src)[pos] \div Radix ^ pass) % Radix

---------------------------------------------------------------------------
(* io_sched_radix_sort_v2 *)

Histogram ==
  /\ step = "histogram"
  /\ s_hist' = [d \in Buckets |-> Cardinality({pos \in Positions(n) : Digit(pos) = d})]
  /\ step' = "prefix"
  /\ UNCHANGED <<n, drained, nbytes, keybuf, valbuf, pass, chunk, warp, my_pos, starts>>

PrefixSum ==
  /\ step = "prefix"
  /\ s_hist' = [d \in Buckets |-> MapThenSumSet(LAMBDA c : s_hist[c], 0 .. d - 1)]
  /\ step' = "claim"
  /\ UNCHANGED <<n, drained, nbytes, keybuf, valbuf, pass, chunk, warp, my_pos, starts>>

\* Threads that hold an element of the chunk, and those of one warp among them.
Valid == {t \in Threads : chunk + t < n}
WarpOf(t) == t \div WarpLanes

\* __match_any_sync: the valid threads of the same warp with the same digit.
Peers(t) == {u \in Valid : WarpOf(u) = WarpOf(t) /\ Digit(chunk + u) = Digit(chunk + t)}

\* Mutant: the rank counts the higher lanes.
LocalRankHigh(t) == Cardinality({u \in Peers(t) : u > t})

LocalRank(t) == Cardinality({u \in Peers(t) : u < t})

\* One turn of the warp-sequential loop: the rank-0 lanes of the warp claim
\* positions for their peers and the claim is broadcast to them.
WarpClaim ==
  /\ step = "claim"
  /\ warp < Warps
  /\ LET mine == {t \in Valid : WarpOf(t) = warp} IN
       /\ my_pos' = [t \in Threads |->
            IF t \in mine THEN s_hist[Digit(chunk + t)] ELSE my_pos[t]]
       /\ s_hist' = [d \in Buckets |->
            s_hist[d] + Cardinality({t \in mine : Digit(chunk + t) = d})]
  /\ warp' = warp + 1
  /\ UNCHANGED <<n, drained, nbytes, keybuf, valbuf, pass, chunk, step, starts>>

Slot(t) == my_pos[t] + LocalRank(t)

\* Every valid thread stores its element; then the next chunk, or the swap.
Scatter ==
  /\ step = "claim"
  /\ warp = Warps
  /\ keybuf' = [keybuf EXCEPT ![Alt + 1] = [pos \in Positions(n) |->
       IF \E t \in Valid : Slot(t) = pos
       THEN Keys(Src)[chunk + (CHOOSE t \in Valid : Slot(t) = pos)] ELSE @[pos]]]
  /\ valbuf' = [valbuf EXCEPT ![Alt + 1] = [pos \in Positions(n) |->
       IF \E t \in Valid : Slot(t) = pos
       THEN Vals(Src)[chunk + (CHOOSE t \in Valid : Slot(t) = pos)] ELSE @[pos]]]
  /\ warp' = 0
  /\ \/ /\ chunk + Warps * WarpLanes < n
        /\ chunk' = chunk + Warps * WarpLanes
        /\ UNCHANGED <<pass, step>>
     \/ /\ chunk + Warps * WarpLanes >= n
        /\ chunk' = 0
        /\ pass' = pass + 1
        /\ step' = IF pass + 1 < Passes THEN "histogram" ELSE "merge"
  /\ UNCHANGED <<n, drained, nbytes, s_hist, my_pos, starts>>

---------------------------------------------------------------------------
(* The merge, on the caller's buffers *)

g_keys == Keys(0)
g_vals == Vals(0)
SizeAt == [pos \in Positions(n) |-> nbytes[g_vals[pos]]]

MergeBatch ==
  /\ step = "merge"
  /\ starts' = GroupStarts(g_keys, SizeAt, n, MergeTarget)
  /\ step' = "done"
  /\ UNCHANGED <<n, drained, nbytes, keybuf, valbuf, s_hist, pass, chunk, warp, my_pos>>

\* Mutant: every entry of the list points at the first buffer.
PrpListFirst(s) ==
  [x \in 0 .. (GroupEnd(starts, s, n) - s) * Ppe - 1 |-> <<g_vals[s], x % Ppe>>]

(***************************************************************************)
(* prp1 and the PRP list of the group that starts at s: all sub-pages of   *)
(* the buffers of its requests, in position order.  A sub-page is named by *)
(* the batch index of its request and its number in the buffer.            *)
(***************************************************************************)
PrpList(s) ==
  [x \in 0 .. (GroupEnd(starts, s, n) - s) * Ppe - 1 |-> <<g_vals[s + x \div Ppe], x % Ppe>>]

Stopped == step = "done" /\ UNCHANGED vars

Next == Histogram \/ PrefixSum \/ WarpClaim \/ Scatter \/ MergeBatch \/ Stopped

Spec == Init /\ [][Next]_vars

---------------------------------------------------------------------------
(* Properties *)

(***************************************************************************)
(* The sort leaves in vals the stable order of the offsets that Sort of    *)
(* WriteScheduler takes as its definition, and the keys in that order.     *)
(***************************************************************************)
SortedStably ==
  step \in {"merge", "done"} =>
    /\ IsStableOrder(g_vals, drained, n)
    /\ g_keys = [pos \in Positions(n) |-> drained[g_vals[pos]]]

(***************************************************************************)
(* The block of a merged command that a request asked to write is taken    *)
(* from the same place of that request's own buffer.                       *)
(***************************************************************************)
BlocksFromOwnBuffer ==
  step = "done" =>
    \A s \in starts : \A pos \in s .. GroupEnd(starts, s, n) - 1 :
      \A j \in 0 .. SizeAt[pos] - 1 :
        PrpList(s)[g_keys[pos] - g_keys[s] + j] = <<g_vals[pos], j>>

(***************************************************************************)
(* No merged command is longer than the target ("merges adjacent IOs up to *)
(* 2 MB").                                                                 *)
(***************************************************************************)
GroupsWithinTarget ==
  step = "done" =>
    \A s \in starts : RunBytes(g_keys, SizeAt, s, GroupEnd(starts, s, n)) <= MergeTarget

=============================================================================
