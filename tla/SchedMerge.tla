---------------------------- MODULE SchedMerge ----------------------------
(***************************************************************************)
(* Phases 2 and 3 of io_scheduler_kernel as functions of a batch: the      *)
(* stable order by byte offset, the runs of adjacent requests and the      *)
(* split of runs above the merge target.  A batch of n requests is a pair  *)
(* of functions on 0 .. n-1: keys (byte offsets) and bytes (sizes).        *)
(***************************************************************************)
EXTENDS Integers, FiniteSets

Positions(n) == 0 .. n - 1

(***************************************************************************)
(* What io_sched_radix_sort_v2 leaves in vals: the position -> index       *)
(* permutation that sorts the keys and keeps equal keys in input order.    *)
(***************************************************************************)
Precedes(keys, i, j) ==
  \/ keys[i] < keys[j]
  \/ keys[i] = keys[j] /\ i < j

IsStableOrder(ord, keys, n) ==
  /\ \A i \in Positions(n) : \E pos \in Positions(n) : ord[pos] = i
  /\ \A a, b \in Positions(n) : a < b => Precedes(keys, ord[a], ord[b])

StableOrders(keys, n) ==
  {ord \in [Positions(n) -> Positions(n)] : IsStableOrder(ord, keys, n)}

(***************************************************************************)
(* Step 1: the positions whose request does not start where the previous   *)
(* one ended.                                                              *)
(***************************************************************************)
IsBoundary(keys, bytes, pos) ==
  pos = 0 \/ keys[pos] # keys[pos - 1] + bytes[pos - 1]

Boundaries(keys, bytes, n) ==
  {pos \in Positions(n) : IsBoundary(keys, bytes, pos)}

\* Where the group that starts at s ends: the next start, or n.
GroupEnd(starts, s, n) ==
  CHOOSE e \in starts \cup {n} :
    /\ e > s
    /\ \A x \in starts : x > s => e <= x

RunBytes(keys, bytes, s, e) == keys[e - 1] - keys[s] + bytes[e - 1]

(***************************************************************************)
(* Step 1b: a run above the target is cut every stride requests, where the *)
(* stride is the number of requests of the FIRST one's size that fit.      *)
(***************************************************************************)
Stride(first_bytes, target) ==
  IF target \div first_bytes = 0 THEN 1 ELSE target \div first_bytes

\* Mutant: a run above the target is left whole.
CutPointsNone(keys, bytes, s, e, target) == {s}

CutPoints(keys, bytes, s, e, target) ==
  IF RunBytes(keys, bytes, s, e) <= target
  THEN {s}
  ELSE {pos \in s .. e - 1 : (pos - s) % Stride(bytes[s], target) = 0}

Refine(coarse, keys, bytes, n, target) ==
  UNION {CutPoints(keys, bytes, s, GroupEnd(coarse, s, n), target) : s \in coarse}

GroupStarts(keys, bytes, n, target) ==
  Refine(Boundaries(keys, bytes, n), keys, bytes, n, target)

\* The index of the group that starts at s: groups are kept in position order.
GroupNumber(starts, s) == Cardinality({x \in starts : x < s})

=============================================================================
