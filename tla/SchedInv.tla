----------------------------- MODULE SchedInv -----------------------------
(***************************************************************************)
(* The inductive invariant of the ring and the write scheduler, whoever    *)
(* the callers are.  It is stated for fewer than SeqMod requests (NoWrap): *)
(* past that done_seq no longer tells old completions from new ones.       *)
(***************************************************************************)
EXTENDS WriteScheduler

Request_t == [off : Pages, pe : Nat]

NoWrap == prod_tail < SeqMod

EnqueuePcs == {"out", "full", "clear", "write", "publish"}

Phases == {"base", "tail", "ballot", "drain", "empty", "wait", "sort", "merge",
           "submit", "poll", "notify", "exit"}

RingTypeOK ==
  /\ entries \in [RingIdx -> [off : Nat, pe : Nat]]
  /\ done_flags \in [RingIdx -> {0, 1}]
  /\ done_seq \in [RingIdx -> Nat]
  /\ prod_seq \in [RingIdx -> Nat]
  /\ prod_tail \in Nat
  /\ cons_head \in Nat
  /\ shutdown \in BOOLEAN
  /\ pc \in [Producers -> EnqueuePcs]
  /\ my_slot \in [Producers -> Nat]
  /\ my_req \in [Producers -> [off : Nat, pe : Nat]]
  /\ asked \in Seq(Request_t)
  /\ Len(asked) = prod_tail

SchedTypeOK ==
  /\ phase \in Phases
  /\ sh_base_head \in Nat
  /\ sh_accumulated \in 0 .. Capacity
  /\ sh_avail \in 0 .. SchedThreads
  /\ ballot \in [Lanes -> BOOLEAN]
  /\ lanes \subseteq Lanes
  /\ sh_drain_ns \in 1 .. MaxDrain
  /\ ns \in 0 .. MaxDrain
  /\ gsort \in [RingIdx -> [off : Nat, pe : Nat]]
  /\ gpos \in Nat
  /\ to_notify \subseteq RingIdx
  /\ submitted_ios \in Nat
  /\ merged_ios \in Nat
  /\ disk \in [Pages -> Seq(Nat)]

---------------------------------------------------------------------------
(* The ring *)

Enqueuing(p) == pc[p] # "out"

\* A slot being filled is not consumed, not published, and has one owner.
SlotsOwned ==
  /\ \A p \in Producers : Enqueuing(p) =>
       /\ my_slot[p] \in cons_head .. prod_tail - 1
       /\ my_req[p] = Asked(my_slot[p])
       /\ prod_seq[Idx(my_slot[p])] # my_slot[p] + 1
  /\ \A p, q \in Producers :
       Enqueuing(p) /\ Enqueuing(q) /\ my_slot[p] = my_slot[q] => p = q

\* Past the wait for a full ring, the slot is within one lap of cons_head.
WithinLap ==
  /\ \A p \in Producers :
       pc[p] \in {"clear", "write", "publish"} => my_slot[p] < cons_head + Capacity
  /\ \A x \in RingIdx :
       prod_seq[x] <= cons_head + Capacity /\ prod_seq[x] <= prod_tail

\* A published, unconsumed slot holds the request its producer asked for.
PublishedIsAsked ==
  /\ \A p \in Producers : pc[p] = "publish" => entries[Idx(my_slot[p])] = my_req[p]
  /\ \A s \in cons_head .. prod_tail - 1 :
       prod_seq[Idx(s)] = s + 1 => entries[Idx(s)] = Asked(s)

RingInv == SlotsOwned /\ WithinLap /\ PublishedIsAsked

---------------------------------------------------------------------------
(* The batch being built *)

Published(slot) == prod_seq[Idx(slot)] = slot + 1

\* The k-th request of the batch is the one asked for in the k-th slot after
\* cons_head, and that slot stays published until cons_head passes it.
BatchIsAsked ==
  phase # "base" =>
    /\ sh_base_head = cons_head
    /\ cons_head + sh_accumulated <= prod_tail
    /\ \A k \in 0 .. sh_accumulated - 1 :
         Published(cons_head + k) /\ gsort[k] = Asked(cons_head + k)

\* The slot thread t looks at in the current round.
RoundSlot(t) == cons_head + sh_accumulated + t

BallotInv ==
  phase = "ballot" =>
    /\ sh_accumulated + sh_avail <= Capacity
    /\ cons_head + sh_accumulated + sh_avail <= prod_tail
    /\ \A t \in Lanes \ lanes : ballot[t] => t < sh_avail /\ Published(RoundSlot(t))

DrainInv ==
  phase = "drain" =>
    /\ sh_avail > 0
    /\ sh_accumulated + sh_avail <= Capacity
    /\ cons_head + sh_accumulated + sh_avail <= prod_tail
    /\ lanes \subseteq 0 .. sh_avail - 1
    /\ \A t \in 0 .. sh_avail - 1 : Published(RoundSlot(t))
    /\ \A t \in (0 .. sh_avail - 1) \ lanes : gsort[sh_accumulated + t] = Asked(RoundSlot(t))

BatchNotEmpty ==
  phase \in {"wait", "sort", "merge", "submit", "poll", "notify"} => sh_accumulated > 0

---------------------------------------------------------------------------
(* From the batch to the SSD *)

BatchKeys == [k \in Positions(sh_accumulated) |-> gsort[k].off]

SortInv ==
  phase \in {"merge", "submit", "poll", "notify"} =>
    g_vals \in StableOrders(BatchKeys, sh_accumulated)

MergeInv ==
  phase \in {"submit", "poll", "notify"} =>
    /\ g_starts \subseteq Positions(sh_accumulated)
    /\ Boundaries(SortedKeys, SortedBytes, sh_accumulated) \subseteq g_starts

\* The positions of the group that starts at s.
GroupOf(s) == s .. GroupEnd(g_starts, s, sh_accumulated) - 1

GroupDone(s) == \A pos \in GroupOf(s) : Performed(gsort[g_vals[pos]])

\* Groups before gpos are on the SSD; the round's groups are, or are in flight.
SubmitInv ==
  /\ phase \in {"submit", "poll"} => gpos <= Cardinality(g_starts)
  /\ phase = "submit" =>
       \A s \in g_starts : GroupNumber(g_starts, s) < gpos => GroupDone(s)
  /\ phase = "poll" =>
       \A s \in g_starts : GroupNumber(g_starts, s) < gpos + RoundSize =>
         GroupDone(s) \/ Command(s) \in inflight
  /\ \A c \in inflight : phase = "poll" /\ \E s \in g_starts : c = Command(s)

\* Nothing is announced before it is on the SSD.
ServedBeforeNotified ==
  /\ \A s \in 0 .. cons_head - 1 : Performed(Asked(s))
  /\ phase = "notify" =>
       \A k \in 0 .. sh_accumulated - 1 : Performed(gsort[k])

\* Slots a completion number may cover: the consumed ones and the batch being notified.
Announced(s) == s < cons_head \/ (phase = "notify" /\ s < cons_head + sh_accumulated)

DoneSeqInv ==
  /\ \A x \in RingIdx : done_seq[x] <= prod_tail
  /\ \A s \in 0 .. prod_tail - 1 : done_seq[Idx(s)] >= s + 1 => Announced(s)
  /\ phase = "notify" => to_notify \subseteq Positions(sh_accumulated)
  /\ cons_head <= prod_tail

SchedulerInv ==
  /\ BatchIsAsked /\ BallotInv /\ DrainInv /\ BatchNotEmpty
  /\ SortInv /\ MergeInv /\ SubmitInv /\ ServedBeforeNotified /\ DoneSeqInv

CoreInv == RingTypeOK /\ SchedTypeOK /\ RingInv /\ SchedulerInv

=============================================================================
