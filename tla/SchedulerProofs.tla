-------------------------- MODULE SchedulerProofs -------------------------
(***************************************************************************)
(* Every step of the scheduler block (accumulate, sort, merge, submit,     *)
(* notify) and of the controller preserves CoreInv, for every ring         *)
(* capacity, block size, merge target, PRP pool and knee limit, as long as *)
(* fewer than SeqMod requests have been claimed.                           *)
(***************************************************************************)
EXTENDS AlgorithmProofs

(* The scheduler block *)

Accumulating == {"base", "tail", "ballot", "drain", "empty", "wait", "sort", "exit"}

\* While the batch is being drained nothing is sorted, in flight or announced.
LEMMA AccumulateFrame ==
  ASSUME CoreInv, UNCHANGED <<ringVars, inflight, disk>>,
         phase \in Accumulating, phase' \in Accumulating
  PROVE  /\ SortInv' /\ MergeInv' /\ SubmitInv' /\ ServedBeforeNotified' /\ DoneSeqInv'
         /\ inflight = {}
<1>1. UNCHANGED <<done_seq, prod_tail, cons_head, asked>>
  BY Zenon DEF ringVars, memory, enqueuing
<1>2. inflight = {}
  BY Zenon DEF CoreInv, SchedulerInv, SubmitInv, Accumulating
<1>3. SortInv' /\ MergeInv' /\ SubmitInv'
  BY Zenon, <1>2 DEF SortInv, MergeInv, SubmitInv, Accumulating
<1>4. ServedBeforeNotified'
  BY Zenon, <1>1 DEF CoreInv, SchedulerInv, ServedBeforeNotified, Performed, Asked, Accumulating
<1>5. DoneSeqInv'
  BY Zenon, <1>1 DEF CoreInv, SchedulerInv, DoneSeqInv, Announced, Accumulating
<1> QED BY Zenon, <1>2, <1>3, <1>4, <1>5

\* A new batch starts empty at cons_head.
LEMMA OpenBatchKeepsCore ==
  ASSUME CoreInv, OpenBatch
  PROVE  CoreInv'
<1>1. /\ phase = "base" /\ phase' = "tail" /\ sh_base_head' = cons_head /\ sh_accumulated' = 0
      /\ UNCHANGED <<ringVars, inflight, disk, cons_head, prod_tail>>
      /\ UNCHANGED <<sh_avail, ballot, lanes, sh_drain_ns, ns, gsort, gpos, to_notify,
                     submitted_ios, merged_ios>>
  BY Zenon DEF OpenBatch, GotoPhase, drainVars, mergeVars, ringVars
<1>2. RingTypeOK' /\ RingInv'
  BY Zenon, <1>1, RingFrame DEF CoreInv
<1>3. SchedTypeOK'
  <2>1. cons_head \in Nat /\ 0 \in 0 .. Capacity
    BY DrainTypes
  <2> QED BY Zenon, <1>1, <2>1 DEF CoreInv, SchedTypeOK, Phases
<1>4. SortInv' /\ MergeInv' /\ SubmitInv' /\ ServedBeforeNotified' /\ DoneSeqInv'
  BY Zenon, <1>1, AccumulateFrame DEF Accumulating
<1>5. BatchIsAsked'
  BY <1>1, DrainTypes DEF BatchIsAsked
<1>6. BallotInv' /\ DrainInv' /\ BatchNotEmpty'
  BY Zenon, <1>1 DEF BallotInv, DrainInv, BatchNotEmpty
<1> QED BY Zenon, <1>2, <1>3, <1>4, <1>5, <1>6 DEF CoreInv, SchedulerInv

\* The round stays within the claimed slots and the room of the batch.
LEMMA BoundRoundKeepsCore ==
  ASSUME CoreInv, NoWrap, BoundRound
  PROVE  CoreInv'
<1>t. /\ prod_tail \in Nat /\ cons_head \in Nat /\ Capacity \in Nat
      /\ sh_accumulated \in 0 .. Capacity /\ SchedThreads \in Nat
  BY Zenon, DrainTypes
<1>1. /\ phase = "tail" /\ phase' = "ballot" /\ lanes' = Lanes
      /\ UNCHANGED <<ringVars, inflight, disk, cons_head, prod_tail>>
      /\ UNCHANGED <<sh_base_head, sh_accumulated, gsort, ballot, sh_drain_ns, ns, gpos,
                     to_notify, submitted_ios, merged_ios>>
  BY Zenon DEF BoundRound, GotoPhase, batchVars, mergeVars, ringVars
<1>b. BatchIsAsked /\ phase # "base"
  BY Zenon, <1>1 DEF CoreInv, SchedulerInv
<1>c. sh_base_head = cons_head /\ cons_head + sh_accumulated <= prod_tail
  BY Zenon, <1>b DEF BatchIsAsked
<1>2. /\ sh_avail' \in 0 .. SchedThreads
      /\ sh_accumulated + sh_avail' <= Capacity
      /\ cons_head + sh_accumulated + sh_avail' <= prod_tail
  <2>1. prod_tail - (sh_base_head + sh_accumulated) \in 0 .. SeqMod - 1
    BY <1>c, <1>t, SeqModAssumption DEF NoWrap
  <2>2. U32(prod_tail - (sh_base_head + sh_accumulated))
          = prod_tail - (cons_head + sh_accumulated)
    BY Zenon, <2>1, <1>c, U32Small
  <2>3. sh_avail' = Min2(Min2(prod_tail - (cons_head + sh_accumulated),
                              Capacity - sh_accumulated), SchedThreads)
    BY Zenon, <2>2 DEF BoundRound
  <2> QED BY <2>3, <1>c, <1>t DEF Min2
<1>3. RingTypeOK' /\ RingInv' /\ (\A s : Published(s)' = Published(s))
        /\ (\A s : Asked(s)' = Asked(s))
  BY Zenon, <1>1, RingFrame DEF CoreInv
<1>4. SchedTypeOK'
  BY Zenon, <1>1, <1>2 DEF CoreInv, SchedTypeOK, Phases, Lanes
<1>5. SortInv' /\ MergeInv' /\ SubmitInv' /\ ServedBeforeNotified' /\ DoneSeqInv'
  BY Zenon, <1>1, AccumulateFrame DEF Accumulating
<1>6. BatchIsAsked'
  <2>1. \A k \in 0 .. sh_accumulated - 1 :
          Published(cons_head + k) /\ gsort[k] = Asked(cons_head + k)
    BY Zenon, <1>b DEF BatchIsAsked
  <2> QED BY Zenon, <1>1, <1>c, <2>1, <1>3 DEF BatchIsAsked, Published, Asked, ringVars, memory, enqueuing
<1>7. BallotInv'
  BY Zenon, <1>1, <1>2 DEF BallotInv
<1>8. DrainInv' /\ BatchNotEmpty'
  BY Zenon, <1>1 DEF DrainInv, BatchNotEmpty
<1> QED BY Zenon, <1>3, <1>4, <1>5, <1>6, <1>7, <1>8 DEF CoreInv, SchedulerInv

\* The drained part of the batch survives a step that leaves it and the ring alone.
LEMMA BatchKept ==
  ASSUME CoreInv, phase # "base",
         UNCHANGED <<ringVars, sh_base_head, sh_accumulated, gsort>>
  PROVE  /\ BatchIsAsked'
         /\ sh_base_head = cons_head /\ cons_head + sh_accumulated <= prod_tail
         /\ \A k \in 0 .. sh_accumulated - 1 :
              Published(cons_head + k) /\ gsort[k] = Asked(cons_head + k)
<1>1. UNCHANGED <<prod_seq, prod_tail, cons_head, asked>>
  BY Zenon DEF ringVars, memory, enqueuing
<1>2. BatchIsAsked
  BY Zenon DEF CoreInv, SchedulerInv
<1> QED BY Zenon, <1>1, <1>2 DEF BatchIsAsked, Published, Asked

\* A thread that found its slot ready saw a published slot of the round.
LEMMA LaneCheckKeepsCore ==
  ASSUME CoreInv, NoWrap, NEW t \in Lanes, LaneCheck(t)
  PROVE  CoreInv'
<1>t. /\ prod_tail \in Nat /\ cons_head \in Nat /\ Capacity \in Nat
      /\ sh_accumulated \in 0 .. Capacity /\ SchedThreads \in Nat /\ sh_avail \in Nat
      /\ ballot \in [Lanes -> BOOLEAN] /\ prod_seq \in [RingIdx -> Nat] /\ t \in Nat
      /\ SeqMod \in Nat
  <2>1. t \in Nat /\ SeqMod \in Nat
    BY SeqModAssumption, SchedAssumption DEF Lanes
  <2> QED BY Zenon, <2>1, DrainTypes
<1>1. /\ phase = "ballot" /\ phase' = "ballot" /\ lanes' = lanes \ {t}
      /\ ballot' = [ballot EXCEPT
           ![t] = t < sh_avail /\ ReadyAt(sh_base_head + sh_accumulated + t)]
      /\ UNCHANGED <<ringVars, inflight, disk, cons_head, prod_tail, prod_seq>>
      /\ UNCHANGED <<sh_avail, sh_base_head, sh_accumulated, gsort, sh_drain_ns, ns, gpos,
                     to_notify, submitted_ios, merged_ios>>
  BY Zenon DEF LaneCheck, batchVars, mergeVars, ringVars, memory
<1>2. RingTypeOK' /\ RingInv'
  BY Zenon, <1>1, RingFrame DEF CoreInv
<1>3. SchedTypeOK'
  <2>1. ballot' \in [Lanes -> BOOLEAN]
    <3> DEFINE found == t < sh_avail /\ ReadyAt(sh_base_head + sh_accumulated + t)
    <3>1. found \in BOOLEAN
      BY Zenon DEF ReadyAt
    <3>2. ballot' = [ballot EXCEPT ![t] = found]
      BY Zenon, <1>1
    <3> HIDE DEF found
    <3> QED BY Zenon, <3>1, <3>2, <1>t
  <2> QED BY Zenon, <1>1, <2>1 DEF CoreInv, SchedTypeOK
<1>4. SortInv' /\ MergeInv' /\ SubmitInv' /\ ServedBeforeNotified' /\ DoneSeqInv'
  BY Zenon, <1>1, AccumulateFrame DEF Accumulating
<1>5. BatchIsAsked' /\ sh_base_head = cons_head
  BY Zenon, <1>1, BatchKept
<1>6. BallotInv'
  <2>1. /\ sh_accumulated + sh_avail <= Capacity
        /\ cons_head + sh_accumulated + sh_avail <= prod_tail
        /\ \A u \in Lanes \ lanes : ballot[u] => u < sh_avail /\ Published(RoundSlot(u))
    BY Zenon, <1>1 DEF CoreInv, SchedulerInv, BallotInv
  <2>2. ballot'[t] => t < sh_avail /\ Published(RoundSlot(t))
    <3>1. SUFFICES ASSUME ballot'[t] PROVE t < sh_avail /\ Published(RoundSlot(t))
      BY Zenon
    <3>2. t < sh_avail /\ ReadyAt(cons_head + sh_accumulated + t)
      BY <3>1, <1>1, <1>5, <1>t, Zenon
    <3>3. cons_head + sh_accumulated + t + 1 \in 0 .. SeqMod - 1
      BY <2>1, <3>2, <1>t DEF NoWrap
    <3>4. cons_head + sh_accumulated + t \in Nat
      BY <1>t
    <3>5. prod_seq[Idx(cons_head + sh_accumulated + t)] \in 0 .. SeqMod - 1
      BY <3>4, <1>t, IdxType DEF CoreInv, RingInv, WithinLap, NoWrap
    <3> QED BY Zenon, <3>2, <3>3, <3>5, U32Small DEF ReadyAt, Published, RoundSlot
  <2>3. \A u \in Lanes : u # t => ballot'[u] = ballot[u]
    BY Zenon, <1>1, <1>t
  <2>4. \A u \in Lanes \ lanes' : ballot'[u] => u < sh_avail /\ Published(RoundSlot(u))
    BY Zenon, <2>1, <2>2, <2>3, <1>1
  <2> QED BY Zenon, <2>1, <2>4, <1>1 DEF BallotInv, Published, RoundSlot
<1>7. DrainInv' /\ BatchNotEmpty'
  BY Zenon, <1>1 DEF DrainInv, BatchNotEmpty
<1> QED BY Zenon, <1>2, <1>3, <1>4, <1>5, <1>6, <1>7 DEF CoreInv, SchedulerInv

\* The drained prefix consists of published slots.
LEMMA CountReadyKeepsCore ==
  ASSUME CoreInv, CountReady
  PROVE  CoreInv'
<1>t. /\ prod_tail \in Nat /\ cons_head \in Nat /\ Capacity \in Nat
      /\ sh_accumulated \in 0 .. Capacity /\ SchedThreads \in Nat /\ sh_avail \in Nat
  BY Zenon, DrainTypes
<1>1. /\ phase = "ballot" /\ lanes = {}
      /\ UNCHANGED <<ringVars, inflight, disk, cons_head, prod_tail, prod_seq, asked>>
      /\ UNCHANGED <<ballot, sh_base_head, sh_accumulated, gsort, sh_drain_ns, gpos,
                     to_notify, submitted_ios, merged_ios>>
  BY Zenon DEF CountReady, batchVars, mergeVars, ringVars, memory, enqueuing
<1>k. PICK k \in 0 .. SchedThreads :
        ReadyPrefix(k) /\ sh_avail' = k /\ AfterCount(k)
  BY Zenon DEF CountReady
<1>p. /\ phase' \in {"drain", "empty", "wait"}
      /\ phase' = "drain" => k > 0 /\ lanes' = 0 .. k - 1
      /\ phase' = "wait" => sh_accumulated > 0
      /\ ns' \in {ns, sh_drain_ns} /\ lanes' \in {lanes, 0 .. k - 1}
  BY Zenon, <1>k DEF AfterCount
<1>2. RingTypeOK' /\ RingInv'
  BY Zenon, <1>1, RingFrame DEF CoreInv
<1>3. SchedTypeOK'
  <2>1. lanes' \subseteq Lanes
    BY <1>p, <1>1, <1>t DEF Lanes
  <2>2. ns' \in 0 .. MaxDrain
    BY <1>p, DrainTypes
  <2> QED BY Zenon, <1>1, <1>p, <1>k, <2>1, <2>2 DEF CoreInv, SchedTypeOK, Phases
<1>4. SortInv' /\ MergeInv' /\ SubmitInv' /\ ServedBeforeNotified' /\ DoneSeqInv'
  BY Zenon, <1>1, <1>p, AccumulateFrame DEF Accumulating
<1>5. BatchIsAsked'
  BY Zenon, <1>1, BatchKept
<1>6. BallotInv' /\ BatchNotEmpty'
  BY Zenon, <1>p, <1>1 DEF BallotInv, BatchNotEmpty
<1>7. DrainInv'
  <2>1. /\ sh_accumulated + sh_avail <= Capacity
        /\ cons_head + sh_accumulated + sh_avail <= prod_tail
        /\ \A u \in Lanes : ballot[u] => u < sh_avail /\ Published(RoundSlot(u))
    BY Zenon, <1>1 DEF CoreInv, SchedulerInv, BallotInv
  <2>2. \A u \in 0 .. k - 1 : u < sh_avail /\ Published(RoundSlot(u))
    BY <2>1, <1>k, <1>t DEF ReadyPrefix, Lanes
  <2>3. k <= sh_avail
    <3>1. CASE k = 0
      BY <3>1, <1>t
    <3>2. CASE k > 0
      <4>1. k - 1 \in 0 .. k - 1
        BY <3>2
      <4> QED BY <4>1, <2>2, <1>t
    <3> QED BY <3>1, <3>2
  <2>4. /\ sh_accumulated + k <= Capacity
        /\ cons_head + sh_accumulated + k <= prod_tail
    BY <2>1, <2>3, <1>t
  <2> QED BY Zenon, <2>2, <2>4, <1>1, <1>k, <1>p DEF DrainInv, Published, RoundSlot
<1> QED BY Zenon, <1>2, <1>3, <1>4, <1>5, <1>6, <1>7 DEF CoreInv, SchedulerInv

\* A thread copies the request that was asked for in its slot.
LEMMA LaneDrainKeepsCore ==
  ASSUME CoreInv, NEW t \in Lanes, LaneDrain(t)
  PROVE  CoreInv'
<1>t. /\ prod_tail \in Nat /\ cons_head \in Nat /\ Capacity \in Nat /\ t \in Nat
      /\ sh_accumulated \in 0 .. Capacity /\ SchedThreads \in Nat /\ sh_avail \in Nat
      /\ gsort \in [RingIdx -> [off : Nat, pe : Nat]]
      /\ entries \in [RingIdx -> [off : Nat, pe : Nat]]
  <2>1. t \in Nat
    BY SchedAssumption DEF Lanes
  <2> QED BY Zenon, <2>1, DrainTypes
<1>1. /\ phase = "drain" /\ phase' = "drain" /\ t \in lanes /\ lanes' = lanes \ {t}
      /\ gsort' = [gsort EXCEPT ![sh_accumulated + t] =
                     entries[Idx(sh_base_head + sh_accumulated + t)]]
      /\ UNCHANGED <<ringVars, inflight, disk, cons_head, prod_tail, prod_seq, asked>>
      /\ UNCHANGED <<sh_avail, ballot, sh_base_head, sh_accumulated, sh_drain_ns, ns, gpos,
                     to_notify, submitted_ios, merged_ios>>
  BY Zenon DEF LaneDrain, mergeVars, ringVars, memory, enqueuing
<1>b. /\ sh_base_head = cons_head /\ cons_head + sh_accumulated <= prod_tail
      /\ \A k \in 0 .. sh_accumulated - 1 :
           Published(cons_head + k) /\ gsort[k] = Asked(cons_head + k)
  BY Zenon, <1>1 DEF CoreInv, SchedulerInv, BatchIsAsked
<1>d. /\ sh_avail > 0
      /\ sh_accumulated + sh_avail <= Capacity
      /\ cons_head + sh_accumulated + sh_avail <= prod_tail
      /\ lanes \subseteq 0 .. sh_avail - 1
      /\ \A u \in 0 .. sh_avail - 1 : Published(RoundSlot(u))
      /\ \A u \in (0 .. sh_avail - 1) \ lanes :
           gsort[sh_accumulated + u] = Asked(RoundSlot(u))
  BY Zenon, <1>1 DEF CoreInv, SchedulerInv, DrainInv
<1>e. /\ t \in 0 .. sh_avail - 1 /\ sh_accumulated + t \in RingIdx
      /\ RoundSlot(t) \in cons_head .. prod_tail - 1 /\ RoundSlot(t) \in Nat
      /\ Idx(RoundSlot(t)) \in RingIdx
  <2>1. t \in 0 .. sh_avail - 1
    BY Zenon, <1>d, <1>1
  <2>2. sh_accumulated + t \in RingIdx
    BY <2>1, <1>d, <1>t DEF RingIdx
  <2>3. RoundSlot(t) \in cons_head .. prod_tail - 1 /\ RoundSlot(t) \in Nat
    BY <2>1, <1>d, <1>t DEF RoundSlot
  <2> QED BY Zenon, <2>1, <2>2, <2>3, IdxType
<1>w. /\ gsort'[sh_accumulated + t] = Asked(RoundSlot(t))
      /\ \A x \in RingIdx : x # sh_accumulated + t => gsort'[x] = gsort[x]
      /\ gsort' \in [RingIdx -> [off : Nat, pe : Nat]]
  <2>1. entries[Idx(RoundSlot(t))] = Asked(RoundSlot(t))
    BY Zenon, <1>d, <1>e DEF CoreInv, RingInv, PublishedIsAsked, Published
  <2>2. gsort' = [gsort EXCEPT ![sh_accumulated + t] = entries[Idx(RoundSlot(t))]]
    BY Zenon, <1>1, <1>b DEF RoundSlot
  <2> QED BY Zenon, <2>1, <2>2, <1>e, <1>t
<1>2. RingTypeOK' /\ RingInv' /\ (\A s : Asked(s)' = Asked(s))
  BY Zenon, <1>1, RingFrame DEF CoreInv
<1>3. SchedTypeOK'
  BY Zenon, <1>1, <1>w DEF CoreInv, SchedTypeOK
<1>4. SortInv' /\ MergeInv' /\ SubmitInv' /\ ServedBeforeNotified' /\ DoneSeqInv'
  BY Zenon, <1>1, AccumulateFrame DEF Accumulating
<1>5. BatchIsAsked'
  <2>1. \A k \in 0 .. sh_accumulated - 1 : gsort'[k] = gsort[k]
    BY <1>w, <1>t DEF RingIdx
  <2> QED BY Zenon, <2>1, <1>1, <1>b DEF BatchIsAsked, Published, Asked
<1>6. BallotInv' /\ BatchNotEmpty'
  BY Zenon, <1>1 DEF BallotInv, BatchNotEmpty
<1>7. DrainInv'
  <2>1. \A u \in (0 .. sh_avail - 1) \ lanes' : gsort'[sh_accumulated + u] = Asked(RoundSlot(u))
    <3> SUFFICES ASSUME NEW u \in (0 .. sh_avail - 1) \ lanes'
                 PROVE  gsort'[sh_accumulated + u] = Asked(RoundSlot(u))
      BY Zenon
    <3>1. CASE u = t
      BY Zenon, <3>1, <1>w
    <3>2. CASE u # t
      <4>1. u \notin lanes /\ sh_accumulated + u \in RingIdx
        BY <3>2, <1>1, <1>d, <1>t DEF RingIdx
      <4>2. sh_accumulated + u # sh_accumulated + t
        BY <3>2, <1>t
      <4> QED BY Zenon, <4>1, <4>2, <1>w, <1>d
    <3> QED BY Zenon, <3>1, <3>2
  <2>2. lanes' \subseteq 0 .. sh_avail - 1
    BY Zenon, <1>1, <1>d
  <2> QED BY Zenon, <2>1, <2>2, <1>1, <1>d DEF DrainInv, Published, RoundSlot, Asked
<1> QED BY Zenon, <1>2, <1>3, <1>4, <1>5, <1>6, <1>7 DEF CoreInv, SchedulerInv

\* The round's requests join the batch.
LEMMA EndRoundKeepsCore ==
  ASSUME CoreInv, EndRound
  PROVE  CoreInv'
<1>t. /\ prod_tail \in Nat /\ cons_head \in Nat /\ Capacity \in Nat
      /\ sh_accumulated \in Nat /\ sh_avail \in Nat /\ MaxDrain \in Nat
      /\ sh_drain_ns \in 1 .. MaxDrain
  BY Zenon, DrainTypes
<1>1. /\ phase = "drain" /\ lanes = {} /\ phase' \in {"tail", "wait"}
      /\ sh_accumulated' = sh_accumulated + sh_avail /\ ns' = sh_drain_ns
      /\ UNCHANGED <<ringVars, inflight, disk, cons_head, prod_tail, prod_seq, asked>>
      /\ UNCHANGED <<sh_avail, ballot, lanes, sh_base_head, gsort, sh_drain_ns, gpos,
                     to_notify, submitted_ios, merged_ios>>
  BY Zenon DEF EndRound, mergeVars, ringVars, memory, enqueuing
<1>b. /\ sh_base_head = cons_head
      /\ \A k \in 0 .. sh_accumulated - 1 :
           Published(cons_head + k) /\ gsort[k] = Asked(cons_head + k)
  BY Zenon, <1>1 DEF CoreInv, SchedulerInv, BatchIsAsked
<1>d. /\ sh_avail > 0
      /\ sh_accumulated + sh_avail <= Capacity
      /\ cons_head + sh_accumulated + sh_avail <= prod_tail
      /\ \A u \in 0 .. sh_avail - 1 : Published(RoundSlot(u))
      /\ \A u \in 0 .. sh_avail - 1 : gsort[sh_accumulated + u] = Asked(RoundSlot(u))
  BY Zenon, <1>1 DEF CoreInv, SchedulerInv, DrainInv
<1>2. RingTypeOK' /\ RingInv'
  BY Zenon, <1>1, RingFrame DEF CoreInv
<1>3. SchedTypeOK'
  <2>1. ns' \in 0 .. MaxDrain /\ sh_accumulated' \in 0 .. Capacity
    BY <1>1, <1>d, <1>t
  <2> QED BY Zenon, <1>1, <2>1 DEF CoreInv, SchedTypeOK, Phases
<1>4. SortInv' /\ MergeInv' /\ SubmitInv' /\ ServedBeforeNotified' /\ DoneSeqInv'
  BY Zenon, <1>1, AccumulateFrame DEF Accumulating
<1>5. BatchIsAsked'
  <2>1. ASSUME NEW k \in 0 .. sh_accumulated' - 1
        PROVE  Published(cons_head + k) /\ gsort[k] = Asked(cons_head + k)
    <3>1. CASE k < sh_accumulated
      <4>1. k \in 0 .. sh_accumulated - 1
        BY <3>1, <1>t
      <4> QED BY Zenon, <4>1, <1>b
    <3>2. CASE k >= sh_accumulated
      <4>1. /\ k - sh_accumulated \in 0 .. sh_avail - 1
            /\ sh_accumulated + (k - sh_accumulated) = k
            /\ RoundSlot(k - sh_accumulated) = cons_head + k
        BY <3>2, <1>1, <1>t DEF RoundSlot
      <4> QED BY Zenon, <4>1, <1>d
    <3> QED BY <3>1, <3>2, <1>t
  <2>2. sh_base_head' = cons_head /\ cons_head + sh_accumulated' <= prod_tail
    BY <1>1, <1>b, <1>d, <1>t
  <2>3. UNCHANGED <<cons_head, prod_tail, prod_seq, asked, gsort>>
    BY Zenon, <1>1
  <2> QED BY Zenon, <2>1, <2>2, <2>3 DEF BatchIsAsked, Published, Asked
<1>6. BallotInv' /\ DrainInv'
  BY Zenon, <1>1 DEF BallotInv, DrainInv
<1>7. BatchNotEmpty'
  BY <1>1, <1>d, <1>t DEF BatchNotEmpty
<1> QED BY Zenon, <1>2, <1>3, <1>4, <1>5, <1>6, <1>7 DEF CoreInv, SchedulerInv

\* An empty round changes the phase only.
LEMMA EmptyRoundKeepsCore ==
  ASSUME CoreInv, EmptyRound
  PROVE  CoreInv'
<1>1. /\ phase = "empty" /\ phase' \in {"tail", "exit"}
      /\ UNCHANGED <<ringVars, inflight, disk>>
      /\ UNCHANGED <<sh_avail, ballot, lanes, ns, sh_base_head, sh_accumulated, gsort,
                     sh_drain_ns, gpos, to_notify, submitted_ios, merged_ios>>
  BY Zenon DEF EmptyRound, drainVars, batchVars, mergeVars
<1>2. RingTypeOK' /\ RingInv'
  BY Zenon, <1>1, RingFrame DEF CoreInv
<1>3. SchedTypeOK'
  BY Zenon, <1>1 DEF CoreInv, SchedTypeOK, Phases
<1>4. SortInv' /\ MergeInv' /\ SubmitInv' /\ ServedBeforeNotified' /\ DoneSeqInv'
  BY Zenon, <1>1, AccumulateFrame DEF Accumulating
<1>5. BatchIsAsked'
  BY Zenon, <1>1, BatchKept
<1>6. BallotInv' /\ DrainInv' /\ BatchNotEmpty'
  BY Zenon, <1>1 DEF BallotInv, DrainInv, BatchNotEmpty
<1> QED BY Zenon, <1>2, <1>3, <1>4, <1>5, <1>6 DEF CoreInv, SchedulerInv

\* The adaptive wait changes no request.
LEMMA WaitKeepsCore ==
  ASSUME CoreInv, WaitProbe \/ WaitOver
  PROVE  CoreInv'
<1>t. MaxDrain \in Nat /\ MaxDrain > 0 /\ ns \in 0 .. MaxDrain /\ sh_drain_ns \in 1 .. MaxDrain
  BY Zenon, DrainTypes
<1>1. /\ phase = "wait" /\ phase' \in {"tail", "wait", "sort"}
      /\ UNCHANGED <<ringVars, inflight, disk>>
      /\ UNCHANGED <<sh_avail, ballot, lanes, sh_base_head, sh_accumulated, gsort,
                     gpos, to_notify, submitted_ios, merged_ios>>
  BY Zenon DEF WaitProbe, WaitOver, GotoPhase, batchVars, mergeVars
<1>2. RingTypeOK' /\ RingInv'
  BY Zenon, <1>1, RingFrame DEF CoreInv
<1>3. SchedTypeOK'
  <2>1. ns' \in 0 .. MaxDrain /\ sh_drain_ns' \in 1 .. MaxDrain
    BY <1>t DEF WaitProbe, WaitOver, Min2
  <2> QED BY Zenon, <1>1, <2>1 DEF CoreInv, SchedTypeOK, Phases
<1>4. SortInv' /\ MergeInv' /\ SubmitInv' /\ ServedBeforeNotified' /\ DoneSeqInv'
  BY Zenon, <1>1, AccumulateFrame DEF Accumulating
<1>5. BatchIsAsked'
  BY Zenon, <1>1, BatchKept
<1>6. BallotInv' /\ DrainInv'
  BY Zenon, <1>1 DEF BallotInv, DrainInv
<1>7. BatchNotEmpty'
  BY Zenon, <1>1 DEF CoreInv, SchedulerInv, BatchNotEmpty
<1> QED BY Zenon, <1>2, <1>3, <1>4, <1>5, <1>6, <1>7 DEF CoreInv, SchedulerInv

---------------------------------------------------------------------------
(* Phases 2 and 3: sort and merge *)

\* Before the notification, the ring and what has been served stay as they are.
LEMMA ServedKept ==
  ASSUME CoreInv, phase # "notify", phase' # "notify",
         UNCHANGED <<ringVars, disk>>
  PROVE  ServedBeforeNotified' /\ DoneSeqInv'
<1>1. UNCHANGED <<done_seq, prod_tail, cons_head, asked>>
  BY Zenon DEF ringVars, memory, enqueuing
<1>2. ServedBeforeNotified'
  BY Zenon, <1>1 DEF CoreInv, SchedulerInv, ServedBeforeNotified, Performed, Asked
<1>3. DoneSeqInv'
  BY Zenon, <1>1 DEF CoreInv, SchedulerInv, DoneSeqInv, Announced
<1> QED BY Zenon, <1>2, <1>3

\* Sorting establishes SortInv.
LEMMA SortKeepsCore ==
  ASSUME CoreInv, Sort
  PROVE  CoreInv'
<1>1. /\ phase = "sort" /\ phase' = "merge"
      /\ g_vals' \in StableOrders(BatchKeys, sh_accumulated)
      /\ UNCHANGED <<ringVars, inflight, disk>>
      /\ UNCHANGED <<sh_avail, ballot, lanes, ns, sh_base_head, sh_accumulated, gsort,
                     sh_drain_ns, gpos, to_notify, submitted_ios, merged_ios>>
  BY Zenon DEF Sort, GotoPhase, BatchKeys, drainVars, batchVars
<1>2. RingTypeOK' /\ RingInv'
  BY Zenon, <1>1, RingFrame DEF CoreInv
<1>3. SchedTypeOK'
  BY Zenon, <1>1 DEF CoreInv, SchedTypeOK, Phases
<1>4. ServedBeforeNotified' /\ DoneSeqInv'
  BY Zenon, <1>1, ServedKept
<1>5. BatchIsAsked'
  BY Zenon, <1>1, BatchKept
<1>6. BallotInv' /\ DrainInv' /\ MergeInv'
  BY Zenon, <1>1 DEF BallotInv, DrainInv, MergeInv
<1>7. BatchNotEmpty'
  BY Zenon, <1>1 DEF CoreInv, SchedulerInv, BatchNotEmpty
<1>8. SortInv'
  <2>1. BatchKeys' = BatchKeys
    BY Zenon, <1>1 DEF BatchKeys
  <2> QED BY Zenon, <1>1, <2>1 DEF SortInv
<1>9. SubmitInv'
  BY Zenon, <1>1 DEF CoreInv, SchedulerInv, SubmitInv
<1> QED BY Zenon, <1>2, <1>3, <1>4, <1>5, <1>6, <1>7, <1>8, <1>9 DEF CoreInv, SchedulerInv

\* Merging establishes MergeInv: every boundary starts a group.
LEMMA MergeKeepsCore ==
  ASSUME CoreInv, Merge
  PROVE  CoreInv'
<1>1. /\ phase = "merge" /\ phase' = "submit" /\ gpos' = 0
      /\ g_starts' = GroupStarts(SortedKeys, SortedBytes, sh_accumulated, MergeMax)
      /\ UNCHANGED <<ringVars, inflight, disk>>
      /\ UNCHANGED <<sh_avail, ballot, lanes, ns, sh_base_head, sh_accumulated, gsort,
                     sh_drain_ns, g_vals, to_notify, submitted_ios, merged_ios>>
  BY Zenon DEF Merge, GotoPhase, drainVars, batchVars
<1>n. sh_accumulated \in Nat
  BY Zenon, DrainTypes
<1>2. RingTypeOK' /\ RingInv'
  BY Zenon, <1>1, RingFrame DEF CoreInv
<1>3. SchedTypeOK'
  BY Zenon, <1>1 DEF CoreInv, SchedTypeOK, Phases
<1>4. ServedBeforeNotified' /\ DoneSeqInv'
  BY Zenon, <1>1, ServedKept
<1>5. BatchIsAsked'
  BY Zenon, <1>1, BatchKept
<1>6. BallotInv' /\ DrainInv'
  BY Zenon, <1>1 DEF BallotInv, DrainInv
<1>7. BatchNotEmpty'
  BY Zenon, <1>1 DEF CoreInv, SchedulerInv, BatchNotEmpty
<1>k. BatchKeys' = BatchKeys /\ SortedKeys' = SortedKeys /\ SortedBytes' = SortedBytes
  BY Zenon, <1>1, BatchFrame
<1>8. SortInv'
  BY Zenon, <1>1, <1>k DEF CoreInv, SchedulerInv, SortInv
<1>g. /\ g_starts' \in SUBSET Positions(sh_accumulated)
      /\ Boundaries(SortedKeys, SortedBytes, sh_accumulated) \subseteq g_starts'
  <2>1. SortedBytes \in [Positions(sh_accumulated) -> Nat \ {0}]
    BY DEF SortedBytes
  <2> QED BY Zenon, <2>1, <1>1, <1>n, GroupStartsFacts, SchedAssumption
<1>9. MergeInv'
  BY Zenon, <1>1, <1>k, <1>g DEF MergeInv
<1>10. SubmitInv'
  <2>1. inflight = {}
    BY Zenon, <1>1 DEF CoreInv, SchedulerInv, SubmitInv
  <2>2. \A s \in g_starts' : ~(GroupNumber(g_starts', s) < 0)
    BY <1>g, <1>n, GroupNumberFacts
  <2>3. 0 <= Cardinality(g_starts')
    <3>1. IsFiniteSet(Positions(sh_accumulated))
      BY <1>n, FS_Interval DEF Positions
    <3> QED BY <3>1, <1>g, FS_Subset, FS_CardinalityType
  <2> QED BY Zenon, <2>1, <2>2, <2>3, <1>1 DEF SubmitInv
<1> QED BY Zenon, <1>2, <1>3, <1>4, <1>5, <1>6, <1>7, <1>8, <1>9, <1>10 DEF CoreInv, SchedulerInv

---------------------------------------------------------------------------
(* Phase 4: submit *)

\* The round's commands are in flight.
LEMMA SubmitKeepsCore ==
  ASSUME CoreInv, Submit
  PROVE  CoreInv'
<1>1. /\ phase = "submit" /\ phase' = "poll"
      /\ inflight' = {Command(s) : s \in NextGroups}
      /\ UNCHANGED <<ringVars, disk>>
      /\ UNCHANGED <<sh_avail, ballot, lanes, ns, sh_base_head, sh_accumulated, gsort,
                     sh_drain_ns, g_vals, g_starts, gpos, to_notify, submitted_ios,
                     merged_ios>>
  BY Zenon DEF Submit, GotoPhase, drainVars, batchVars, mergeVars
<1>2. RingTypeOK' /\ RingInv'
  BY Zenon, <1>1, RingFrame DEF CoreInv
<1>3. SchedTypeOK'
  BY Zenon, <1>1 DEF CoreInv, SchedTypeOK, Phases
<1>4. ServedBeforeNotified' /\ DoneSeqInv'
  BY Zenon, <1>1, ServedKept
<1>5. BatchIsAsked'
  BY Zenon, <1>1, BatchKept
<1>6. BallotInv' /\ DrainInv'
  BY Zenon, <1>1 DEF BallotInv, DrainInv
<1>7. BatchNotEmpty'
  BY Zenon, <1>1 DEF CoreInv, SchedulerInv, BatchNotEmpty
<1>k. BatchKeys' = BatchKeys /\ SortedKeys' = SortedKeys /\ SortedBytes' = SortedBytes
  BY Zenon, <1>1, BatchFrame
<1>8. SortInv' /\ MergeInv'
  BY Zenon, <1>1, <1>k DEF CoreInv, SchedulerInv, SortInv, MergeInv
<1>c. /\ \A s : Command(s)' = Command(s)
      /\ \A s : GroupOf(s)' = GroupOf(s)
  BY Zenon, <1>1, GroupFrame
<1>d. \A s : GroupDone(s)' = GroupDone(s)
  BY Zenon, <1>c, <1>1 DEF GroupDone, Performed
<1>9. SubmitInv'
  <2>1. /\ gpos \in Nat /\ gpos <= Cardinality(g_starts) /\ RoundSize \in Nat
    BY Zenon, <1>1, RoundSizeFacts
  <2>2. ASSUME NEW s \in g_starts, GroupNumber(g_starts, s) < gpos + RoundSize
        PROVE  GroupDone(s) \/ Command(s) \in inflight'
    <3>1. GroupNumber(g_starts, s) \in Nat
      BY Zenon, <1>1, GroupFacts
    <3>2. CASE GroupNumber(g_starts, s) < gpos
      BY Zenon, <3>2, <1>1 DEF CoreInv, SchedulerInv, SubmitInv
    <3>3. CASE GroupNumber(g_starts, s) >= gpos
      <4>1. GroupNumber(g_starts, s) \in gpos .. gpos + RoundSize - 1
        BY <3>1, <3>3, <2>1, <2>2
      <4> QED BY Zenon, <4>1, <1>1 DEF NextGroups
    <3> QED BY <3>1, <3>2, <3>3, <2>1
  <2>3. \A c \in inflight' : \E s \in g_starts : c = Command(s)
    BY Zenon, <1>1 DEF NextGroups
  <2>4. RoundSize' = RoundSize
    BY Zenon, <1>1 DEF RoundSize, ChunkLeft
  <2>5. /\ phase' = "poll" /\ g_starts' = g_starts /\ gpos' = gpos
    BY Zenon, <1>1
  <2> QED BY Zenon, <2>1, <2>2, <2>3, <2>4, <2>5, <1>c, <1>d DEF SubmitInv
<1> QED BY Zenon, <1>2, <1>3, <1>4, <1>5, <1>6, <1>7, <1>8, <1>9 DEF CoreInv, SchedulerInv

\* A completed command performs every request of its group, and undoes none.
LEMMA DeviceCompleteKeepsCore ==
  ASSUME CoreInv, NEW c \in inflight, DeviceComplete(c), Pages \subseteq Nat
  PROVE  /\ CoreInv'
         /\ \A b \in Pages : disk[b] # <<>> => disk'[b] # <<>>
<1>p. phase = "poll"
  BY Zenon DEF CoreInv, SchedulerInv, SubmitInv
<1>1. /\ phase' = "poll" /\ inflight' = inflight \ {c}
      /\ disk' = [b \in Pages |-> IF b \in c.lba .. c.lba + c.nblks - 1
                                  THEN Append(disk[b], c.prps[b - c.lba])
                                  ELSE disk[b]]
      /\ UNCHANGED <<ringVars>>
      /\ UNCHANGED <<sh_avail, ballot, lanes, ns, sh_base_head, sh_accumulated, gsort,
                     sh_drain_ns, g_vals, g_starts, gpos, to_notify, submitted_ios,
                     merged_ios>>
  BY Zenon, <1>p DEF DeviceComplete, drainVars, batchVars, mergeVars
<1>s. PICK s \in g_starts : c = Command(s)
  BY Zenon DEF CoreInv, SchedulerInv, SubmitInv
<1> DEFINE e == GroupEnd(g_starts, s, sh_accumulated)
<1>e. /\ s \in Nat /\ e \in s + 1 .. sh_accumulated
      /\ c.lba = SortedKeys[s] /\ SortedKeys[s] \in Nat
      /\ c.nblks = e - s
      /\ c.prps \in [0 .. e - s - 1 -> Nat]
  BY Zenon, <1>p, <1>s, CommandFacts
<1> HIDE DEF e
<1>n. sh_accumulated \in Nat /\ disk \in [Pages -> Seq(Nat)]
  BY Zenon, DrainTypes DEF CoreInv, SchedTypeOK
<1>b. \A b \in c.lba .. c.lba + c.nblks - 1 : c.prps[b - c.lba] \in Nat
  BY SMTT(20), <1>e, <1>n
<1>a. \A q \in Seq(Nat), x \in Nat : Append(q, x) \in Seq(Nat) /\ Append(q, x) # <<>>
  OBVIOUS
<1>w. /\ disk' \in [Pages -> Seq(Nat)]
      /\ \A b \in Pages : disk[b] # <<>> => disk'[b] # <<>>
      /\ \A b \in Pages : b \in c.lba .. c.lba + c.nblks - 1 => disk'[b] # <<>>
  <2>1. ASSUME NEW b \in Pages
        PROVE  /\ disk'[b] \in Seq(Nat)
               /\ disk[b] # <<>> => disk'[b] # <<>>
               /\ b \in c.lba .. c.lba + c.nblks - 1 => disk'[b] # <<>>
    <3>1. disk[b] \in Seq(Nat)
      BY Zenon, <1>n
    <3>2. CASE b \in c.lba .. c.lba + c.nblks - 1
      <4>1. disk'[b] = Append(disk[b], c.prps[b - c.lba])
        BY Zenon, <3>2, <1>1
      <4> QED BY Zenon, <4>1, <3>1, <3>2, <1>a, <1>b
    <3>3. CASE b \notin c.lba .. c.lba + c.nblks - 1
      <4>1. disk'[b] = disk[b]
        BY Zenon, <3>3, <1>1
      <4> QED BY Zenon, <4>1, <3>1, <3>3
    <3> QED BY Zenon, <3>2, <3>3
  <2>2. DOMAIN disk' = Pages /\ disk' = [b \in Pages |-> disk'[b]]
    BY Zenon, <1>1
  <2> QED BY Zenon, <2>1, <2>2
<1>2. RingTypeOK' /\ RingInv' /\ \A x : Asked(x)' = Asked(x)
  BY Zenon, <1>1, RingFrame DEF CoreInv
<1>3. SchedTypeOK'
  BY Zenon, <1>1, <1>w DEF CoreInv, SchedTypeOK, Phases
<1>r. ASSUME NEW r \in Request_t, disk[r.off] # <<>>
      PROVE  disk'[r.off] # <<>>
  <2>1. r.off \in Pages
    BY Zenon DEF Request_t
  <2> QED BY <2>1, <1>r, <1>w, Zenon
<1>4. ServedBeforeNotified'
  <2>1. ASSUME NEW x \in 0 .. cons_head - 1
        PROVE  Performed(Asked(x))'
    <3>1. x + 1 \in 1 .. Len(asked) /\ asked \in Seq(Request_t)
      BY DrainTypes DEF CoreInv, RingTypeOK
    <3>2. Asked(x) \in Request_t
      BY <3>1 DEF Asked
    <3>3. Performed(Asked(x))
      BY Zenon DEF CoreInv, SchedulerInv, ServedBeforeNotified
    <3> QED BY Zenon, <3>2, <3>3, <1>r, <1>2 DEF Performed
  <2>2. cons_head' = cons_head
    BY Zenon, <1>1 DEF ringVars
  <2> QED BY Zenon, <2>1, <2>2, <1>1 DEF ServedBeforeNotified
<1>5. DoneSeqInv'
  <2>1. UNCHANGED <<done_seq, prod_tail, cons_head>>
    BY Zenon, <1>1 DEF ringVars, memory
  <2> QED BY Zenon, <2>1, <1>1, <1>p DEF CoreInv, SchedulerInv, DoneSeqInv, Announced
<1>6. BatchIsAsked'
  BY Zenon, <1>1, <1>p, BatchKept
<1>7. BallotInv' /\ DrainInv'
  BY Zenon, <1>1 DEF BallotInv, DrainInv
<1>8. BatchNotEmpty'
  BY Zenon, <1>1, <1>p DEF CoreInv, SchedulerInv, BatchNotEmpty
<1>k. BatchKeys' = BatchKeys /\ SortedKeys' = SortedKeys /\ SortedBytes' = SortedBytes
  BY Zenon, <1>1, BatchFrame
<1>9. SortInv' /\ MergeInv'
  BY Zenon, <1>1, <1>p, <1>k DEF CoreInv, SchedulerInv, SortInv, MergeInv
<1>c. /\ \A x : Command(x)' = Command(x)
      /\ \A x : GroupOf(x)' = GroupOf(x)
  BY Zenon, <1>1, GroupFrame
<1>10. SubmitInv'
  <2>1. ASSUME NEW x \in g_starts, GroupDone(x)
        PROVE  GroupDone(x)'
    <3>1. ASSUME NEW pos \in GroupOf(x)
          PROVE  gsort[g_vals[pos]] \in Request_t
      BY Zenon, <1>p, CommandFacts DEF GroupOf
    <3> QED BY <3>1, <2>1, <1>r, <1>c, <1>1, ZenonT(40) DEF GroupDone, Performed
  <2>2. ASSUME NEW x \in g_starts, Command(x) = c
        PROVE  GroupDone(x)'
    <3> DEFINE f == GroupEnd(g_starts, x, sh_accumulated)
    <3>1. /\ x \in Nat /\ f \in x + 1 .. sh_accumulated
          /\ c.lba = SortedKeys[x] /\ SortedKeys[x] \in Nat
          /\ c.nblks = f - x
          /\ \A pos \in x .. f - 1 : /\ SortedKeys[pos] = SortedKeys[x] + (pos - x)
                                     /\ gsort[g_vals[pos]].off = SortedKeys[pos]
                                     /\ gsort[g_vals[pos]] \in Request_t
      BY Zenon, <2>2, <1>p, CommandFacts
    <3> HIDE DEF f
    <3>2. ASSUME NEW pos \in x .. f - 1
          PROVE  disk'[gsort[g_vals[pos]].off] # <<>>
      <4>1. gsort[g_vals[pos]].off \in c.lba .. c.lba + c.nblks - 1
        BY <3>1, <1>n
      <4>2. gsort[g_vals[pos]].off \in Pages
        BY Zenon, <3>1 DEF Request_t
      <4> QED BY Zenon, <4>1, <4>2, <1>w
    <3> QED BY <3>2, <1>c, <1>1, ZenonT(40) DEF GroupDone, GroupOf, Performed, f
  <2>3. /\ \A x \in g_starts : GroupNumber(g_starts, x) < gpos + RoundSize =>
             GroupDone(x) \/ Command(x) \in inflight
        /\ \A d \in inflight : \E x \in g_starts : d = Command(x)
        /\ gpos <= Cardinality(g_starts)
    BY Zenon, <1>p DEF CoreInv, SchedulerInv, SubmitInv
  <2>4. RoundSize' = RoundSize
    BY Zenon, <1>1 DEF RoundSize, ChunkLeft
  <2>5. ASSUME NEW x \in g_starts, GroupNumber(g_starts, x) < gpos + RoundSize
        PROVE  GroupDone(x)' \/ Command(x) \in inflight'
    BY Zenon, <2>1, <2>2, <2>3, <2>5, <1>1
  <2>6. \A d \in inflight' : \E x \in g_starts : d = Command(x)
    BY Zenon, <2>3, <1>1
  <2>7. phase' = "poll" /\ g_starts' = g_starts /\ gpos' = gpos
    BY Zenon, <1>1
  <2> QED BY Zenon, <2>3, <2>4, <2>5, <2>6, <2>7, <1>c DEF SubmitInv
<1> QED BY Zenon, <1>2, <1>3, <1>4, <1>5, <1>6, <1>7, <1>8, <1>9, <1>10, <1>w DEF CoreInv, SchedulerInv

\* When nothing is in flight the round's groups are on the SSD.
LEMMA SubmitReturnKeepsCore ==
  ASSUME CoreInv, SubmitReturn
  PROVE  CoreInv'
<1>1. /\ phase = "poll" /\ phase' = "submit" /\ inflight = {} /\ inflight' = {}
      /\ gpos' = gpos + RoundSize
      /\ UNCHANGED <<ringVars, disk>>
      /\ UNCHANGED <<sh_avail, ballot, lanes, ns, sh_base_head, sh_accumulated, gsort,
                     sh_drain_ns, g_vals, g_starts, to_notify, submitted_ios, merged_ios>>
  BY Zenon DEF SubmitReturn, GotoPhase, drainVars, batchVars
<1>r. gpos' \in Nat /\ gpos' <= Cardinality(g_starts)
  BY <1>1, RoundSizeFacts
<1>2. RingTypeOK' /\ RingInv'
  BY Zenon, <1>1, RingFrame DEF CoreInv
<1>3. SchedTypeOK'
  BY Zenon, <1>1, <1>r DEF CoreInv, SchedTypeOK, Phases
<1>4. ServedBeforeNotified' /\ DoneSeqInv'
  BY Zenon, <1>1, ServedKept
<1>5. BatchIsAsked'
  BY Zenon, <1>1, BatchKept
<1>6. BallotInv' /\ DrainInv'
  BY Zenon, <1>1 DEF BallotInv, DrainInv
<1>7. BatchNotEmpty'
  BY Zenon, <1>1 DEF CoreInv, SchedulerInv, BatchNotEmpty
<1>k. BatchKeys' = BatchKeys /\ SortedKeys' = SortedKeys /\ SortedBytes' = SortedBytes
  BY Zenon, <1>1, BatchFrame
<1>8. SortInv' /\ MergeInv'
  BY Zenon, <1>1, <1>k DEF CoreInv, SchedulerInv, SortInv, MergeInv
<1>c. \A s : GroupOf(s)' = GroupOf(s)
  BY Zenon, <1>1, GroupFrame
<1>d. \A s : GroupDone(s)' = GroupDone(s)
  BY Zenon, <1>c, <1>1 DEF GroupDone, Performed
<1>9. SubmitInv'
  <2>1. \A s \in g_starts : GroupNumber(g_starts, s) < gpos' => GroupDone(s)
    BY Zenon, <1>1 DEF CoreInv, SchedulerInv, SubmitInv
  <2>2. phase' = "submit" /\ inflight' = {} /\ g_starts' = g_starts
    BY Zenon, <1>1
  <2> QED BY Zenon, <2>1, <2>2, <1>d, <1>r DEF SubmitInv
<1> QED BY Zenon, <1>2, <1>3, <1>4, <1>5, <1>6, <1>7, <1>8, <1>9 DEF CoreInv, SchedulerInv

\* When every group is on the SSD, so is every request of the batch.
LEMMA SubmitDoneKeepsCore ==
  ASSUME CoreInv, SubmitDone
  PROVE  CoreInv'
<1>1. /\ phase = "submit" /\ phase' = "notify" /\ gpos = Cardinality(g_starts)
      /\ to_notify' = Positions(sh_accumulated)
      /\ UNCHANGED <<ringVars, disk, inflight>>
      /\ UNCHANGED <<sh_avail, ballot, lanes, ns, sh_base_head, sh_accumulated, gsort, gpos,
                     sh_drain_ns, g_vals, g_starts, submitted_ios, merged_ios>>
  BY Zenon DEF SubmitDone, GotoPhase, drainVars, batchVars, mergeVars
<1>u. UNCHANGED <<done_seq, prod_tail, cons_head, asked>>
  BY Zenon, <1>1 DEF ringVars, memory, enqueuing
<1>n. sh_accumulated \in 0 .. Capacity /\ Capacity \in Nat /\ cons_head \in Nat
  BY Zenon, DrainTypes
<1>2. RingTypeOK' /\ RingInv'
  BY Zenon, <1>1, RingFrame DEF CoreInv
<1>3. SchedTypeOK'
  <2>1. to_notify' \subseteq RingIdx
    BY <1>1, <1>n DEF Positions, RingIdx
  <2> QED BY Zenon, <1>1, <2>1 DEF CoreInv, SchedTypeOK, Phases
<1>5. BatchIsAsked'
  BY Zenon, <1>1, BatchKept
<1>6. BallotInv' /\ DrainInv'
  BY Zenon, <1>1 DEF BallotInv, DrainInv
<1>7. BatchNotEmpty'
  BY Zenon, <1>1 DEF CoreInv, SchedulerInv, BatchNotEmpty
<1>k. BatchKeys' = BatchKeys /\ SortedKeys' = SortedKeys /\ SortedBytes' = SortedBytes
  BY Zenon, <1>1, BatchFrame
<1>8. SortInv' /\ MergeInv'
  BY Zenon, <1>1, <1>k DEF CoreInv, SchedulerInv, SortInv, MergeInv
<1>9. SubmitInv'
  BY Zenon, <1>1 DEF CoreInv, SchedulerInv, SubmitInv
<1>10. ServedBeforeNotified'
  <2>1. ASSUME NEW k \in 0 .. sh_accumulated - 1
        PROVE  Performed(gsort[k])
    <3>1. PICK pos \in Positions(sh_accumulated) : g_vals[pos] = k
      BY Zenon, <1>1, SortedFacts DEF Positions
    <3>2. /\ g_starts \in SUBSET Positions(sh_accumulated) /\ 0 \in g_starts
          /\ \A s \in g_starts : GroupNumber(g_starts, s) < gpos
      BY Zenon, <1>1, GroupFacts
    <3>3. PICK s \in g_starts : pos \in GroupOf(s)
      BY <3>1, <3>2, <1>n, GroupsCover DEF GroupOf
    <3>4. GroupDone(s)
      BY Zenon, <3>2, <3>3, <1>1 DEF CoreInv, SchedulerInv, SubmitInv
    <3> QED BY Zenon, <3>1, <3>3, <3>4 DEF GroupDone
  <2>2. \A x \in 0 .. cons_head - 1 : Performed(Asked(x))
    BY Zenon DEF CoreInv, SchedulerInv, ServedBeforeNotified
  <2> QED BY <2>1, <2>2, <1>1, <1>u, ZenonT(40) DEF ServedBeforeNotified, Performed, Asked
<1>11. DoneSeqInv'
  BY Zenon, <1>1, <1>u, <1>n DEF CoreInv, SchedulerInv, DoneSeqInv, Announced
<1> QED BY Zenon, <1>2, <1>3, <1>5, <1>6, <1>7, <1>8, <1>9, <1>10, <1>11 DEF CoreInv, SchedulerInv

---------------------------------------------------------------------------
(* Phase 5: notify *)

\* A completion number announces a request that is on the SSD.
LEMMA NotifyKeepsCore ==
  ASSUME CoreInv, NEW pos \in RingIdx, Notify(pos)
  PROVE  CoreInv'
<1> DEFINE slot == sh_base_head + g_vals[pos]
<1>1. /\ phase = "notify" /\ phase' = "notify" /\ pos \in to_notify
      /\ done_seq' = [done_seq EXCEPT ![Idx(slot)] = slot + 1]
      /\ done_flags' = [done_flags EXCEPT ![Idx(slot)] = 1]
      /\ to_notify' = to_notify \ {pos}
      /\ UNCHANGED <<entries, prod_seq, prod_tail, cons_head, shutdown, pc, my_slot, my_req,
                     asked, disk, inflight>>
      /\ UNCHANGED <<sh_avail, ballot, lanes, ns, sh_base_head, sh_accumulated, gsort, gpos,
                     sh_drain_ns, g_vals, g_starts, submitted_ios, merged_ios>>
  BY Zenon DEF Notify, NotifyTurn, enqueuing, drainVars, batchVars, mergeVars
<1>t. /\ sh_accumulated \in Nat /\ cons_head \in Nat /\ prod_tail \in Nat
      /\ done_seq \in [RingIdx -> Nat] /\ done_flags \in [RingIdx -> {0, 1}]
  <2>1. done_seq \in [RingIdx -> Nat] /\ done_flags \in [RingIdx -> {0, 1}]
    BY Zenon DEF CoreInv, RingTypeOK
  <2> QED BY Zenon, <2>1, DrainTypes
<1>b. sh_base_head = cons_head /\ cons_head + sh_accumulated <= prod_tail
  BY Zenon, <1>1 DEF CoreInv, SchedulerInv, BatchIsAsked
<1>v. g_vals[pos] \in 0 .. sh_accumulated - 1
  <2>1. pos \in Positions(sh_accumulated)
    BY Zenon, <1>1 DEF CoreInv, SchedulerInv, DoneSeqInv
  <2>2. g_vals \in [Positions(sh_accumulated) -> Positions(sh_accumulated)]
    BY <1>1, SortedFacts, Zenon
  <2> QED BY <2>1, <2>2, SMTT(30) DEF Positions
<1>s. slot \in Nat /\ slot < cons_head + sh_accumulated /\ slot + 1 <= prod_tail
  BY <1>b, <1>v, <1>t
<1>i. Idx(slot) \in RingIdx
  BY Zenon, <1>s, IdxType
<1> HIDE DEF slot
<1>w. /\ done_seq' \in [RingIdx -> Nat] /\ done_flags' \in [RingIdx -> {0, 1}]
      /\ done_seq'[Idx(slot)] = slot + 1
      /\ \A x \in RingIdx : x # Idx(slot) => done_seq'[x] = done_seq[x]
  BY SMTT(20), <1>1, <1>t, <1>s, <1>i
<1>2. RingTypeOK'
  BY <1>1, <1>w, SMTT(30) DEF CoreInv, RingTypeOK
<1>3. RingInv'
  BY <1>1, ZenonT(40) DEF CoreInv, RingInv, SlotsOwned, WithinLap, PublishedIsAsked, Enqueuing, Asked
<1>4. SchedTypeOK'
  BY Zenon, <1>1 DEF CoreInv, SchedTypeOK, Phases
<1>5. BatchIsAsked'
  BY Zenon, <1>1 DEF CoreInv, SchedulerInv, BatchIsAsked, Published, Asked
<1>6. BallotInv' /\ DrainInv'
  BY Zenon, <1>1 DEF BallotInv, DrainInv
<1>7. BatchNotEmpty'
  BY Zenon, <1>1 DEF CoreInv, SchedulerInv, BatchNotEmpty
<1>8. SortInv' /\ MergeInv' /\ SubmitInv'
  BY Zenon, <1>1, MergeStateFrame DEF CoreInv, SchedulerInv
<1>9. ServedBeforeNotified'
  BY Zenon, <1>1 DEF CoreInv, SchedulerInv, ServedBeforeNotified, Performed, Asked
<1>10. DoneSeqInv'
  <2>1. /\ \A x \in RingIdx : done_seq[x] <= prod_tail
        /\ \A s \in 0 .. prod_tail - 1 :
             done_seq[Idx(s)] >= s + 1 => s < cons_head \/ s < cons_head + sh_accumulated
        /\ to_notify \subseteq Positions(sh_accumulated)
        /\ cons_head <= prod_tail
    BY Zenon, <1>1 DEF CoreInv, SchedulerInv, DoneSeqInv, Announced
  <2>2. \A x \in RingIdx : done_seq'[x] <= prod_tail
    BY Zenon, <2>1, <1>w, <1>s
  <2>3. ASSUME NEW s \in 0 .. prod_tail - 1, done_seq'[Idx(s)] >= s + 1
        PROVE  s < cons_head \/ s < cons_head + sh_accumulated
    <3>1. s \in Nat /\ Idx(s) \in RingIdx
      BY <1>t, IdxType
    <3>2. CASE Idx(s) = Idx(slot)
      BY <3>1, <3>2, <2>3, <1>w, <1>s, <1>t
    <3>3. CASE Idx(s) # Idx(slot)
      BY Zenon, <3>1, <3>3, <2>1, <2>3, <1>w
    <3> QED BY Zenon, <3>2, <3>3
  <2>4. to_notify' \subseteq Positions(sh_accumulated)
    BY Zenon, <2>1, <1>1
  <2>5. UNCHANGED <<prod_tail, cons_head, sh_accumulated>> /\ phase' = "notify"
    BY Zenon, <1>1
  <2> QED BY Zenon, <2>1, <2>2, <2>3, <2>4, <2>5 DEF DoneSeqInv, Announced
<1> QED BY Zenon, <1>2, <1>3, <1>4, <1>5, <1>6, <1>7, <1>8, <1>9, <1>10 DEF CoreInv, SchedulerInv

\* cons_head passes the slots of the batch, all of them served.
LEMMA AdvanceKeepsCore ==
  ASSUME CoreInv, Advance
  PROVE  CoreInv'
<1>1. /\ phase = "notify" /\ phase' = "base"
      /\ cons_head' = cons_head + sh_accumulated
      /\ submitted_ios' = submitted_ios + sh_accumulated
      /\ merged_ios' = merged_ios + Cardinality(g_starts)
      /\ UNCHANGED <<entries, done_flags, done_seq, prod_seq, prod_tail, shutdown, pc, my_slot,
                     my_req, asked, disk, inflight>>
      /\ UNCHANGED <<sh_avail, ballot, lanes, ns, sh_base_head, sh_accumulated, gsort, gpos,
                     sh_drain_ns, g_vals, g_starts, to_notify>>
  BY Zenon DEF Advance, GotoPhase, memory, enqueuing, drainVars, batchVars, mergeVars
<1>t. /\ sh_accumulated \in Nat /\ cons_head \in Nat /\ prod_tail \in Nat /\ Capacity \in Nat
      /\ my_slot \in [Producers -> Nat] /\ prod_seq \in [RingIdx -> Nat]
  BY Zenon, DrainTypes DEF CoreInv, RingTypeOK
<1>b. /\ cons_head + sh_accumulated <= prod_tail
      /\ \A k \in 0 .. sh_accumulated - 1 :
           Published(cons_head + k) /\ gsort[k] = Asked(cons_head + k)
  BY Zenon, <1>1 DEF CoreInv, SchedulerInv, BatchIsAsked
<1>p. ASSUME NEW s \in cons_head .. cons_head + sh_accumulated - 1
      PROVE  prod_seq[Idx(s)] = s + 1 /\ gsort[s - cons_head] = Asked(s)
  <2>1. s - cons_head \in 0 .. sh_accumulated - 1 /\ cons_head + (s - cons_head) = s
    BY <1>t
  <2> QED BY Zenon, <2>1, <1>b DEF Published
<1>2. RingTypeOK'
  BY <1>1, <1>t DEF CoreInv, RingTypeOK
<1>3. RingInv'
  <2>1. ASSUME NEW p \in Producers, Enqueuing(p)
        PROVE  my_slot[p] \in cons_head' .. prod_tail - 1
    <3>1. my_slot[p] \in cons_head .. prod_tail - 1 /\ prod_seq[Idx(my_slot[p])] # my_slot[p] + 1
      BY Zenon, <2>1 DEF CoreInv, RingInv, SlotsOwned
    <3> QED BY <3>1, <1>p, <1>1, <1>t
  <2>2. SlotsOwned'
    BY <2>1, <1>1, ZenonT(40) DEF CoreInv, RingInv, SlotsOwned, Enqueuing, Asked
  <2>3. WithinLap'
    BY <1>1, <1>t DEF CoreInv, RingInv, WithinLap
  <2>4. PublishedIsAsked'
    <3>1. \A s \in cons_head' .. prod_tail - 1 : s \in cons_head .. prod_tail - 1
      BY <1>1, <1>t
    <3> QED BY Zenon, <3>1, <1>1 DEF CoreInv, RingInv, PublishedIsAsked, Asked
  <2> QED BY Zenon, <2>2, <2>3, <2>4 DEF RingInv
<1>4. SchedTypeOK'
  <2>1. Cardinality(g_starts) \in Nat
    BY Zenon, <1>1, GroupFacts
  <2>2. submitted_ios' \in Nat /\ merged_ios' \in Nat
    BY <2>1, <1>1, <1>t DEF CoreInv, SchedTypeOK
  <2> QED BY Zenon, <2>2, <1>1 DEF CoreInv, SchedTypeOK, Phases
<1>5. BatchIsAsked' /\ BallotInv' /\ DrainInv' /\ BatchNotEmpty' /\ SortInv' /\ MergeInv'
  BY Zenon, <1>1 DEF BatchIsAsked, BallotInv, DrainInv, BatchNotEmpty, SortInv, MergeInv
<1>6. SubmitInv'
  BY Zenon, <1>1 DEF CoreInv, SchedulerInv, SubmitInv
<1>7. ServedBeforeNotified'
  <2>1. ASSUME NEW s \in 0 .. cons_head + sh_accumulated - 1
        PROVE  Performed(Asked(s))
    <3>1. CASE s < cons_head
      BY <3>1, <1>t DEF CoreInv, SchedulerInv, ServedBeforeNotified
    <3>2. CASE s >= cons_head
      <4>1. s \in cons_head .. cons_head + sh_accumulated - 1
              /\ s - cons_head \in 0 .. sh_accumulated - 1
        BY <3>2, <1>t
      <4>2. Performed(gsort[s - cons_head])
        BY Zenon, <4>1, <1>1 DEF CoreInv, SchedulerInv, ServedBeforeNotified
      <4> QED BY Zenon, <4>1, <4>2, <1>p
    <3> QED BY <3>1, <3>2, <1>t
  <2>2. disk' = disk /\ asked' = asked /\ cons_head' = cons_head + sh_accumulated
        /\ phase' # "notify"
    BY Zenon, <1>1
  <2>3. ASSUME NEW s \in 0 .. cons_head' - 1
        PROVE  Performed(Asked(s))'
    <3>1. s \in 0 .. cons_head + sh_accumulated - 1
      BY <2>2, <1>t
    <3>2. Performed(Asked(s))
      BY Zenon, <3>1, <2>1
    <3> QED BY Zenon, <3>2, <2>2 DEF Performed, Asked
  <2> QED BY Zenon, <2>2, <2>3 DEF ServedBeforeNotified
<1>8. DoneSeqInv'
  BY <1>1, <1>t, <1>b DEF CoreInv, SchedulerInv, DoneSeqInv, Announced
<1> QED BY Zenon, <1>2, <1>3, <1>4, <1>5, <1>6, <1>7, <1>8 DEF CoreInv, SchedulerInv

\* Init establishes the invariant.
LEMMA CoreInit ==
  ASSUME RingInit, SchedInit
  PROVE  CoreInv
<1>1. RingTypeOK
  <2>1. asked \in Seq(Request_t) /\ Len(asked) = prod_tail
    BY DEF RingInit
  <2>2. ZeroEntry \in [off : Nat, pe : Nat]
    BY Zenon DEF ZeroEntry
  <2>3. /\ entries \in [RingIdx -> [off : Nat, pe : Nat]]
        /\ my_req \in [Producers -> [off : Nat, pe : Nat]]
    BY Zenon, <2>2 DEF RingInit
  <2>4. /\ done_flags \in [RingIdx -> {0, 1}] /\ done_seq \in [RingIdx -> Nat]
        /\ prod_seq \in [RingIdx -> Nat]
        /\ pc \in [Producers -> EnqueuePcs] /\ my_slot \in [Producers -> Nat]
    BY Zenon DEF RingInit, EnqueuePcs
  <2>5. prod_tail \in Nat /\ cons_head \in Nat
    BY Zenon DEF RingInit
  <2>6. shutdown \in BOOLEAN
    BY Zenon DEF RingInit
  <2> QED BY Zenon, <2>1, <2>3, <2>4, <2>5, <2>6 DEF RingTypeOK
<1>2. SchedTypeOK
  <2>1. sh_accumulated \in 0 .. Capacity /\ sh_avail \in 0 .. SchedThreads
        /\ sh_drain_ns \in 1 .. MaxDrain /\ ns \in 0 .. MaxDrain
    BY CapacityAssumption, SchedAssumption DEF SchedInit
  <2>2. disk \in [Pages -> Seq(Nat)] /\ gsort \in [RingIdx -> [off : Nat, pe : Nat]]
    BY DEF SchedInit, ZeroEntry
  <2> QED BY Zenon, <2>1, <2>2 DEF SchedInit, SchedTypeOK, Phases
<1>3. RingInv
  <2>1. \A x \in RingIdx : prod_seq[x] = 0
    BY Zenon DEF RingInit
  <2>2. Capacity \in Nat /\ prod_tail = 0 /\ cons_head = 0
    BY Zenon, CapacityAssumption DEF RingInit
  <2>3. \A p \in Producers : pc[p] = "out"
    BY Zenon DEF RingInit
  <2>4. SlotsOwned
    BY Zenon, <2>3 DEF SlotsOwned, Enqueuing
  <2>5. WithinLap
    BY <2>1, <2>2, <2>3 DEF WithinLap
  <2>6. PublishedIsAsked
    BY <2>2, <2>3 DEF PublishedIsAsked
  <2> QED BY Zenon, <2>4, <2>5, <2>6 DEF RingInv
<1>4. SchedulerInv
  <2>1. phase = "base" /\ inflight = {} /\ cons_head = 0 /\ prod_tail = 0
    BY Zenon DEF SchedInit, RingInit
  <2>2. BatchIsAsked /\ BallotInv /\ DrainInv /\ BatchNotEmpty /\ SortInv /\ MergeInv
    BY Zenon, <2>1 DEF BatchIsAsked, BallotInv, DrainInv, BatchNotEmpty, SortInv, MergeInv
  <2>3. SubmitInv
    BY Zenon, <2>1 DEF SubmitInv
  <2>4. ServedBeforeNotified
    BY <2>1 DEF ServedBeforeNotified
  <2>5. \A x \in RingIdx : done_seq[x] = 0
    BY Zenon DEF RingInit
  <2>6. DoneSeqInv
    BY <2>1, <2>5 DEF DoneSeqInv
  <2> QED BY Zenon, <2>2, <2>3, <2>4, <2>6 DEF SchedulerInv
<1> QED BY Zenon, <1>1, <1>2, <1>3, <1>4 DEF CoreInv

\* One step of the scheduler block or of the controller.
LEMMA SchedulerStepKeepsCore ==
  ASSUME CoreInv, NoWrap, Pages \subseteq Nat, SchedStep \/ DeviceStep
  PROVE  CoreInv'
<1>1. CASE OpenBatch
  BY Zenon, <1>1, OpenBatchKeepsCore
<1>2. CASE BoundRound
  BY Zenon, <1>2, BoundRoundKeepsCore
<1>3. CASE CountReady
  BY Zenon, <1>3, CountReadyKeepsCore
<1>4. CASE EndRound
  BY Zenon, <1>4, EndRoundKeepsCore
<1>5. CASE EmptyRound
  BY Zenon, <1>5, EmptyRoundKeepsCore
<1>6. CASE WaitProbe \/ WaitOver
  BY Zenon, <1>6, WaitKeepsCore
<1>7. CASE Sort
  BY Zenon, <1>7, SortKeepsCore
<1>8. CASE Merge
  BY Zenon, <1>8, MergeKeepsCore
<1>9. CASE Submit
  BY Zenon, <1>9, SubmitKeepsCore
<1>10. CASE SubmitReturn
  BY Zenon, <1>10, SubmitReturnKeepsCore
<1>11. CASE SubmitDone
  BY Zenon, <1>11, SubmitDoneKeepsCore
<1>12. CASE Advance
  BY Zenon, <1>12, AdvanceKeepsCore
<1>13. CASE \E t \in Lanes : LaneCheck(t) \/ LaneDrain(t)
  BY Zenon, <1>13, LaneCheckKeepsCore, LaneDrainKeepsCore
<1>14. CASE \E pos \in RingIdx : Notify(pos)
  BY Zenon, <1>14, NotifyKeepsCore
<1>15. CASE DeviceStep
  BY Zenon, <1>15, DeviceCompleteKeepsCore DEF DeviceStep
<1> QED BY Zenon, <1>1, <1>2, <1>3, <1>4, <1>5, <1>6, <1>7, <1>8, <1>9, <1>10, <1>11, <1>12, <1>13,
           <1>14, <1>15 DEF SchedStep

---------------------------------------------------------------------------
(* The steps of the scheduler and of the controller keep IndInv *)

\* The scheduler and the controller never touch the workers and never undo a write.
LEMMA SchedulerKeeps ==
  ASSUME IndInv, NoWrap, SchedulerStep \/ ControllerStep
  PROVE  IndInv'
<1>t. CoreInv /\ WorkerTypeOK /\ TicketsAreSlots /\ RetiredInv /\ Pages \subseteq Nat
      /\ prod_tail \in Nat
  BY Zenon, RunConstants, DrainTypes DEF IndInv
<1>1. /\ SchedStep \/ DeviceStep
      /\ UNCHANGED <<launch, iter, head, pending, slots, retired>>
  BY Zenon DEF SchedulerStep, ControllerStep, clientVars, workerVars
<1>2. CoreInv'
  BY Zenon, <1>1, <1>t, SchedulerStepKeepsCore
<1>3. UNCHANGED <<pc, prod_tail, asked>>
  BY Zenon, <1>1, SchedStepFrame, DeviceStepFrame
<1>4. WorkerTypeOK' /\ TicketsAreSlots'
  BY Zenon, <1>1, <1>3, <1>t DEF WorkerTypeOK, TicketsAreSlots, Enqueuing
<1>5. \A b \in Pages : disk[b] # <<>> => disk'[b] # <<>>
  <2>1. CASE SchedStep
    <3>1. disk' = disk
      BY Zenon, <2>1, SchedStepFrame
    <3> QED BY <3>1, Zenon
  <2>2. CASE DeviceStep
    BY Zenon, <2>2, <1>t, DeviceCompleteKeepsCore DEF DeviceStep
  <2> QED BY <2>1, <2>2, <1>1, SMTT(30)
<1>6. RetiredInv'
  <2>1. ASSUME NEW s \in retired
        PROVE  s < prod_tail /\ Performed(Asked(s))'
    <3>1. s < prod_tail /\ Performed(Asked(s)) /\ s \in Nat
      BY Zenon, <1>t DEF RetiredInv, WorkerTypeOK
    <3>2. s + 1 \in 1 .. Len(asked) /\ asked \in Seq(Request_t)
      BY <3>1, <1>t DEF CoreInv, RingTypeOK
    <3>3. asked[s + 1].off \in Pages
      <4>1. asked[s + 1] \in Request_t
        BY <3>2
      <4> QED BY Zenon, <4>1 DEF Request_t
    <3>4. disk'[asked[s + 1].off] # <<>>
      BY <3>1, <3>3, <1>5, Zenon DEF Performed, Asked
    <3> QED BY Zenon, <3>1, <3>4, <1>3 DEF Performed, Asked
  <2> QED BY Zenon, <2>1, <1>1, <1>3 DEF RetiredInv
<1> QED BY Zenon, <1>2, <1>4, <1>6 DEF IndInv

=============================================================================
