-------------------------- MODULE TransferProofs --------------------------
(***************************************************************************)
(* Every step of a producer inside io_sched_enqueue preserves CoreInv, and *)
(* every step of a worker and of the host preserves IndInv: a worker's wait*)
(* on done_seq ends only after its page has been written.                  *)
(***************************************************************************)
EXTENDS AlgorithmProofs

(* The steps of io_sched_enqueue *)

\* A claimed slot is fresh: no other producer holds it and it is not published.
LEMMA ClaimSlotKeepsRing ==
  ASSUME RingTypeOK, RingInv, cons_head <= prod_tail, Pages \subseteq Nat,
         NEW p \in Producers, NEW e \in Request_t, ClaimSlot(p, e)
  PROVE  RingTypeOK' /\ RingInv'
<1>1. /\ pc[p] = "out" /\ pc' = [pc EXCEPT ![p] = "full"]
      /\ my_slot' = [my_slot EXCEPT ![p] = prod_tail]
      /\ my_req' = [my_req EXCEPT ![p] = e]
      /\ prod_tail' = prod_tail + 1
      /\ UNCHANGED <<entries, done_flags, done_seq, prod_seq, cons_head, shutdown>>
  BY Zenon DEF ClaimSlot, Goto, memory
<1>2. /\ asked' \in Seq(Request_t)
      /\ Len(asked') = Len(asked) + 1
      /\ \A s \in 0 .. prod_tail - 1 : asked'[s + 1] = asked[s + 1]
      /\ asked'[prod_tail + 1] = e
  <2>1. asked' = Append(asked, e)
    BY Zenon DEF ClaimSlot
  <2> QED BY Zenon, <2>1, AskedAppend DEF RingTypeOK
<1>3. e \in [off : Nat, pe : Nat]
  BY Zenon DEF Request_t
<1>4. RingTypeOK'
  BY <1>1, <1>2, <1>3 DEF RingTypeOK, EnqueuePcs
<1>5. \A x \in Nat : Idx(x) \in RingIdx
  BY Zenon, IdxType
<1>t. /\ prod_tail \in Nat /\ cons_head \in Nat /\ Capacity \in Nat
      /\ my_slot \in [Producers -> Nat] /\ prod_seq \in [RingIdx -> Nat]
      /\ pc \in [Producers -> EnqueuePcs]
      /\ my_req \in [Producers -> [off : Nat, pe : Nat]]
  BY Zenon, CapacityAssumption DEF RingTypeOK
<1>o. ASSUME NEW q \in Producers, q # p
      PROVE  pc'[q] = pc[q] /\ my_slot'[q] = my_slot[q] /\ my_req'[q] = my_req[q]
  BY Zenon, <1>o, <1>1, <1>t
<1>p. pc'[p] = "full" /\ my_slot'[p] = prod_tail /\ my_req'[p] = e
  BY Zenon, <1>1, <1>t
<1>6. WithinLap'
  <2>1. \A q \in Producers :
          pc'[q] \in {"clear", "write", "publish"} => my_slot'[q] < cons_head + Capacity
    BY Zenon, <1>o, <1>p DEF RingInv, WithinLap
  <2>2. \A x \in RingIdx : prod_seq[x] <= cons_head + Capacity /\ prod_seq[x] <= prod_tail + 1
    BY <1>t DEF RingInv, WithinLap
  <2> QED BY Zenon, <2>1, <2>2, <1>1 DEF WithinLap
<1>7. SlotsOwned'
  <2>2. prod_seq[Idx(prod_tail)] # prod_tail + 1
    BY <1>5, <1>t DEF RingInv, WithinLap
  <2>3. ASSUME NEW q \in Producers, Enqueuing(q)'
        PROVE  /\ my_slot'[q] \in cons_head' .. prod_tail' - 1
               /\ my_req'[q] = asked'[my_slot'[q] + 1]
               /\ prod_seq'[Idx(my_slot'[q])] # my_slot'[q] + 1
    <3>1. CASE q = p
      BY <3>1, <1>1, <1>2, <1>p, <1>t, <2>2
    <3>2. CASE q # p
      <4>1. /\ my_slot[q] \in cons_head .. prod_tail - 1
            /\ my_req[q] = asked[my_slot[q] + 1]
            /\ prod_seq[Idx(my_slot[q])] # my_slot[q] + 1
        BY Zenon, <3>2, <2>3, <1>o DEF RingInv, SlotsOwned, Enqueuing, Asked
      <4>2. asked'[my_slot[q] + 1] = asked[my_slot[q] + 1]
        <5>1. my_slot[q] \in 0 .. prod_tail - 1
          BY <4>1, <1>t
        <5> QED BY Zenon, <5>1, <1>2
      <4> QED BY <4>1, <4>2, <3>2, <1>1, <1>o, <1>t
    <3> QED BY Zenon, <3>1, <3>2
  <2>4. ASSUME NEW q \in Producers, NEW r \in Producers, Enqueuing(q)', Enqueuing(r)',
               my_slot'[q] = my_slot'[r]
        PROVE  q = r
    <3>1. \A x \in Producers : x # p /\ Enqueuing(x)' =>
            Enqueuing(x) /\ my_slot'[x] = my_slot[x] /\ my_slot[x] # prod_tail
      BY <1>o, <1>t DEF RingInv, SlotsOwned, Enqueuing
    <3> QED BY Zenon, <3>1, <2>4, <1>p DEF RingInv, SlotsOwned
  <2> QED BY Zenon, <2>3, <2>4 DEF SlotsOwned, Asked
<1>8. PublishedIsAsked'
  <2>3. ASSUME NEW s \in cons_head' .. prod_tail' - 1, prod_seq'[Idx(s)] = s + 1
        PROVE  entries'[Idx(s)] = asked'[s + 1]
    <3>1. s # prod_tail
      BY <2>3, <1>1, <1>5, <1>t DEF RingInv, WithinLap
    <3>2. s \in cons_head .. prod_tail - 1
      BY <3>1, <1>1, <1>t
    <3>3. s \in 0 .. prod_tail - 1 /\ prod_seq[Idx(s)] = s + 1 /\ entries' = entries
      BY <2>3, <3>2, <1>1, <1>t
    <3>4. entries[Idx(s)] = asked[s + 1]
      BY Zenon, <3>2, <3>3 DEF RingInv, PublishedIsAsked, Asked
    <3>5. asked'[s + 1] = asked[s + 1]
      BY Zenon, <3>3, <1>2
    <3> QED BY Zenon, <3>3, <3>4, <3>5
  <2>4. ASSUME NEW q \in Producers, pc'[q] = "publish"
        PROVE  entries'[Idx(my_slot'[q])] = my_req'[q]
    BY Zenon, <2>4, <1>1, <1>o, <1>p DEF RingInv, PublishedIsAsked
  <2> QED BY Zenon, <2>3, <2>4 DEF PublishedIsAsked, Asked
<1> QED BY Zenon, <1>4, <1>6, <1>7, <1>8 DEF RingInv

\* What the steps after the claim leave alone in the ring.
EnqueueFrame(p, from, to) ==
  /\ pc[p] = from /\ pc' = [pc EXCEPT ![p] = to]
  /\ UNCHANGED <<prod_tail, cons_head, shutdown, my_slot, my_req, asked>>

\* The full wait ends within one lap of cons_head: the only use of NoWrap here.
LEMMA LeaveFullKeepsRing ==
  ASSUME RingTypeOK, RingInv, NoWrap, NEW p \in Producers, LeaveFull(p)
  PROVE  RingTypeOK' /\ RingInv'
<1>1. /\ EnqueueFrame(p, "full", "clear")
      /\ UNCHANGED <<entries, done_flags, done_seq, prod_seq>>
      /\ U32(my_slot[p] - cons_head) < Capacity
  BY Zenon DEF LeaveFull, Goto, memory, EnqueueFrame
<1>t. /\ prod_tail \in Nat /\ cons_head \in Nat /\ Capacity \in Nat
      /\ my_slot \in [Producers -> Nat]
      /\ pc \in [Producers -> EnqueuePcs]
  BY Zenon, CapacityAssumption DEF RingTypeOK
<1>2. my_slot[p] < cons_head + Capacity
  <2>1. my_slot[p] \in cons_head .. prod_tail - 1
    BY Zenon, <1>1 DEF RingInv, SlotsOwned, Enqueuing, EnqueueFrame
  <2>2. my_slot[p] - cons_head \in 0 .. SeqMod - 1
    BY <2>1, <1>t, SeqModAssumption DEF NoWrap
  <2> QED BY <2>1, <2>2, <1>1, <1>t, U32Small
<1>3. RingTypeOK'
  BY Zenon, <1>1 DEF RingTypeOK, EnqueuePcs, EnqueueFrame
<1>o. pc'[p] = "clear" /\ \A q \in Producers : q # p => pc'[q] = pc[q]
  BY Zenon, <1>1, <1>t DEF EnqueueFrame
<1>4. WithinLap'
  BY Zenon, <1>1, <1>2, <1>o DEF RingInv, WithinLap, EnqueueFrame
<1>5. SlotsOwned'
  BY ZenonT(40), <1>1, <1>o DEF RingInv, SlotsOwned, EnqueueFrame, Enqueuing, Asked
<1>6. PublishedIsAsked'
  BY Zenon, <1>1, <1>o DEF RingInv, PublishedIsAsked, EnqueueFrame, Asked
<1> QED BY Zenon, <1>3, <1>4, <1>5, <1>6 DEF RingInv

\* Clearing the flag touches nothing the ring invariant is about.
LEMMA ClearFlagKeepsRing ==
  ASSUME RingTypeOK, RingInv, NEW p \in Producers, ClearFlag(p)
  PROVE  RingTypeOK' /\ RingInv'
<1>1. /\ EnqueueFrame(p, "clear", "write")
      /\ UNCHANGED <<entries, done_seq, prod_seq>>
      /\ done_flags' = [done_flags EXCEPT ![Idx(my_slot[p])] = 0]
  BY Zenon DEF ClearFlag, Goto, memory, EnqueueFrame
<1>t. /\ my_slot \in [Producers -> Nat] /\ pc \in [Producers -> EnqueuePcs]
  BY Zenon DEF RingTypeOK
<1>o. pc'[p] = "write" /\ \A q \in Producers : q # p => pc'[q] = pc[q]
  BY Zenon, <1>1, <1>t DEF EnqueueFrame
<1>3. RingTypeOK'
  BY <1>1, IdxType, Zenon DEF RingTypeOK, EnqueuePcs, EnqueueFrame
<1>4. WithinLap'
  BY Zenon, <1>1, <1>o DEF RingInv, WithinLap, EnqueueFrame
<1>5. SlotsOwned'
  BY ZenonT(40), <1>1, <1>o DEF RingInv, SlotsOwned, EnqueueFrame, Enqueuing, Asked
<1>6. PublishedIsAsked'
  BY Zenon, <1>1, <1>o DEF RingInv, PublishedIsAsked, EnqueueFrame, Asked
<1> QED BY Zenon, <1>3, <1>4, <1>5, <1>6 DEF RingInv

\* The entry overwritten belongs to no published, unconsumed slot.
LEMMA WriteEntryKeepsRing ==
  ASSUME RingTypeOK, RingInv, NEW p \in Producers, WriteEntry(p)
  PROVE  RingTypeOK' /\ RingInv'
<1>1. /\ EnqueueFrame(p, "write", "publish")
      /\ UNCHANGED <<done_flags, done_seq, prod_seq>>
      /\ entries' = [entries EXCEPT ![Idx(my_slot[p])] = my_req[p]]
  BY Zenon DEF WriteEntry, Goto, memory, EnqueueFrame
<1>t. /\ prod_tail \in Nat /\ cons_head \in Nat /\ Capacity \in Nat
      /\ my_slot \in [Producers -> Nat] /\ prod_seq \in [RingIdx -> Nat]
      /\ pc \in [Producers -> EnqueuePcs]
      /\ entries \in [RingIdx -> [off : Nat, pe : Nat]]
      /\ my_req \in [Producers -> [off : Nat, pe : Nat]]
  BY Zenon, CapacityAssumption DEF RingTypeOK
<1>o. pc'[p] = "publish" /\ \A q \in Producers : q # p => pc'[q] = pc[q]
  BY Zenon, <1>1, <1>t DEF EnqueueFrame
<1>2. \A x \in Nat : Idx(x) \in RingIdx
  BY Zenon, IdxType
<1>3. RingTypeOK'
  BY <1>1, <1>2, Zenon DEF RingTypeOK, EnqueuePcs, EnqueueFrame
<1>4. WithinLap'
  BY Zenon, <1>1, <1>o DEF RingInv, WithinLap, EnqueueFrame
<1>5. SlotsOwned'
  BY ZenonT(40), <1>1, <1>o DEF RingInv, SlotsOwned, EnqueueFrame, Enqueuing, Asked
<1>6. PublishedIsAsked'
  <2>1. entries'[Idx(my_slot[p])] = my_req[p]
    BY Zenon, <1>1, <1>2, <1>t
  <2>2. \A x \in RingIdx : x # Idx(my_slot[p]) => entries'[x] = entries[x]
    BY Zenon, <1>1, <1>t
  <2>3. ASSUME NEW q \in Producers, pc'[q] = "publish"
        PROVE  entries'[Idx(my_slot[q])] = my_req[q]
    <3>1. CASE q = p
      BY Zenon, <3>1, <2>1
    <3>2. CASE q # p
      <4>1. pc[q] = "publish" /\ pc[p] = "write"
        BY Zenon, <3>2, <2>3, <1>o, <1>1 DEF EnqueueFrame
      <4>2. Idx(my_slot[q]) # Idx(my_slot[p])
        BY Zenon, <4>1, <3>2, SlotsInLapDiffer
      <4> QED BY Zenon, <4>1, <4>2, <2>2, <1>2, <1>t DEF RingInv, PublishedIsAsked
    <3> QED BY Zenon, <3>1, <3>2
  <2>4. ASSUME NEW s \in cons_head .. prod_tail - 1, prod_seq[Idx(s)] = s + 1
        PROVE  entries'[Idx(s)] = asked[s + 1]
    <3>1. Idx(s) # Idx(my_slot[p])
      BY Zenon, <2>4, <1>1, SlotsInLapDiffer DEF EnqueueFrame
    <3>2. s \in Nat
      BY <1>t
    <3> QED BY Zenon, <3>1, <3>2, <2>2, <2>4, <1>2 DEF RingInv, PublishedIsAsked, Asked
  <2> QED BY Zenon, <2>3, <2>4, <1>1 DEF PublishedIsAsked, EnqueueFrame, Asked
<1> QED BY Zenon, <1>3, <1>4, <1>5, <1>6 DEF RingInv

\* Publishing adds the producer's slot and hides no other published one.
LEMMA PublishKeepsRing ==
  ASSUME RingTypeOK, RingInv, NEW p \in Producers, Publish(p)
  PROVE  /\ RingTypeOK' /\ RingInv'
         /\ \A s \in cons_head .. prod_tail - 1 : Published(s) => Published(s)'
<1>1. /\ EnqueueFrame(p, "publish", "out")
      /\ UNCHANGED <<entries, done_flags, done_seq>>
      /\ prod_seq' = [prod_seq EXCEPT ![Idx(my_slot[p])] = my_slot[p] + 1]
  BY Zenon DEF Publish, Goto, memory, EnqueueFrame
<1>t. /\ prod_tail \in Nat /\ cons_head \in Nat /\ Capacity \in Nat
      /\ my_slot \in [Producers -> Nat] /\ prod_seq \in [RingIdx -> Nat]
      /\ pc \in [Producers -> EnqueuePcs]
  BY Zenon, CapacityAssumption DEF RingTypeOK
<1>o. pc'[p] = "out" /\ \A q \in Producers : q # p => pc'[q] = pc[q]
  BY Zenon, <1>1, <1>t DEF EnqueueFrame
<1>2. \A x \in Nat : Idx(x) \in RingIdx
  BY Zenon, IdxType
<1>s. /\ my_slot[p] \in cons_head .. prod_tail - 1
      /\ my_slot[p] < cons_head + Capacity
      /\ \A s \in cons_head .. prod_tail - 1 :
           prod_seq[Idx(s)] = s + 1 => Idx(s) # Idx(my_slot[p])
  <2>1. pc[p] \in {"clear", "write", "publish"}
    BY Zenon, <1>1 DEF EnqueueFrame
  <2> QED BY Zenon, <2>1, SlotsInLapDiffer
<1>w. /\ prod_seq'[Idx(my_slot[p])] = my_slot[p] + 1
      /\ \A x \in RingIdx : x # Idx(my_slot[p]) => prod_seq'[x] = prod_seq[x]
  BY Zenon, <1>1, <1>2, <1>t
<1>3. RingTypeOK'
  <2>1. prod_seq' \in [RingIdx -> Nat]
    BY <1>1, <1>2, <1>t
  <2>2. pc' \in [Producers -> EnqueuePcs]
    BY Zenon, <1>1, <1>t DEF EnqueueFrame, EnqueuePcs
  <2> QED BY Zenon, <2>1, <2>2, <1>1 DEF RingTypeOK, EnqueueFrame
<1>4. WithinLap'
  BY SMTT(20), <1>1, <1>o, <1>s, <1>w, <1>t DEF RingInv, WithinLap, EnqueueFrame
<1>5. SlotsOwned'
  <2>1. ASSUME NEW q \in Producers, Enqueuing(q)'
        PROVE  /\ my_slot[q] \in cons_head .. prod_tail - 1
               /\ my_req[q] = asked[my_slot[q] + 1]
               /\ prod_seq'[Idx(my_slot[q])] # my_slot[q] + 1
    <3>1. q # p /\ Enqueuing(q) /\ Enqueuing(p)
      BY Zenon, <2>1, <1>o, <1>1 DEF Enqueuing, EnqueueFrame
    <3>2. /\ my_slot[q] \in cons_head .. prod_tail - 1
          /\ my_req[q] = asked[my_slot[q] + 1]
          /\ prod_seq[Idx(my_slot[q])] # my_slot[q] + 1
          /\ my_slot[q] # my_slot[p]
      BY Zenon, <3>1 DEF RingInv, SlotsOwned, Asked
    <3> QED BY <3>2, <1>w, <1>2, <1>t
  <2> QED BY <2>1, <1>1, <1>o DEF RingInv, SlotsOwned, EnqueueFrame, Enqueuing, Asked
<1>6. PublishedIsAsked'
  <2>1. entries[Idx(my_slot[p])] = asked[my_slot[p] + 1]
    BY Zenon, <1>1 DEF RingInv, PublishedIsAsked, SlotsOwned, Enqueuing, EnqueueFrame, Asked
  <2>2. ASSUME NEW s \in cons_head .. prod_tail - 1, prod_seq'[Idx(s)] = s + 1
        PROVE  entries[Idx(s)] = asked[s + 1]
    <3>1. CASE Idx(s) = Idx(my_slot[p])
      <4>1. s = my_slot[p]
        BY <3>1, <2>2, <1>w, <1>t
      <4> QED BY Zenon, <4>1, <2>1
    <3>2. CASE Idx(s) # Idx(my_slot[p])
      <4>1. prod_seq[Idx(s)] = s + 1
        BY <3>2, <2>2, <1>w, <1>2, <1>t
      <4> QED BY Zenon, <4>1 DEF RingInv, PublishedIsAsked, Asked
    <3> QED BY Zenon, <3>1, <3>2
  <2> QED BY Zenon, <2>2, <1>1, <1>o DEF RingInv, PublishedIsAsked, EnqueueFrame, Asked
<1>7. \A s \in cons_head .. prod_tail - 1 : Published(s) => Published(s)'
  BY <1>s, <1>w, <1>2, <1>t DEF Published
<1> QED BY Zenon, <1>3, <1>4, <1>5, <1>6, <1>7 DEF RingInv

---------------------------------------------------------------------------
(* What the scheduler knows survives any step of a producer *)

\* The scheduler's invariant survives a step that only extends the ring.
LEMMA ProducerKeepsScheduler ==
  ASSUME RingTypeOK, SchedTypeOK, SchedulerInv,
         UNCHANGED <<schedVars, disk, cons_head, done_seq>>,
         prod_tail' \in Nat, prod_tail' >= prod_tail,
         \A s \in 0 .. prod_tail - 1 : asked'[s + 1] = asked[s + 1],
         \A s \in cons_head .. prod_tail - 1 : Published(s) => Published(s)'
  PROVE  SchedTypeOK' /\ SchedulerInv'
<1>u. /\ UNCHANGED <<phase, sh_avail, ballot, lanes, sh_drain_ns, ns, sh_base_head,
                     sh_accumulated, gsort, g_vals, g_starts, gpos, inflight, to_notify,
                     submitted_ios, merged_ios>>
      /\ UNCHANGED <<disk, cons_head, done_seq>>
  BY Zenon DEF schedVars, drainVars, batchVars, mergeVars
<1>t. /\ prod_tail \in Nat /\ cons_head \in Nat /\ sh_accumulated \in Nat
      /\ sh_avail \in Nat /\ done_seq \in [RingIdx -> Nat]
      /\ Capacity \in Nat /\ SchedThreads \in Nat
  BY CapacityAssumption, SchedAssumption DEF RingTypeOK, SchedTypeOK
<1>1. SchedTypeOK'
  BY Zenon, <1>u DEF SchedTypeOK
<1>2. BatchIsAsked'
  <2> SUFFICES ASSUME phase # "base"
               PROVE  /\ sh_base_head = cons_head
                      /\ cons_head + sh_accumulated <= prod_tail'
                      /\ \A k \in 0 .. sh_accumulated - 1 :
                           Published(cons_head + k)' /\ gsort[k] = asked'[cons_head + k + 1]
    BY Zenon, <1>u DEF BatchIsAsked, Asked
  <2>1. sh_base_head = cons_head /\ cons_head + sh_accumulated <= prod_tail
    BY Zenon DEF SchedulerInv, BatchIsAsked
  <2>2. ASSUME NEW k \in 0 .. sh_accumulated - 1
        PROVE  Published(cons_head + k)' /\ gsort[k] = asked'[cons_head + k + 1]
    <3>1. Published(cons_head + k) /\ gsort[k] = asked[cons_head + k + 1]
      BY Zenon DEF SchedulerInv, BatchIsAsked, Asked
    <3>2. cons_head + k \in cons_head .. prod_tail - 1 /\ cons_head + k \in 0 .. prod_tail - 1
      BY <2>1, <1>t
    <3> QED BY Zenon, <3>1, <3>2
  <2>3. cons_head + sh_accumulated <= prod_tail'
    BY <2>1, <1>t
  <2> QED BY Zenon, <2>1, <2>2, <2>3
<1>3. BallotInv'
  BY <1>u, <1>t DEF SchedulerInv, BallotInv, RoundSlot, Lanes
<1>4. DrainInv'
  <2> SUFFICES ASSUME phase = "drain"
               PROVE  /\ sh_avail > 0
                      /\ sh_accumulated + sh_avail <= Capacity
                      /\ cons_head + sh_accumulated + sh_avail <= prod_tail'
                      /\ lanes \subseteq 0 .. sh_avail - 1
                      /\ \A t \in 0 .. sh_avail - 1 : Published(RoundSlot(t))'
                      /\ \A t \in (0 .. sh_avail - 1) \ lanes :
                           gsort[sh_accumulated + t] = asked'[RoundSlot(t) + 1]
    BY Zenon, <1>u DEF DrainInv, Asked, RoundSlot
  <2>1. /\ sh_avail > 0
        /\ sh_accumulated + sh_avail <= Capacity
        /\ cons_head + sh_accumulated + sh_avail <= prod_tail
        /\ lanes \subseteq 0 .. sh_avail - 1
        /\ \A t \in 0 .. sh_avail - 1 : Published(RoundSlot(t))
        /\ \A t \in (0 .. sh_avail - 1) \ lanes :
             gsort[sh_accumulated + t] = asked[RoundSlot(t) + 1]
    BY Zenon DEF SchedulerInv, DrainInv, Asked
  <2>2. ASSUME NEW t \in 0 .. sh_avail - 1
        PROVE  RoundSlot(t) \in cons_head .. prod_tail - 1 /\ RoundSlot(t) \in 0 .. prod_tail - 1
    BY <2>1, <1>t DEF RoundSlot
  <2>3. cons_head + sh_accumulated + sh_avail <= prod_tail'
    BY <2>1, <1>t
  <2>4. \A t \in 0 .. sh_avail - 1 : Published(RoundSlot(t))'
    BY Zenon, <2>1, <2>2, <1>u DEF RoundSlot
  <2> QED BY Zenon, <2>1, <2>2, <2>3, <2>4
<1>5. BatchNotEmpty'
  BY Zenon, <1>u DEF SchedulerInv, BatchNotEmpty
<1>6. SortInv' /\ MergeInv' /\ SubmitInv'
  BY Zenon, <1>u, MergeStateFrame DEF SchedulerInv
<1>7. ServedBeforeNotified'
  <2>1. cons_head <= prod_tail /\ ServedBeforeNotified
    BY Zenon DEF SchedulerInv, DoneSeqInv
  <2>2. \A s \in 0 .. cons_head - 1 : asked'[s + 1] = asked[s + 1]
    BY <2>1, <1>t
  <2> QED BY Zenon, <2>1, <2>2, <1>u DEF ServedBeforeNotified, Performed, Asked
<1>8. DoneSeqInv'
  <2>1. DoneSeqInv
    BY Zenon DEF SchedulerInv
  <2>2. \A x \in Nat : Idx(x) \in RingIdx
    BY Zenon, IdxType
  <2>3. \A x \in RingIdx : done_seq[x] <= prod_tail'
    BY <2>1, <1>t DEF DoneSeqInv
  <2>4. ASSUME NEW s \in 0 .. prod_tail' - 1, done_seq[Idx(s)] >= s + 1
        PROVE  Announced(s)
    <3>1. s \in 0 .. prod_tail - 1
      BY <2>1, <2>2, <2>4, <1>t DEF DoneSeqInv
    <3> QED BY Zenon, <2>1, <2>4, <3>1 DEF DoneSeqInv
  <2>5. \A s : Announced(s)' = Announced(s)
    BY Zenon, <1>u DEF Announced
  <2>6. cons_head' <= prod_tail'
    BY <2>1, <1>u, <1>t DEF DoneSeqInv
  <2> QED BY <2>1, <2>3, <2>4, <2>5, <2>6, <1>u, Zenon DEF DoneSeqInv
<1> QED BY Zenon, <1>1, <1>2, <1>3, <1>4, <1>5, <1>6, <1>7, <1>8 DEF SchedulerInv

\* Every step of io_sched_enqueue preserves CoreInv.
LEMMA ProducerStepKeepsCore ==
  ASSUME CoreInv, NoWrap, Pages \subseteq Nat, NEW p \in Producers,
         UNCHANGED <<schedVars, disk>>,
         (\E e \in Request_t : ClaimSlot(p, e)) \/ EnqueueStep(p) \/ Publish(p)
  PROVE  CoreInv'
<1>t. /\ RingTypeOK /\ SchedTypeOK /\ RingInv /\ SchedulerInv
      /\ cons_head <= prod_tail
      /\ prod_tail \in Nat /\ cons_head \in Nat
  BY Zenon DEF CoreInv, SchedulerInv, DoneSeqInv, RingTypeOK
<1>1. CASE \E e \in Request_t : ClaimSlot(p, e)
  <2>1. PICK e \in Request_t : ClaimSlot(p, e)
    BY Zenon, <1>1
  <2>2. RingTypeOK' /\ RingInv'
    BY Zenon, <2>1, <1>t, ClaimSlotKeepsRing
  <2>3. UNCHANGED <<cons_head, done_seq, prod_seq>> /\ prod_tail' = prod_tail + 1
    BY Zenon, <2>1 DEF ClaimSlot, memory
  <2>4. \A s \in 0 .. prod_tail - 1 : asked'[s + 1] = asked[s + 1]
    BY <2>1, AskedAppend, ZenonT(40) DEF ClaimSlot, CoreInv, RingTypeOK
  <2>5. SchedTypeOK' /\ SchedulerInv'
    <3>1. prod_tail <= prod_tail'
      BY <2>3, <1>t
    <3>2. \A s \in cons_head .. prod_tail - 1 : Published(s) => Published(s)'
      BY <2>3, Zenon DEF Published
    <3> QED BY <2>3, <2>4, <3>1, <3>2, <1>t, ProducerKeepsScheduler
  <2> QED BY Zenon, <2>2, <2>5 DEF CoreInv
<1>2. CASE EnqueueStep(p)
  <2>1. RingTypeOK' /\ RingInv'
    BY Zenon, <1>2, <1>t, LeaveFullKeepsRing, ClearFlagKeepsRing, WriteEntryKeepsRing DEF EnqueueStep
  <2>2. UNCHANGED <<cons_head, done_seq, prod_seq, prod_tail, asked>>
    BY <1>2, Zenon DEF EnqueueStep, LeaveFull, ClearFlag, WriteEntry, memory
  <2>3. SchedTypeOK' /\ SchedulerInv'
    <3>1. \A s \in cons_head .. prod_tail - 1 : Published(s) => Published(s)'
      BY <2>2, Zenon DEF Published
    <3> QED BY <2>2, <3>1, <1>t, ProducerKeepsScheduler
  <2> QED BY Zenon, <2>1, <2>3 DEF CoreInv
<1>3. CASE Publish(p)
  <2>1. /\ RingTypeOK' /\ RingInv'
        /\ \A s \in cons_head .. prod_tail - 1 : Published(s) => Published(s)'
    BY Zenon, <1>3, <1>t, PublishKeepsRing
  <2>2. UNCHANGED <<cons_head, done_seq, prod_tail, asked>>
    BY Zenon, <1>3 DEF Publish
  <2>3. SchedTypeOK' /\ SchedulerInv'
    BY <2>1, <2>2, <1>t, ProducerKeepsScheduler
  <2> QED BY Zenon, <2>1, <2>3 DEF CoreInv
<1> QED BY Zenon, <1>1, <1>2, <1>3

---------------------------------------------------------------------------
(* A completed wait and the disk *)

\* A completion number that covers a claimed slot means its page is written.
LEMMA DoneSeqMeansPerformed ==
  ASSUME CoreInv, NoWrap, NEW s \in 0 .. prod_tail - 1, DoneSeqReached(s)
  PROVE  Performed(Asked(s))
<1>t. /\ prod_tail \in Nat /\ cons_head \in Nat /\ sh_accumulated \in Nat
  BY Zenon, DrainTypes
<1>q. done_seq \in [RingIdx -> Nat] /\ SeqMod \in Nat
  BY Zenon, SeqModAssumption DEF CoreInv, RingTypeOK
<1>1. Idx(s) \in RingIdx
  BY <1>t, IdxType
<1>2. s + 1 \in 0 .. SeqMod - 1
  BY <1>t, <1>q DEF NoWrap
<1>3. done_seq[Idx(s)] \in 0 .. SeqMod - 1
  BY <1>1, <1>t, <1>q DEF NoWrap, CoreInv, SchedulerInv, DoneSeqInv
<1>4. done_seq[Idx(s)] >= s + 1
  BY Zenon, <1>2, <1>3, U32Small DEF DoneSeqReached
<1>5. Announced(s)
  BY Zenon, <1>4 DEF CoreInv, SchedulerInv, DoneSeqInv
<1>6. CASE s < cons_head
  <2>1. s \in 0 .. cons_head - 1
    BY <1>6, <1>t
  <2> QED BY Zenon, <2>1 DEF CoreInv, SchedulerInv, ServedBeforeNotified
<1>7. CASE s >= cons_head /\ phase = "notify" /\ s < cons_head + sh_accumulated
  <2>1. s - cons_head \in 0 .. sh_accumulated - 1 /\ cons_head + (s - cons_head) = s
    BY <1>7, <1>t
  <2>2. gsort[s - cons_head] = Asked(s)
    BY Zenon, <2>1, <1>7 DEF CoreInv, SchedulerInv, BatchIsAsked
  <2>3. Performed(gsort[s - cons_head])
    BY Zenon, <2>1, <1>7 DEF CoreInv, SchedulerInv, ServedBeforeNotified
  <2> QED BY Zenon, <2>2, <2>3
<1> QED BY <1>5, <1>6, <1>7, <1>t DEF Announced

\* What the workers have seen complete stays written.
LEMMA RetiredKept ==
  ASSUME RetiredInv, UNCHANGED <<retired, disk>>,
         prod_tail \in Nat, prod_tail' \in Nat, prod_tail' >= prod_tail, retired \subseteq Nat,
         \A s \in 0 .. prod_tail - 1 : asked'[s + 1] = asked[s + 1]
  PROVE  RetiredInv'
<1>1. ASSUME NEW s \in retired
      PROVE  s < prod_tail' /\ Performed(Asked(s))'
  <2>1. s \in Nat /\ s < prod_tail /\ Performed(Asked(s))
    BY Zenon DEF RetiredInv
  <2>2. s \in 0 .. prod_tail - 1 /\ s < prod_tail'
    BY <2>1
  <2>3. asked'[s + 1] = asked[s + 1]
    BY Zenon, <2>2
  <2> QED BY Zenon, <2>1, <2>2, <2>3 DEF Performed, Asked
<1> QED BY Zenon, <1>1 DEF RetiredInv

---------------------------------------------------------------------------
(* One step of a worker, of the host, of the scheduler or of the controller *)

\* The wait retires a request only when it is on the SSD.
LEMMA AwaitOldestKeeps ==
  ASSUME IndInv, NoWrap, NEW p \in Producers, AwaitOldest(p)
  PROVE  IndInv'
<1> DEFINE ticket == slots[p][head[p]]
<1>1. /\ pending[p] > 0 /\ DoneSeqReached(ticket)
      /\ head' = [head EXCEPT ![p] = (head[p] + 1) % Window]
      /\ pending' = [pending EXCEPT ![p] = pending[p] - 1]
      /\ retired' = retired \cup {ticket}
      /\ UNCHANGED <<ringVars, schedVars, disk, launch, iter, slots>>
  BY Zenon DEF AwaitOldest, MustWait
<1>t. /\ CoreInv /\ WorkerTypeOK /\ TicketsAreSlots /\ RetiredInv
      /\ head[p] \in 0 .. Window - 1 /\ pending[p] \in 0 .. Window
      /\ slots[p] \in [0 .. Window - 1 -> Nat]
      /\ head \in [Producers -> 0 .. Window - 1] /\ pending \in [Producers -> 0 .. Window]
  BY Zenon DEF IndInv, WorkerTypeOK
<1>w. Window \in Nat \ {0} /\ prod_tail \in Nat
  BY Zenon, <1>t, RunConstants, DrainTypes
<1>2. ticket \in 0 .. prod_tail - 1
  <2>1. ticket = 0 \/ ticket < prod_tail
    BY <1>t, Zenon DEF TicketsAreSlots
  <2>2. prod_tail > 0
    BY Zenon, <1>1, <1>t DEF TicketsAreSlots
  <2>3. ticket \in Nat
    BY <1>t, FunctionAt, Zenon
  <2> HIDE DEF ticket
  <2> QED BY <2>1, <2>2, <2>3, <1>w
<1> HIDE DEF ticket
<1>3. Performed(Asked(ticket))
  BY Zenon, <1>1, <1>2, <1>t, DoneSeqMeansPerformed
<1>u. UNCHANGED <<pc, my_slot, prod_tail, asked>>
  BY Zenon, <1>1 DEF ringVars, enqueuing
<1>4. CoreInv'
  <2>1. RingTypeOK' /\ RingInv'
    BY Zenon, <1>1, <1>t, RingFrame DEF CoreInv
  <2>2. UNCHANGED <<schedVars, disk, cons_head, done_seq, prod_tail, prod_seq, asked>>
    BY Zenon, <1>1 DEF ringVars, memory, enqueuing
  <2>3. SchedTypeOK' /\ SchedulerInv'
    BY <2>2, <1>t, <1>w, ProducerKeepsScheduler DEF CoreInv, Published
  <2> QED BY Zenon, <2>1, <2>3 DEF CoreInv
<1>5. WorkerTypeOK'
  <2>1. (head[p] + 1) % Window \in 0 .. Window - 1
    <3> DEFINE x == head[p] + 1
    <3>1. x \in Nat
      BY <1>t, <1>w
    <3> HIDE DEF x
    <3>2. x % Window \in 0 .. Window - 1
      BY Zenon, <3>1, <1>w, DivMod
    <3> QED BY Zenon, <3>2 DEF x
  <2>2. head' \in [Producers -> 0 .. Window - 1]
    <3> DEFINE h == (head[p] + 1) % Window
    <3>1. h \in 0 .. Window - 1 /\ head' = [head EXCEPT ![p] = h]
      BY Zenon, <2>1, <1>1
    <3> HIDE DEF h
    <3> QED BY Zenon, <3>1, <1>t
  <2>3. pending' \in [Producers -> 0 .. Window]
    BY SMTT(20), <1>1, <1>t, <1>w
  <2>4. retired' \subseteq Nat
    BY <1>1, <1>2, <1>t DEF WorkerTypeOK
  <2> QED BY Zenon, <2>2, <2>3, <2>4, <1>1, <1>t DEF WorkerTypeOK
<1>6. TicketsAreSlots'
  <2>1. \A q \in Producers : pending'[q] > 0 => pending[q] > 0
    BY Zenon, <1>1, <1>t, <1>w
  <2>2. \A q \in Producers : pending[q] < Window => pending'[q] < Window
    BY <1>1, <1>t, <1>w
  <2> QED BY Zenon, <2>1, <2>2, <1>1, <1>u, <1>t DEF TicketsAreSlots, Enqueuing
<1>7. RetiredInv'
  <2>1. \A s \in retired' : s < prod_tail /\ Performed(Asked(s))
    BY <1>1, <1>2, <1>3, <1>t, <1>w DEF RetiredInv
  <2>2. prod_tail' = prod_tail /\ disk' = disk /\ asked' = asked
    BY Zenon, <1>1, <1>u
  <2> QED BY Zenon, <2>1, <2>2 DEF RetiredInv, Performed, Asked
<1> QED BY Zenon, <1>4, <1>5, <1>6, <1>7 DEF IndInv

\* A worker that enqueues has a request left and room in its window.
LEMMA StartEnqueueKeeps ==
  ASSUME IndInv, NoWrap, NEW p \in Producers, StartEnqueue(p)
  PROVE  IndInv'
<1>1. /\ iter[p] < Count /\ ~MustWait(p) /\ ClaimSlot(p, Request(p))
      /\ UNCHANGED <<schedVars, disk, launch, iter, head, pending, slots, retired>>
  BY Zenon DEF StartEnqueue, clientVars, workerVars
<1>t. /\ CoreInv /\ WorkerTypeOK /\ TicketsAreSlots /\ RetiredInv
      /\ pending[p] \in 0 .. Window /\ iter[p] \in 0 .. Count
  BY Zenon DEF IndInv, WorkerTypeOK
<1>w. Window \in Nat \ {0} /\ Count \in Nat /\ prod_tail \in Nat /\ Pages \subseteq Nat
  BY Zenon, <1>t, RunConstants, DrainTypes
<1>r. Request(p) \in Request_t
  BY Zenon, <1>1, <1>t, RequestType
<1>2. CoreInv'
  BY Zenon, <1>1, <1>r, <1>t, <1>w, ProducerStepKeepsCore
<1>3. WorkerTypeOK'
  BY Zenon, <1>1, <1>t DEF WorkerTypeOK
<1>c. /\ prod_tail' = prod_tail + 1 /\ pc \in [Producers -> EnqueuePcs]
      /\ pc' = [pc EXCEPT ![p] = "full"]
  BY <1>1, <1>t, SMTT(30) DEF ClaimSlot, Goto, CoreInv, RingTypeOK
<1>4. TicketsAreSlots'
  <2>1. ASSUME NEW q \in Producers, NEW x \in 0 .. Window - 1
        PROVE  slots[q][x] \in Nat
    <3>1. slots[q] \in [0 .. Window - 1 -> Nat]
      BY Zenon, <1>t DEF WorkerTypeOK
    <3> QED BY <3>1, FunctionAt, Zenon
  <2>2. \A q \in Producers : \A x \in 0 .. Window - 1 :
          slots[q][x] = 0 \/ slots[q][x] < prod_tail + 1
    BY SMTT(20), <2>1, <1>t, <1>w DEF TicketsAreSlots
  <2>3. pending[p] < Window
    BY <1>1, <1>t, <1>w, SMTT(30) DEF MustWait
  <2>4. \A q \in Producers : Enqueuing(q)' => iter[q] < Count /\ pending[q] < Window
    BY Zenon, <2>3, <1>1, <1>c, <1>t DEF TicketsAreSlots, Enqueuing
  <2>5. prod_tail + 1 > 0
    BY <1>w
  <2> QED BY Zenon, <2>2, <2>4, <2>5, <1>1, <1>c DEF TicketsAreSlots
<1>5. RetiredInv'
  <2>1. \A s \in 0 .. prod_tail - 1 : asked'[s + 1] = asked[s + 1]
    BY Zenon, <1>1, <1>r, <1>t, AskedAppend DEF ClaimSlot, CoreInv, RingTypeOK
  <2>2. retired \subseteq Nat /\ retired' = retired /\ disk' = disk
    BY Zenon, <1>1, <1>t DEF WorkerTypeOK
  <2> QED BY <2>1, <2>2, <1>c, <1>t, <1>w, RetiredKept, SMTT(30)
<1> QED BY Zenon, <1>2, <1>3, <1>4, <1>5 DEF IndInv

\* The steps inside io_sched_enqueue leave the worker alone.
LEMMA ContinueEnqueueKeeps ==
  ASSUME IndInv, NoWrap, NEW p \in Producers, ContinueEnqueue(p)
  PROVE  IndInv'
<1>1. /\ EnqueueStep(p)
      /\ UNCHANGED <<schedVars, disk, launch, iter, head, pending, slots, retired>>
  BY Zenon DEF ContinueEnqueue, clientVars, workerVars
<1>t. /\ CoreInv /\ WorkerTypeOK /\ TicketsAreSlots /\ RetiredInv
      /\ pc \in [Producers -> EnqueuePcs] /\ Pages \subseteq Nat
  <2>1. CoreInv /\ WorkerTypeOK /\ TicketsAreSlots /\ RetiredInv
    BY Zenon DEF IndInv
  <2>2. pc \in [Producers -> EnqueuePcs]
    BY Zenon, <2>1 DEF CoreInv, RingTypeOK
  <2> QED BY Zenon, <2>1, <2>2, RunConstants
<1>2. CoreInv'
  BY Zenon, <1>1, <1>t, ProducerStepKeepsCore
<1>3. WorkerTypeOK'
  BY <1>1, <1>t, SMTT(30) DEF WorkerTypeOK
<1>c. /\ prod_tail' = prod_tail /\ asked' = asked /\ pc[p] # "out"
      /\ \A q \in Producers : q # p => pc'[q] = pc[q]
  BY Zenon, <1>1, <1>t DEF EnqueueStep, LeaveFull, ClearFlag, WriteEntry, Goto
<1>4. TicketsAreSlots'
  BY Zenon, <1>1, <1>c, <1>t DEF TicketsAreSlots, Enqueuing
<1>5. RetiredInv'
  BY Zenon, <1>1, <1>c, <1>t DEF RetiredInv, Performed, Asked
<1> QED BY Zenon, <1>2, <1>3, <1>4, <1>5 DEF IndInv

\* The recorded ticket is a claimed slot.
LEMMA FinishEnqueueKeeps ==
  ASSUME IndInv, NoWrap, NEW p \in Producers, FinishEnqueue(p)
  PROVE  IndInv'
<1> DEFINE w == NextWindowPos(p)
           m == my_slot[p]
<1>1. /\ Publish(p)
      /\ slots' = [slots EXCEPT ![p] = [slots[p] EXCEPT ![w] = m]]
      /\ pending' = [pending EXCEPT ![p] = pending[p] + 1]
      /\ iter' = [iter EXCEPT ![p] = iter[p] + 1]
      /\ UNCHANGED <<schedVars, disk, launch, head, retired>>
  BY Zenon DEF FinishEnqueue
<1>t. /\ CoreInv /\ WorkerTypeOK /\ TicketsAreSlots /\ RetiredInv
      /\ pc \in [Producers -> EnqueuePcs] /\ Pages \subseteq Nat
  <2>1. CoreInv /\ WorkerTypeOK /\ TicketsAreSlots /\ RetiredInv
    BY Zenon DEF IndInv
  <2>2. pc \in [Producers -> EnqueuePcs]
    BY Zenon, <2>1 DEF CoreInv, RingTypeOK
  <2> QED BY Zenon, <2>1, <2>2, RunConstants
<1>y. /\ iter \in [Producers -> 0 .. Count] /\ pending \in [Producers -> 0 .. Window]
      /\ slots \in [Producers -> [0 .. Window - 1 -> Nat]]
      /\ Count \in Nat /\ Window \in Nat /\ prod_tail \in Nat /\ cons_head \in Nat
  <2>1. prod_tail \in Nat /\ cons_head \in Nat
    BY Zenon, <1>t, DrainTypes
  <2> QED BY <1>t, <2>1, RunConstants, SMTT(30) DEF WorkerTypeOK
<1>c. /\ pc[p] = "publish" /\ pc' = [pc EXCEPT ![p] = "out"]
      /\ UNCHANGED <<prod_tail, asked>>
  BY Zenon, <1>1 DEF Publish, Goto
<1>m. m \in Nat /\ m < prod_tail
  <2>1. m \in cons_head .. prod_tail - 1
    BY Zenon, <1>c, <1>t DEF CoreInv, RingInv, SlotsOwned, Enqueuing
  <2> QED BY <2>1, <1>y
<1>w. w \in 0 .. Window - 1
  BY Zenon, <1>t, NextPosType
<1>e. iter[p] < Count /\ pending[p] < Window
  BY Zenon, <1>c, <1>t DEF TicketsAreSlots, Enqueuing
<1> HIDE DEF w, m
<1>2. CoreInv'
  BY Zenon, <1>1, <1>t, ProducerStepKeepsCore
<1>s. /\ slots' \in [Producers -> [0 .. Window - 1 -> Nat]]
      /\ \A q \in Producers : \A x \in 0 .. Window - 1 :
           slots'[q][x] = 0 \/ slots'[q][x] < prod_tail
  <2> DEFINE f == [slots[p] EXCEPT ![w] = m]
  <2>1. slots[p] \in [0 .. Window - 1 -> Nat]
    BY Zenon, <1>y
  <2>2. /\ f \in [0 .. Window - 1 -> Nat]
        /\ f[w] = m /\ \A x \in 0 .. Window - 1 : x # w => f[x] = slots[p][x]
    BY <2>1, <1>m, <1>w, FunctionFacts, Zenon
  <2>3. slots' = [slots EXCEPT ![p] = f]
    BY Zenon, <1>1
  <2> HIDE DEF f
  <2>4. slots' \in [Producers -> [0 .. Window - 1 -> Nat]]
    BY Zenon, <2>2, <2>3, <1>y
  <2>5. slots'[p] = f /\ \A q \in Producers : q # p => slots'[q] = slots[q]
    BY Zenon, <2>3, <1>y
  <2>6. \A q \in Producers : \A x \in 0 .. Window - 1 : slots[q][x] = 0 \/ slots[q][x] < prod_tail
    BY <1>t, Zenon DEF TicketsAreSlots
  <2>7. \A x \in 0 .. Window - 1 : f[x] = 0 \/ f[x] < prod_tail
    BY Zenon, <2>2, <2>6, <1>m
  <2>8. \A q \in Producers : \A x \in 0 .. Window - 1 :
          slots'[q][x] = 0 \/ slots'[q][x] < prod_tail
    BY <2>5, <2>6, <2>7, Zenon
  <2> QED BY Zenon, <2>4, <2>8
<1>3. WorkerTypeOK'
  <2>1. pending' \in [Producers -> 0 .. Window] /\ iter' \in [Producers -> 0 .. Count]
    BY SMTT(20), <1>1, <1>y, <1>e
  <2> QED BY Zenon, <2>1, <1>s, <1>1, <1>t DEF WorkerTypeOK
<1>4. TicketsAreSlots'
  <2>1. \A q \in Producers : Enqueuing(q)' => iter'[q] < Count /\ pending'[q] < Window
    BY Zenon, <1>1, <1>c, <1>y, <1>t DEF TicketsAreSlots, Enqueuing
  <2>2. prod_tail > 0
    BY <1>m, <1>y
  <2> QED BY Zenon, <2>1, <2>2, <1>s, <1>c DEF TicketsAreSlots
<1>5. RetiredInv'
  BY Zenon, <1>1, <1>c, <1>t DEF RetiredInv, Performed, Asked
<1> QED BY Zenon, <1>2, <1>3, <1>4, <1>5 DEF IndInv

\* A launch starts with no ticket; the shutdown touches one word.
LEMMA HostKeeps ==
  ASSUME IndInv, NextLaunch \/ shutdown_queue
  PROVE  IndInv'
<1>t. CoreInv /\ WorkerTypeOK /\ TicketsAreSlots /\ RetiredInv /\ prod_tail \in Nat
  BY Zenon, DrainTypes DEF IndInv
<1>1. CASE NextLaunch
  <2>1. /\ launch < Batches - 1 /\ launch' = launch + 1
        /\ iter' = [p \in Producers |-> 0]
        /\ head' = [p \in Producers |-> 0]
        /\ pending' = [p \in Producers |-> 0]
        /\ slots' = [p \in Producers |-> [x \in 0 .. Window - 1 |-> 0]]
        /\ UNCHANGED <<ringVars, schedVars, disk, retired>> /\ LaunchEnded
    BY Zenon, <1>1 DEF NextLaunch
  <2>u. UNCHANGED <<pc, prod_tail, prod_seq, cons_head, done_seq, asked>>
    BY Zenon, <2>1 DEF ringVars, memory, enqueuing
  <2>2. CoreInv'
    <3>1. RingTypeOK' /\ RingInv'
      BY Zenon, <2>1, <1>t, RingFrame DEF CoreInv
    <3>2. SchedTypeOK' /\ SchedulerInv'
      BY <2>1, <2>u, <1>t, ProducerKeepsScheduler DEF CoreInv, Published
    <3> QED BY Zenon, <3>1, <3>2 DEF CoreInv
  <2>3. WorkerTypeOK'
    BY <2>1, <1>t, RunConstants DEF WorkerTypeOK
  <2>4. TicketsAreSlots'
    <3>1. \A p \in Producers : ~Enqueuing(p)'
      BY Zenon, <2>1, <2>u DEF LaunchEnded, Ended, Enqueuing
    <3>2. \A p \in Producers : pending'[p] = 0 /\ \A x \in 0 .. Window - 1 : slots'[p][x] = 0
      BY Zenon, <2>1
    <3> QED BY <3>1, <3>2 DEF TicketsAreSlots
  <2>5. RetiredInv'
    BY Zenon, <2>1, <2>u, <1>t DEF RetiredInv, Performed, Asked
  <2> QED BY Zenon, <2>2, <2>3, <2>4, <2>5 DEF IndInv
<1>2. CASE shutdown_queue
  <2>1. /\ shutdown' = TRUE
        /\ UNCHANGED <<memory, prod_tail, cons_head, enqueuing>>
        /\ UNCHANGED <<schedVars, disk, launch, iter, head, pending, slots, retired>>
    BY Zenon, <1>2 DEF shutdown_queue, SetShutdown, clientVars, workerVars
  <2>u. UNCHANGED <<entries, done_flags, done_seq, prod_seq, prod_tail, cons_head,
                    pc, my_slot, my_req, asked>>
    BY Zenon, <2>1 DEF memory, enqueuing
  <2>2. RingTypeOK'
    <3>1. shutdown' \in BOOLEAN
      BY <2>1, Zenon
    <3> QED BY Zenon, <3>1, <2>u, <1>t DEF CoreInv, RingTypeOK
  <2>3. RingInv'
    BY Zenon, <2>u, <1>t DEF CoreInv, RingInv, SlotsOwned, WithinLap, PublishedIsAsked, Enqueuing, Asked
  <2>4. SchedTypeOK' /\ SchedulerInv'
    BY <2>1, <2>u, <1>t, ProducerKeepsScheduler DEF CoreInv, Published
  <2>5. WorkerTypeOK' /\ TicketsAreSlots'
    BY Zenon, <2>1, <2>u, <1>t DEF WorkerTypeOK, TicketsAreSlots, Enqueuing
  <2>6. RetiredInv'
    BY Zenon, <2>1, <2>u, <1>t DEF RetiredInv, Performed, Asked
  <2> QED BY Zenon, <2>2, <2>3, <2>4, <2>5, <2>6 DEF IndInv, CoreInv
<1> QED BY Zenon, <1>1, <1>2

=============================================================================
