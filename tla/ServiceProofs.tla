--------------------------- MODULE ServiceProofs --------------------------
(***************************************************************************)
(* The write path as a whole: the invariants of the scheduler, the workers,*)
(* the commands and the answers hold in every run, and under them every    *)
(* step is a step of WriteService or invisible to it.                      *)
(***************************************************************************)
EXTENDS SchedulerProofs, TransferProofs, WorkerProofs, CommandProofs

(* IndInv over a whole run *)

\* The initial state satisfies the invariant.
LEMMA InitEstablishes == Init => IndInv
<1> SUFFICES ASSUME Init PROVE IndInv
  BY Zenon
<1>1. CoreInv
  BY Zenon, CoreInit DEF Init
<1>2. WorkerTypeOK
  BY RunConstants DEF Init, WorkerTypeOK
<1>3. TicketsAreSlots
  BY Zenon, RunConstants DEF Init, TicketsAreSlots, RingInit, Enqueuing
<1>4. RetiredInv
  BY Zenon DEF Init, RetiredInv
<1> QED BY Zenon, <1>1, <1>2, <1>3, <1>4 DEF IndInv

\* Every step of the system keeps the invariant while the counters have not wrapped.
LEMMA NextKeeps ==
  ASSUME IndInv, NoWrap, [Next]_vars
  PROVE  IndInv'
<1>1. CASE \E p \in Producers : WorkerStep(p)
  BY Zenon, <1>1, AwaitOldestKeeps, StartEnqueueKeeps, ContinueEnqueueKeeps, FinishEnqueueKeeps
     DEF WorkerStep
<1>2. CASE NextLaunch \/ shutdown_queue
  BY Zenon, <1>2, HostKeeps
<1>3. CASE SchedulerStep \/ ControllerStep
  BY Zenon, <1>3, SchedulerKeeps
<1>4. CASE UNCHANGED vars
  <2>t. CoreInv /\ WorkerTypeOK /\ TicketsAreSlots /\ RetiredInv /\ prod_tail \in Nat
    BY Zenon, DrainTypes DEF IndInv
  <2>1. UNCHANGED <<ringVars, schedVars, disk, launch, iter, head, pending, slots, retired>>
    BY Zenon, <1>4 DEF vars, clientVars, workerVars
  <2>u. UNCHANGED <<pc, prod_tail, prod_seq, cons_head, done_seq, asked>>
    BY Zenon, <2>1 DEF ringVars, memory, enqueuing
  <2>2. RingTypeOK' /\ RingInv'
    BY Zenon, <2>1, <2>t, RingFrame DEF CoreInv
  <2>3. SchedTypeOK' /\ SchedulerInv'
    BY SMTT(20), <2>1, <2>u, <2>t, ProducerKeepsScheduler DEF CoreInv, Published
  <2>4. WorkerTypeOK' /\ TicketsAreSlots'
    BY <2>1, <2>u, <2>t, SMTT(30) DEF WorkerTypeOK, TicketsAreSlots, Enqueuing
  <2>5. RetiredInv'
    BY Zenon, <2>1, <2>u, <2>t DEF RetiredInv, Performed, Asked
  <2> QED BY Zenon, <2>2, <2>3, <2>4, <2>5 DEF IndInv, CoreInv
<1> QED BY Zenon, <1>1, <1>2, <1>3, <1>4 DEF Next, Terminated

(***************************************************************************)
(* IndInv holds for every number of workers, window, ring capacity, block  *)
(* size, merge target, PRP pool and knee limit, as long as the uint32 slot *)
(* counter has not wrapped.                                                *)
(***************************************************************************)
THEOREM Invariance == Spec /\ []NoWrap => []IndInv
<1>1. IndInv /\ NoWrap /\ [Next]_vars => IndInv'
  BY Zenon, NextKeeps
<1> QED BY <1>1, InitEstablishes, PTL DEF Spec

\* Type correctness of the whole system.
THEOREM TypeCorrect == Spec /\ []NoWrap => []TypeOK
<1>1. IndInv => TypeOK
  BY ZenonT(40) DEF IndInv, CoreInv, TypeOK
<1> QED BY <1>1, Invariance, PTL

(***************************************************************************)
(* The done_seq wait of the benchmark returns only after the page of the   *)
(* request it waits for has been written.                                  *)
(***************************************************************************)
THEOREM WaitIsSound == Spec /\ []NoWrap => []WaitReturnsAfterWrite
<1>1. IndInv => WaitReturnsAfterWrite
  BY Zenon DEF IndInv, RetiredInv, WaitReturnsAfterWrite
<1> QED BY <1>1, Invariance, PTL

(***************************************************************************)
(* A run of fewer than SeqMod pages never wraps the uint32 slot counter,   *)
(* and asks for every page at most once.                                   *)
(***************************************************************************)
THEOREM CounterNeverWraps ==
  ASSUME Batches * PagesPerLaunch < SeqMod
  PROVE  Spec => [](IndInv /\ PagesInv /\ NoWrap)
<1>1. IndInv /\ PagesInv => NoWrap
  <2> SUFFICES ASSUME IndInv, PagesInv PROVE prod_tail < SeqMod
    BY Zenon DEF NoWrap
  <2>1. prod_tail \in Nat /\ SeqMod \in Nat /\ Batches * PagesPerLaunch \in Nat
    BY SMTT(20), RunConstants, SeqModAssumption DEF IndInv, CoreInv, RingTypeOK
  <2> QED BY <2>1, ClaimsBounded
<1>2. Init => IndInv /\ PagesInv
  <2> SUFFICES ASSUME Init PROVE PagesInv
    BY Zenon, InitEstablishes
  <2>1. prod_tail = 0
    BY Zenon DEF Init, RingInit
  <2> QED BY <2>1 DEF PagesInv
<1>3. IndInv /\ PagesInv /\ NoWrap /\ [Next]_vars => IndInv' /\ PagesInv'
  BY Zenon, NextKeeps, NextKeepsPages
<1> QED BY <1>1, <1>2, <1>3, PTL DEF Spec

(***************************************************************************)
(* A DMA buffer is not given to a second request before the write of the   *)
(* first has completed, for every window, number of workers and launches.  *)
(***************************************************************************)
THEOREM BuffersSafe == Spec /\ []NoWrap => []BufferNotReused
<1>1. IndInv /\ WindowInv => BufferNotReused
  BY Zenon, WindowsSeparateBuffers
<1>2. IndInv /\ IndInv' /\ WindowInv /\ [Next]_vars => WindowInv'
  BY Zenon, NextKeepsWindow
<1> QED BY <1>1, <1>2, WindowInit, Invariance, PTL DEF Spec

---------------------------------------------------------------------------
(* Commands *)

\* The invariant of the commands holds together with the one of the pages.
LEMMA CommandsInvariant == Spec /\ []NoWrap => [](IndInv /\ PagesInv /\ CommandInv)
<1>1. IndInv /\ IndInv' /\ PagesInv /\ [Next]_vars => PagesInv'
  BY Zenon, NextKeepsPages
<1>2. IndInv /\ IndInv' /\ PagesInv /\ PagesInv' /\ CommandInv /\ [Next]_vars => CommandInv'
  BY Zenon, NextKeepsCommands
<1> QED BY <1>1, <1>2, PagesInit, CommandInit, Invariance, PTL DEF Spec

(***************************************************************************)
(* A page is written at most once, and from the DMA buffer of the request  *)
(* that asked for it, whatever the interleaving of workers, scheduler      *)
(* threads and controller, and for every size of the system.               *)
(***************************************************************************)
THEOREM PagesWrittenOnce == Spec /\ []NoWrap => []RightBufferOnce
<1>1. CommandInv => RightBufferOnce
  BY Zenon DEF CommandInv
<1> QED BY <1>1, CommandsInvariant, PTL

(***************************************************************************)
(* A submission round holds at most KneeLimit commands, each within the    *)
(* merge target, and no two commands of a round write the same page.       *)
(***************************************************************************)
THEOREM RoundsShaped == Spec /\ []NoWrap => []RoundsAreShaped
<1>1. ASSUME IndInv, PagesInv, CommandInv PROVE RoundsAreShaped
  <2>1. ASSUME NEW c \in inflight
        PROVE  CoreInv /\ phase = "poll" /\ \E s \in g_starts : c = Command(s)
    BY Zenon, <1>1 DEF IndInv, CoreInv, SchedulerInv, SubmitInv
  <2>2. ASSUME NEW c \in inflight PROVE c.nblks <= MergeMax
    <3>1. PICK s \in g_starts : c = Command(s)
      BY Zenon, <2>1
    <3>2. CoreInv /\ phase = "poll"
      BY Zenon, <2>1
    <3>3. Command(s).nblks = GroupEnd(g_starts, s, sh_accumulated) - s
      BY Zenon, <3>2, CommandFacts
    <3> QED BY Zenon, <3>1, <3>2, <3>3, <1>1 DEF CommandInv, ShapeInv
  <2>3. ASSUME NEW c \in inflight, NEW d \in inflight, c # d
        PROVE  Blocks(c) \cap Blocks(d) = {}
    <3>1. PICK s \in g_starts, t \in g_starts : c = Command(s) /\ d = Command(t)
      BY Zenon, <2>1
    <3>2. s # t
      BY Zenon, <2>3, <3>1
    <3> QED BY Zenon, <2>1, <3>1, <3>2, <1>1, CommandsDisjoint
  <2> QED BY ZenonT(40), <2>2, <2>3, <1>1, RoundWithinKnee DEF RoundsAreShaped
<1> QED BY <1>1, CommandsInvariant, PTL

---------------------------------------------------------------------------
(* The invariant *)

\* ServiceInv holds at the start.
LEMMA ServiceInit == Init => ServiceInv
<1> SUFFICES ASSUME Init PROVE ServiceInv
  BY Zenon
<1>1. /\ prod_tail = 0 /\ cons_head = 0 /\ shutdown = FALSE /\ phase = "base"
      /\ submitted_ios = 0 /\ merged_ios = 0
  BY Zenon DEF Init, RingInit, SchedInit
<1>2. ClaimedInv /\ ExitInv /\ AnswersInv
  BY <1>1 DEF ClaimedInv, ExitInv, AnswersInv
<1> QED BY Zenon, <1>2, PagesInit, WindowInit, CommandInit DEF ServiceInv, CommandInv

\* Together with IndInv, every step keeps ServiceInv.
LEMMA NextKeepsService ==
  ASSUME IndInv, IndInv', NoWrap, ServiceInv, [Next]_vars
  PROVE  ServiceInv'
<1>1. PagesInv /\ WindowInv /\ ClaimedInv /\ ExitInv /\ AnswersInv /\ CommandInv
  BY Zenon DEF ServiceInv, CommandInv
<1>2. PagesInv'
  BY Zenon, <1>1, NextKeepsPages
<1>3. WindowInv'
  BY Zenon, <1>1, NextKeepsWindow
<1>4. ClaimedInv' /\ ExitInv' /\ AnswersInv'
  BY Zenon, <1>1, NextKeepsClaimed, NextKeepsExit, NextKeepsAnswers
<1>5. CommandInv'
  BY Zenon, <1>1, <1>2, NextKeepsCommands
<1> QED BY Zenon, <1>2, <1>3, <1>4, <1>5 DEF ServiceInv, CommandInv

(***************************************************************************)
(* The invariant behind the refinement holds in every run, for every size. *)
(***************************************************************************)
THEOREM ServiceInvariance == Spec /\ []NoWrap => []ServiceInv
<1>1. IndInv /\ IndInv' /\ NoWrap /\ ServiceInv /\ [Next]_vars => ServiceInv'
  BY Zenon, NextKeepsService
<1> QED BY <1>1, ServiceInit, Invariance, PTL DEF Spec

(***************************************************************************)
(* The scheduler leaves only after every request has been served, and its  *)
(* counters then agree with what was asked.                                *)
(***************************************************************************)
THEOREM DrainedOnExit == Spec /\ []NoWrap => []ExitDrained
<1>1. IndInv /\ ServiceInv => ExitDrained
  <2> SUFFICES ASSUME IndInv, ServiceInv, phase = "exit"
               PROVE  /\ \A s \in 0 .. prod_tail - 1 : Performed(Asked(s))
                      /\ submitted_ios = prod_tail /\ merged_ios <= submitted_ios
    BY Zenon DEF ExitDrained
  <2>1. cons_head = prod_tail /\ submitted_ios = cons_head /\ merged_ios <= submitted_ios
    BY Zenon DEF ServiceInv, ExitInv
  <2>2. \A s \in 0 .. cons_head - 1 : Performed(Asked(s))
    BY Zenon DEF IndInv, CoreInv, SchedulerInv, ServedBeforeNotified
  <2> QED BY Zenon, <2>1, <2>2
<1> QED BY <1>1, ServiceInvariance, Invariance, PTL

---------------------------------------------------------------------------
(* The refinement *)

\* A command that completes performs the requests of its group, all at once.
LEMMA DevicePerforms ==
  ASSUME IndInv, PagesInv, CommandInv, NEW c \in inflight, DeviceComplete(c),
         UNCHANGED clientVars
  PROVE  Service!Perform
<1>c. CoreInv
  BY Zenon DEF IndInv
<1>1. PICK g \in NextGroups :
        /\ GroupFresh(g) /\ phase = "poll" /\ g \in g_starts
        /\ \A pos \in GroupOf(g) :
             disk'[gsort[g_vals[pos]].off] = <<gsort[g_vals[pos]].pe>>
        /\ \A b \in Pages : (\A pos \in GroupOf(g) : gsort[g_vals[pos]].off # b)
                            => disk'[b] = disk[b]
  BY Zenon, DeviceWrites
<1>2. /\ UNCHANGED <<asked, prod_tail, done_seq, retired, phase>>
      /\ disk' = [b \in Pages |-> disk'[b]]
  BY Zenon DEF DeviceComplete, ringVars, memory, enqueuing, clientVars, workerVars
<1> DEFINE slot(pos) == cons_head + g_vals[pos]
           S == {slot(pos) : pos \in GroupOf(g)}
           perform == [b \in Pages |->
             IF \E i \in S : Service!Req(i).off = b
             THEN <<Service!Req(CHOOSE i \in S : Service!Req(i).off = b).pe>> ELSE disk[b]]
<1>3. ASSUME NEW pos \in GroupOf(g)
      PROVE  /\ slot(pos) \in 0 .. prod_tail - 1 /\ gsort[g_vals[pos]] = Asked(slot(pos))
             /\ ~Performed(Asked(slot(pos)))
  <2>1. pos \in Positions(sh_accumulated)
    BY Zenon, <1>1, <1>c, GroupPositions
  <2>2. slot(pos) \in 0 .. prod_tail - 1 /\ gsort[g_vals[pos]] = Asked(slot(pos))
    BY Zenon, <2>1, <1>1, <1>c, SortedSlot
  <2> QED BY Zenon, <2>2, <1>1 DEF GroupFresh
<1>4. S \in SUBSET Service!Waiting
  BY Zenon, <1>3, ServiceNumbers
<1>5. ASSUME NEW b \in Pages PROVE disk'[b] = perform[b]
  <2>1. CASE \E i \in S : Service!Req(i).off = b
    <3> DEFINE j == CHOOSE i \in S : Service!Req(i).off = b
    <3>1. j \in S /\ Service!Req(j).off = b
      BY Zenon, <2>1
    <3>2. perform[b] = <<Service!Req(j).pe>>
      BY Zenon, <2>1
    <3> HIDE DEF j, perform
    <3>3. PICK pos \in GroupOf(g) : j = slot(pos)
      BY Zenon, <3>1
    <3>4. gsort[g_vals[pos]] = Service!Req(j)
      BY Zenon, <3>3, <1>3, ServiceNumbers
    <3>5. disk'[b] = <<Service!Req(j).pe>>
      BY Zenon, <1>1, <3>1, <3>4
    <3> QED BY Zenon, <3>2, <3>5
  <2>2. CASE ~\E i \in S : Service!Req(i).off = b
    <3>1. perform[b] = disk[b]
      BY Zenon, <2>2
    <3> HIDE DEF perform
    <3>2. ASSUME NEW pos \in GroupOf(g) PROVE gsort[g_vals[pos]].off # b
      <4>1. slot(pos) \in S
        BY Zenon
      <4>2. gsort[g_vals[pos]] = Service!Req(slot(pos))
        BY Zenon, <1>3, ServiceNumbers
      <4> QED BY Zenon, <4>1, <4>2, <2>2
    <3>3. disk'[b] = disk[b]
      BY Zenon, <3>2, <1>1
    <3> QED BY Zenon, <3>1, <3>3
  <2> QED BY Zenon, <2>1, <2>2
<1>6. disk' = perform
  BY Zenon, <1>2, <1>5
<1>7. Answered' = Answered
  BY Zenon, <1>2 DEF Answered
<1>8. (phase = "exit")' = (phase = "exit")
  BY Zenon, <1>2
<1>9. disk' # disk
  <2>1. g \in GroupOf(g)
    BY Zenon, <1>1, <1>c, GroupPositions
  <2>2. disk[gsort[g_vals[g]].off] = <<>>
    BY Zenon, <2>1, <1>1 DEF GroupFresh, Performed
  <2>3. disk'[gsort[g_vals[g]].off] # <<>>
    BY <2>1, <1>1
  <2> QED BY Zenon, <2>2, <2>3
<1> HIDE DEF S
<1> QED BY Zenon, <1>2, <1>4, <1>6, <1>7, <1>8, <1>9 DEF Service!Perform

\* Every step of the write path is a step of the service or invisible to it.
LEMMA NextServes ==
  ASSUME IndInv, NoWrap, ServiceInv, [Next]_vars
  PROVE  [Service!Next]_(Service!service)
<1>1. PagesInv /\ WindowInv /\ ExitInv /\ AnswersInv /\ CommandInv
  BY Zenon DEF ServiceInv, CommandInv
<1>2. ASSUME NEW p \in Producers, WorkerStep(p) PROVE [Service!Next]_(Service!service)
  <2>1. CASE AwaitOldest(p)
    BY Zenon, <1>1, <2>1, AwaitReturns DEF Service!Next
  <2>2. CASE StartEnqueue(p)
    BY Zenon, <1>1, <2>2, StartAccepts DEF Service!Next
  <2>3. CASE ContinueEnqueue(p) \/ FinishEnqueue(p)
    <3>1. UNCHANGED <<asked, disk, prod_tail, done_seq, retired, phase>>
      BY Zenon, <2>3 DEF ContinueEnqueue, EnqueueStep, LeaveFull, ClearFlag, WriteEntry, FinishEnqueue,
         Publish, memory, schedVars, clientVars, workerVars
    <3> QED BY Zenon, <3>1, ServiceStutter
  <2> QED BY Zenon, <1>2, <2>1, <2>2, <2>3 DEF WorkerStep
<1>3. CASE NextLaunch \/ shutdown_queue \/ UNCHANGED vars
  <2>1. UNCHANGED <<asked, disk, prod_tail, done_seq, retired, phase>>
    BY Zenon, <1>3 DEF NextLaunch, shutdown_queue, SetShutdown, vars, ringVars, memory, enqueuing,
       schedVars, clientVars, workerVars
  <2> QED BY Zenon, <2>1, ServiceStutter
<1>4. CASE (SchedStep \/ DeviceStep) /\ UNCHANGED clientVars
  <2>1. UNCHANGED retired
    BY Zenon, <1>4 DEF clientVars, workerVars
  <2>2. CASE Gather
    <3>1. UNCHANGED ringVars /\ UNCHANGED disk /\ phase # "exit" /\ phase' # "exit"
      BY Zenon, <2>2, GatherFrame
    <3>2. UNCHANGED <<asked, prod_tail, done_seq>>
      BY Zenon, <3>1 DEF ringVars, memory, enqueuing
    <3> QED BY ZenonT(40), <2>1, <3>1, <3>2, ServiceStutter
  <2>3. CASE SubmitDone \/ Advance
    <3>1. /\ UNCHANGED <<asked, disk, prod_tail, done_seq>>
          /\ phase # "exit" /\ phase' # "exit"
      BY Zenon, <2>3 DEF SubmitDone, Advance, GotoPhase, ringVars, memory, enqueuing
    <3> QED BY Zenon, <2>1, <3>1, ServiceStutter
  <2>4. CASE EmptyRound
    BY ZenonT(40), <1>1, <1>4, <2>4, EmptyCloses DEF Service!Next
  <2>5. ASSUME NEW x \in RingIdx, Notify(x) PROVE [Service!Next]_(Service!service)
    BY Zenon, <1>1, <1>4, <2>5, NotifyAnswers DEF Service!Next
  <2>6. CASE DeviceStep
    <3>1. PICK c \in inflight : DeviceComplete(c)
      BY Zenon, <2>6 DEF DeviceStep
    <3> QED BY Zenon, <1>1, <1>4, <3>1, DevicePerforms DEF Service!Next
  <2> QED BY Zenon, <1>4, <2>2, <2>3, <2>4, <2>5, <2>6 DEF SchedStep, Gather
<1> QED BY Zenon, <1>2, <1>3, <1>4 DEF Next, SchedulerStep, ControllerStep, Terminated

\* At the start nothing is accepted, stored, answered or returned.
LEMMA InitServes == Init => Service!Init
<1> SUFFICES ASSUME Init PROVE Service!Init
  BY Zenon
<1>1. /\ prod_tail = 0 /\ asked = <<>> /\ retired = {} /\ phase = "base"
      /\ disk = [b \in Pages |-> <<>>]
  BY Zenon DEF Init, RingInit, SchedInit
<1>2. Answered = {}
  BY <1>1 DEF Answered
<1>3. (phase = "exit") = FALSE
  BY Zenon, <1>1
<1> QED BY Zenon, <1>1, <1>2, <1>3 DEF Service!Init

(***************************************************************************)
(* The write path implements WriteService as long as the slot counter has  *)
(* not wrapped: every request is performed once, from its own buffer, is   *)
(* answered after that, and the scheduler leaves after the last answer.    *)
(***************************************************************************)
THEOREM Refinement == Spec /\ []NoWrap => ImplementsService
<1>1. IndInv /\ NoWrap /\ ServiceInv /\ [Next]_vars => [Service!Next]_(Service!service)
  BY Zenon, NextServes
<1> QED BY <1>1, InitServes, Invariance, ServiceInvariance, PTL
        DEF Spec, ImplementsService, Service!Spec

(***************************************************************************)
(* A whole run that writes fewer than SeqMod pages needs no hypothesis     *)
(* about the counter: it implements WriteService, no DMA buffer is reused  *)
(* too early, every wait is sound, and the scheduler drains the ring.      *)
(***************************************************************************)
THEOREM WholeRunIsCorrect ==
  ASSUME Batches * PagesPerLaunch < SeqMod
  PROVE  Spec => /\ ImplementsService
                 /\ []WaitReturnsAfterWrite /\ []RightBufferOnce /\ []BufferNotReused
                 /\ []RoundsAreShaped /\ []ExitDrained
<1>1. Spec => [](IndInv /\ PagesInv /\ NoWrap)
  BY Zenon, CounterNeverWraps
<1>2. IndInv /\ PagesInv /\ NoWrap => NoWrap
  BY Zenon
<1> QED BY <1>1, <1>2, Refinement, WaitIsSound, PagesWrittenOnce, BuffersSafe, RoundsShaped,
           DrainedOnExit, PTL

=============================================================================
