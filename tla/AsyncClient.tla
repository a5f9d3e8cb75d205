---------------------------- MODULE AsyncClient ----------------------------
(***************************************************************************)
(* Callers of the asynchronous interface: io_sched_submit_read, _write and *)
(* io_sched_submit return a pointer to done_flags[slot & mask], and        *)
(* io_sched_wait spins on it and then clears it.  A caller keeps up to     *)
(* Window pointers and waits for the oldest first.  Some of its requests   *)
(* are fire-and-forget (io_sched_enqueue_forget) and are never waited for. *)
(***************************************************************************)
EXTENDS WriteScheduler, Functions

CONSTANTS
  Count,    \* requests per caller
  Window,   \* pointers a caller keeps before it waits
  Forgets   \* subset of BOOLEAN: may a request be fire-and-forget

ASSUME AsyncAssumption ==
  /\ Count \in Nat \ {0}
  /\ Window \in Nat \ {0}
  /\ Forgets \subseteq BOOLEAN /\ Forgets # {}
  /\ IsFiniteSet(Producers)
  /\ Producers = 0 .. Cardinality(Producers) - 1
  /\ Pages = 0 .. Cardinality(Producers) * Count - 1

VARIABLES
  issued,     \* caller -> requests enqueued so far
  forget,     \* caller -> is the request being enqueued fire-and-forget
  handles,    \* caller -> slots whose done_flags pointer it holds, oldest first
  releasing,  \* caller -> io_sched_wait saw the flag and has to clear it
  waited      \* history: slots whose io_sched_wait returned

clientVars == <<issued, forget, handles, releasing, waited>>
vars == <<ringVars, schedVars, disk, clientVars>>

Init ==
  /\ RingInit
  /\ SchedInit
  /\ issued = [p \in Producers |-> 0]
  /\ forget = [p \in Producers |-> FALSE]
  /\ handles = [p \in Producers |-> <<>>]
  /\ releasing = [p \in Producers |-> FALSE]
  /\ waited = {}

MayIssue(p) == issued[p] < Count /\ Len(handles[p]) < Window /\ ~releasing[p]

\* Each request has its own page and its own buffer.
Request(p) == [off |-> p * Count + issued[p], pe |-> p * Count + issued[p]]

StartEnqueue(p) ==
  /\ MayIssue(p)
  /\ ClaimSlot(p, Request(p))
  /\ \E f \in Forgets : forget' = [forget EXCEPT ![p] = f]
  /\ UNCHANGED <<schedVars, disk, issued, handles, releasing, waited>>

ContinueEnqueue(p) ==
  /\ EnqueueStep(p)
  /\ UNCHANGED <<schedVars, disk, clientVars>>

\* io_sched_submit returns the flag pointer; io_sched_enqueue_forget drops it.
FinishEnqueue(p) ==
  /\ Publish(p)
  /\ issued' = [issued EXCEPT ![p] = @ + 1]
  /\ handles' = IF forget[p] THEN handles
                ELSE [handles EXCEPT ![p] = Append(@, my_slot[p])]
  /\ UNCHANGED <<schedVars, disk, forget, releasing, waited>>

\* io_sched_wait: the load that ends the spin ...
SeeFlag(p) ==
  /\ pc[p] = "out"
  /\ handles[p] # <<>>
  /\ ~releasing[p]
  /\ Len(handles[p]) = Window \/ issued[p] = Count
  /\ done_flags[Idx(Head(handles[p]))] # 0
  /\ releasing' = [releasing EXCEPT ![p] = TRUE]
  /\ UNCHANGED <<ringVars, schedVars, disk, issued, forget, handles, waited>>

\* ... and the store that clears the flag.
ReleaseFlag(p) ==
  /\ releasing[p]
  /\ done_flags' = [done_flags EXCEPT ![Idx(Head(handles[p]))] = 0]
  /\ releasing' = [releasing EXCEPT ![p] = FALSE]
  /\ handles' = [handles EXCEPT ![p] = Tail(@)]
  /\ waited' = waited \cup {Head(handles[p])}
  /\ UNCHANGED <<entries, done_seq, prod_seq, prod_tail, cons_head, shutdown, enqueuing,
                 schedVars, disk, issued, forget>>

CallerStep(p) ==
  StartEnqueue(p) \/ ContinueEnqueue(p) \/ FinishEnqueue(p) \/ SeeFlag(p) \/ ReleaseFlag(p)

Idle(p) == pc[p] = "out" /\ issued[p] = Count /\ handles[p] = <<>>

\* The host shuts the scheduler down when the callers have returned.
shutdown_queue ==
  /\ \A p \in Producers : Idle(p)
  /\ ~shutdown
  /\ SetShutdown
  /\ UNCHANGED <<schedVars, disk, clientVars>>

SchedulerStep == SchedStep /\ UNCHANGED clientVars

ControllerStep == DeviceStep /\ UNCHANGED clientVars

Terminated == phase = "exit" /\ UNCHANGED vars

Next ==
  \/ \E p \in Producers : CallerStep(p)
  \/ shutdown_queue
  \/ SchedulerStep
  \/ ControllerStep
  \/ Terminated

Fairness ==
  /\ \A p \in Producers : WF_vars(CallerStep(p))
  /\ WF_vars(shutdown_queue)
  /\ WF_vars(SchedulerStep)
  /\ WF_vars(ControllerStep)

FairSpec == Init /\ [][Next]_vars /\ Fairness

---------------------------------------------------------------------------
(* Properties *)

(***************************************************************************)
(* io_sched_wait returns only after the IO of the request whose pointer it *)
(* was given has reached the SSD, although the flag it spins on is shared  *)
(* by every request that ever used the slot.                               *)
(***************************************************************************)
FlagMeansDone == \A s \in waited : disk[Asked(s).off] # <<>>

\* A later request has cleared, or set up, the flag of a slot whose pointer a
\* caller still holds.
Overtaken ==
  \E p, q \in Producers : \E s \in Range(handles[p]) :
    /\ my_slot[q] > s /\ Idx(my_slot[q]) = Idx(s)
    /\ pc[q] \notin {"full", "clear"}

(***************************************************************************)
(* Every io_sched_wait returns, unless a slot was taken for another lap    *)
(* while a caller held the pointer to its flag.  The condition is needed:  *)
(* io_sched_enqueue waits until the scheduler has consumed the previous    *)
(* occupant ("so done_flags can be safely cleared"), not until its caller  *)
(* has seen the flag, and a wait whose flag is cleared first may spin for  *)
(* ever; so may the new occupant's, when the late waiter clears its flag.  *)
(***************************************************************************)
EveryWaitReturns == <>Overtaken \/ \A p \in Producers : <>(Idle(p))

(***************************************************************************)
(* The scheduler serves what was enqueued before the shutdown, including   *)
(* the requests nobody waits for, before it exits                          *)
(* (io_sched_shutdown: "after draining remaining requests").               *)
(***************************************************************************)
ForgottenAreServed ==
  phase = "exit" => \A s \in 0 .. prod_tail - 1 : disk[Asked(s).off] # <<>>

=============================================================================
