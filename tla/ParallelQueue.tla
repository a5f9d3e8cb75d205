--------------------------- MODULE ParallelQueue --------------------------
(***************************************************************************)
(* A queue pair shared by GPU threads (include/nvm_parallel_queue.h) and   *)
(* the calls of include/page_cache.h that issue one command through it.    *)
(* A thread takes a CID and an SQ ticket, waits for its slot, copies and   *)
(* marks its command; whoever holds tail_lock moves the tail over every    *)
(* marked slot and rings the doorbell.  Completions are found by CID,      *)
(* marked, and whoever holds head_lock moves both heads.                   *)
(*                                                                         *)
(* One step is one access to a shared word, or several of which all but    *)
(* one touch words no other thread reads meanwhile.  Each lock is released *)
(* by the step that stores the last word it protects.  cq.tail and         *)
(* sq.head_lock are only counted up, as are the I/O statistics: they are   *)
(* left out.                                                               *)
(***************************************************************************)
EXTENDS NvmeQueue

CONSTANTS Threads,
          Plans,      \* what the threads may do: thread -> its calls, in order
          TicketMod   \* 2^32: the modulus of in_ticket

ASSUME TicketAssumption == TicketMod \in Nat /\ \A q \in Sizes : TicketMod % q = 0

VARIABLES
  in_ticket,
  tickets,      \* SQ position -> 2 * lap, + 1 when half released
  tail_mark,    \* SQ positions marked
  tail_lock,    \* is it held
  head_mark,    \* CQ positions marked
  head_lock,
  pos_locks,    \* CQ positions locked
  q_head, q_tail, q_lock,   \* the page cache's second-read protocol
  before,       \* history: q_tail when the running second read was submitted
  covered,      \* history: the largest before of a completed second read
  plan,         \* the plan the threads follow
  th            \* thread -> program counter and locals

sharedVars == <<in_ticket, tickets, tail_mark, tail_lock, head_mark, head_lock,
                pos_locks>>
secondVars == <<q_head, q_tail, q_lock, before, covered>>
vars == <<queueVars, sharedVars, secondVars, plan, th>>

(***************************************************************************)
(* The calls.  book: takes a position in the page cache's q_tail.  second: *)
(* does not return before a later read has completed.  Phase 1 and phase 2 *)
(* of the two-phase API are one call that may pause in between.            *)
(***************************************************************************)
read_data == [opcode |-> "read", book |-> TRUE, second |-> TRUE]
write_data == [opcode |-> "write", book |-> TRUE, second |-> FALSE]
trim_data == [opcode |-> "dsm", book |-> TRUE, second |-> FALSE]
read_data_no_second == [opcode |-> "read", book |-> FALSE, second |-> FALSE]
write_data_no_second == [opcode |-> "write", book |-> FALSE, second |-> FALSE]

Idle == [pc |-> "idle", n |-> 0, cid |-> 0, ticket |-> 0, cur |-> 0, count |-> 0,
         head |-> 0, loc |-> 0, prev |-> 0, pos |-> 0, tail |-> 0, again |-> FALSE]

get_id(ticket) == 2 * ((ticket % TicketMod) \div qs)

Init ==
  /\ QueueInit
  /\ in_ticket = Used
  /\ tickets = [s \in 0 .. qs - 1 |-> get_id(LastUse(s, Used) + qs)]
  /\ tail_mark = {} /\ head_mark = {} /\ pos_locks = {}
  /\ tail_lock = FALSE /\ head_lock = FALSE
  /\ q_head = 0 /\ q_tail = 0 /\ q_lock = FALSE
  /\ before = 0 /\ covered = 0
  /\ plan \in Plans
  /\ th = [t \in Threads |-> Idle]

Call(t) == plan[t][th[t].n]
Tag(t) == <<t, th[t].n, th[t].again>>
SqPos(t) == Slot(th[t].ticket)
CqPos(t) == Slot(th[t].loc)

At(t, label) == th[t].pc = label
Goto(t, label) == th' = [th EXCEPT ![t].pc = label]

---------------------------------------------------------------------------
(* sq_enqueue *)

get_cid(t) ==
  /\ At(t, "idle")
  /\ th[t].n < Len(plan[t])
  /\ cid_ticket' = (cid_ticket + 1) % NCids
  /\ IF cid_ticket \in cid
     THEN UNCHANGED <<cid, th>>
     ELSE /\ cid' = cid \cup {cid_ticket}
          /\ th' = [th EXCEPT ![t] = [Idle EXCEPT !.pc = "ticket", !.cid = cid_ticket,
                                                  !.n = th[t].n + 1]]
  /\ UNCHANGED <<sqVars, cqVars, devVars, sharedVars, secondVars>>

TakeTicket(t) ==
  /\ At(t, "ticket")
  /\ th' = [th EXCEPT ![t].pc = IF th[t].again THEN "note" ELSE "copy",
                      ![t].ticket = in_ticket]
  /\ in_ticket' = in_ticket + 1
  /\ UNCHANGED <<queueVars, tickets, tail_mark, tail_lock, head_mark, head_lock,
                 pos_locks, secondVars>>

SlotFree(t) == tickets[SqPos(t)] = get_id(th[t].ticket)

\* A second read notes q_tail before it marks its slot.
NoteTail(t) ==
  /\ At(t, "note")
  /\ SlotFree(t)
  /\ th' = [th EXCEPT ![t].pc = "copy", ![t].tail = q_tail]
  /\ UNCHANGED <<queueVars, sharedVars, secondVars>>

\* The slot is free: copy the command and mark the slot.
CopyCommand(t) ==
  /\ At(t, "copy")
  /\ SlotFree(t)
  /\ sq_mem' = [sq_mem EXCEPT ![SqPos(t)] = [cid |-> th[t].cid, call |-> Tag(t)]]
  /\ tail_mark' = tail_mark \cup {SqPos(t)}
  /\ Goto(t, "submit")
  /\ UNCHANGED <<sq_head, sq_tail, sq_db, cqVars, cidVars, devVars, in_ticket, tickets,
                 tail_lock, head_mark, head_lock, pos_locks, secondVars>>

LockTail(t) ==
  /\ At(t, "try_tail")
  /\ tail_lock' = TRUE
  /\ IF tail_lock THEN Goto(t, "submit")
     ELSE th' = [th EXCEPT ![t].pc = "move_tail", ![t].cur = sq_tail, ![t].count = 0]
  /\ UNCHANGED <<queueVars, in_ticket, tickets, tail_mark, head_mark, head_lock,
                 pos_locks, secondVars>>

AfterMove(t) ==
  IF th[t].count = 0 THEN "submit" ELSE IF th[t].again THEN "reload" ELSE "ring"

\* Mutant: two slots stay free instead of one.
move_tail_two_free(t) ==
  /\ At(t, "move_tail")
  /\ LET at == th[t].cur + th[t].count IN
     IF Slot(at + 2) # Slot(sq_head) /\ Slot(at) \in tail_mark
     THEN /\ tail_mark' = tail_mark \ {Slot(at)}
          /\ th' = [th EXCEPT ![t].count = @ + 1]
          /\ UNCHANGED tail_lock
     ELSE /\ tail_lock' = (th[t].count > 0)
          /\ Goto(t, AfterMove(t))
          /\ UNCHANGED tail_mark
  /\ UNCHANGED <<queueVars, in_ticket, tickets, head_mark, head_lock, pos_locks, secondVars>>

\* One turn of the loop: take over the next slot unless the SQ is full.
move_tail(t) ==
  /\ At(t, "move_tail")
  /\ LET at == th[t].cur + th[t].count IN
     IF Slot(at + 1) # Slot(sq_head) /\ Slot(at) \in tail_mark
     THEN /\ tail_mark' = tail_mark \ {Slot(at)}
          /\ th' = [th EXCEPT ![t].count = @ + 1]
          /\ UNCHANGED tail_lock
     ELSE /\ tail_lock' = (th[t].count > 0)
          /\ Goto(t, AfterMove(t))
          /\ UNCHANGED tail_mark
  /\ UNCHANGED <<queueVars, in_ticket, tickets, head_mark, head_lock, pos_locks, secondVars>>

\* A second read whose thread rings the doorbell looks at q_tail again.
ReloadTail(t) ==
  /\ At(t, "reload")
  /\ th' = [th EXCEPT ![t].pc = "ring", ![t].tail = q_tail]
  /\ UNCHANGED <<queueVars, sharedVars, secondVars>>

\* Mutant: the doorbell is one too far.
RingSqTooFar(t) ==
  /\ At(t, "ring")
  /\ sq_tail' = sq_tail + th[t].count
  /\ sq_db' = Slot(sq_tail + th[t].count + 1)
  /\ tail_lock' = FALSE
  /\ Goto(t, "submit")
  /\ before' = IF \E k \in 0 .. th[t].count - 1 : sq_mem[Slot(sq_tail + k)].call[3]
               THEN q_tail ELSE before
  /\ UNCHANGED <<sq_mem, sq_head, cqVars, cidVars, devVars, in_ticket, tickets, tail_mark,
                 head_mark, head_lock, pos_locks, q_head, q_tail, q_lock, covered>>

\* The doorbell, the tail and the unlock.
RingSq(t) ==
  /\ At(t, "ring")
  /\ sq_tail' = sq_tail + th[t].count
  /\ sq_db' = Slot(sq_tail + th[t].count)
  /\ tail_lock' = FALSE
  /\ Goto(t, "submit")
  /\ before' = IF \E k \in 0 .. th[t].count - 1 : sq_mem[Slot(sq_tail + k)].call[3]
               THEN q_tail ELSE before
  /\ UNCHANGED <<sq_mem, sq_head, cqVars, cidVars, devVars, in_ticket, tickets, tail_mark,
                 head_mark, head_lock, pos_locks, q_head, q_tail, q_lock, covered>>

\* Someone has taken the mark: the command is, or is about to be, submitted.
CheckTailMark(t) ==
  /\ At(t, "submit")
  /\ IF SqPos(t) \in tail_mark
     THEN Goto(t, "try_tail") /\ UNCHANGED tickets
     ELSE /\ tickets' = [tickets EXCEPT ![SqPos(t)] = @ + 1]
          /\ th' = [th EXCEPT ![t] = [@ EXCEPT !.pc = "poll", !.head = cq_head,
                                              !.ticket = 0, !.cur = 0, !.count = 0]]
  /\ UNCHANGED <<queueVars, in_ticket, tail_mark, tail_lock, head_mark, head_lock,
                 pos_locks, secondVars>>

---------------------------------------------------------------------------
(* cq_poll *)

\* The completions from head on that carry the phase of their lap.
Posted(head) ==
  {i \in 0 .. qs - 2 :
     \A k \in 0 .. i : cq_mem[Slot(head + k)].phase = PhaseOf(head + k)}

AfterPoll(t) ==
  IF th[t].again THEN "unlock" ELSE IF Call(t).book THEN "book" ELSE "lock"

\* One scan, from a head that may have moved on since it was loaded; a scan
\* that finds nothing loads it again.
cq_poll(t) ==
  /\ At(t, "poll")
  /\ LET mine == {i \in Posted(th[t].head) :
                    cq_mem[Slot(th[t].head + i)].cid = th[t].cid}
     IN  IF mine = {}
         THEN th' = [th EXCEPT ![t].head = cq_head]
         ELSE \E i \in mine :
                /\ \A k \in mine : i <= k
                /\ th' = [th EXCEPT ![t] = [@ EXCEPT !.pc = AfterPoll(t),
                                                   !.loc = th[t].head + i, !.head = 0]]
  /\ UNCHANGED <<queueVars, sharedVars, secondVars>>

---------------------------------------------------------------------------
(* cq_dequeue *)

LockPosition(t) ==
  /\ At(t, "lock")
  /\ CqPos(t) \notin pos_locks
  /\ pos_locks' = pos_locks \cup {CqPos(t)}
  /\ head_mark' = head_mark \cup {CqPos(t)}
  /\ Goto(t, "dequeue")
  /\ UNCHANGED <<queueVars, in_ticket, tickets, tail_mark, tail_lock, head_lock, secondVars>>

LockHead(t) ==
  /\ At(t, "try_head")
  /\ head_lock' = TRUE
  /\ IF head_lock THEN Goto(t, "dequeue")
     ELSE th' = [th EXCEPT ![t].pc = "move_head", ![t].cur = cq_head, ![t].count = 0]
  /\ UNCHANGED <<queueVars, in_ticket, tickets, tail_mark, tail_lock, head_mark,
                 pos_locks, secondVars>>

\* Take over the next marked completion; without any, give up the lock.
TakeHeadMark(t) ==
  /\ At(t, "move_head")
  /\ LET at == Slot(th[t].cur + th[t].count) IN
     IF at \in head_mark
     THEN /\ head_mark' = head_mark \ {at}
          /\ th' = [th EXCEPT ![t].count = @ + 1]
          /\ UNCHANGED head_lock
     ELSE /\ head_lock' = (th[t].count > 0)
          /\ Goto(t, IF th[t].count = 0 THEN "dequeue" ELSE "release")
          /\ UNCHANGED head_mark
  /\ UNCHANGED <<queueVars, in_ticket, tickets, tail_mark, tail_lock, pos_locks, secondVars>>

\* SQ entries the last taken completion reports as fetched.
Freed(t) == Slot(cq_mem[Slot(th[t].cur + th[t].count - 1)].sqhd - sq_head)

\* Give the fetched SQ slots their second half-release, then move the SQ head.
move_head_cq(t) ==
  /\ At(t, "release")
  /\ tickets' = [s \in 0 .. qs - 1 |->
       IF Slot(s - sq_head) < Freed(t) THEN tickets[s] + 1 ELSE tickets[s]]
  /\ Goto(t, "ring_cq")
  /\ UNCHANGED <<queueVars, in_ticket, tail_mark, tail_lock, head_mark, head_lock,
                 pos_locks, secondVars>>

RingCq(t) ==
  /\ At(t, "ring_cq")
  /\ sq_head' = sq_head + Freed(t)
  /\ cq_db' = Slot(th[t].cur + th[t].count)
  /\ Goto(t, "cq_head")
  /\ UNCHANGED <<sq_mem, sq_tail, sq_db, cq_head, cidVars, devVars, sharedVars, secondVars>>

AdvanceCqHead(t) ==
  /\ At(t, "cq_head")
  /\ cq_head' = th[t].cur + th[t].count
  /\ head_lock' = FALSE
  /\ Goto(t, "dequeue")
  /\ UNCHANGED <<sqVars, cq_db, cidVars, devVars, in_ticket, tickets, tail_mark, tail_lock,
                 head_mark, pos_locks, secondVars>>

CheckHeadMark(t) ==
  /\ At(t, "dequeue")
  /\ Goto(t, IF CqPos(t) \in head_mark THEN "try_head" ELSE "wait")
  /\ UNCHANGED <<queueVars, sharedVars, secondVars>>

AfterDequeue(t) == IF Call(t).second /\ ~th[t].again THEN "second" ELSE "put"

\* Mutant: returns as soon as the mark is taken.
ReleasePositionEarly(t) ==
  /\ At(t, "wait")
  /\ pos_locks' = pos_locks \ {CqPos(t)}
  /\ th' = [th EXCEPT ![t] = [@ EXCEPT !.pc = AfterDequeue(t), !.loc = 0,
                                      !.cur = 0, !.count = 0]]
  /\ UNCHANGED <<queueVars, in_ticket, tickets, tail_mark, tail_lock, head_mark, head_lock,
                 secondVars>>

\* The CQ position is given up only once the head has passed the completion.
ReleasePosition(t) ==
  /\ At(t, "wait")
  /\ cq_head > th[t].loc
  /\ pos_locks' = pos_locks \ {CqPos(t)}
  /\ th' = [th EXCEPT ![t] = [@ EXCEPT !.pc = AfterDequeue(t), !.loc = 0,
                                      !.cur = 0, !.count = 0]]
  /\ UNCHANGED <<queueVars, in_ticket, tickets, tail_mark, tail_lock, head_mark, head_lock,
                 secondVars>>

---------------------------------------------------------------------------
(* The page cache's positions and enqueue_second *)

\* Between cq_poll and cq_dequeue: a position in the order of completions.
TakePosition(t) ==
  /\ At(t, "book")
  /\ th' = [th EXCEPT ![t].pc = "lock", ![t].prev = q_head, ![t].pos = q_tail]
  /\ q_tail' = q_tail + 1
  /\ UNCHANGED <<queueVars, sharedVars, q_head, q_lock, before, covered>>

\* Has a second read submitted after our position completed?
CheckSecond(t) ==
  /\ At(t, "second")
  /\ Goto(t, IF th[t].prev <= th[t].pos /\ th[t].pos < q_head THEN "put" ELSE "try")
  /\ UNCHANGED <<queueVars, sharedVars, secondVars>>

\* The holder of q_lock submits one second read, under its own CID, for everyone.
enqueue_second(t) ==
  /\ At(t, "try")
  /\ q_lock' = TRUE
  /\ IF q_lock THEN Goto(t, "second")
     ELSE th' = [th EXCEPT ![t].pc = "ticket", ![t].again = TRUE]
  /\ UNCHANGED <<queueVars, sharedVars, q_head, q_tail, before, covered>>

\* Mutant: everyone booked by now is declared covered.
SecondDoneLate(t) ==
  /\ At(t, "unlock")
  /\ q_head' = q_tail
  /\ q_lock' = FALSE
  /\ covered' = before
  /\ Goto(t, "lock")
  /\ UNCHANGED <<queueVars, sharedVars, q_tail, before>>

SecondDone(t) ==
  /\ At(t, "unlock")
  /\ q_head' = th[t].tail
  /\ q_lock' = FALSE
  /\ covered' = before
  /\ Goto(t, "lock")
  /\ UNCHANGED <<queueVars, sharedVars, q_tail, before>>

put_cid(t) ==
  /\ At(t, "put")
  /\ cid' = cid \ {th[t].cid}
  /\ th' = [th EXCEPT ![t] = [Idle EXCEPT !.n = th[t].n]]
  /\ UNCHANGED <<sqVars, cqVars, cid_ticket, devVars, sharedVars, secondVars>>

---------------------------------------------------------------------------
sq_enqueue(t) ==
  \/ TakeTicket(t) \/ NoteTail(t) \/ CopyCommand(t) \/ LockTail(t) \/ move_tail(t)
  \/ ReloadTail(t) \/ RingSq(t) \/ CheckTailMark(t)

cq_dequeue(t) ==
  \/ LockPosition(t) \/ LockHead(t) \/ TakeHeadMark(t) \/ move_head_cq(t)
  \/ RingCq(t) \/ AdvanceCqHead(t) \/ CheckHeadMark(t)
  \/ ReleasePosition(t)

Thread(t) ==
  /\ \/ get_cid(t) \/ sq_enqueue(t)
     \/ cq_poll(t) \/ TakePosition(t)
     \/ cq_dequeue(t)
     \/ CheckSecond(t) \/ enqueue_second(t) \/ SecondDone(t)
     \/ put_cid(t)
  /\ UNCHANGED <<qs, plan>>

Returned(t) == At(t, "idle") /\ th[t].n = Len(plan[t])

---------------------------------------------------------------------------
(* Properties *)

(***************************************************************************)
(* cq_poll returns a completion of the caller's own command: never an      *)
(* entry of an earlier lap, or of an earlier user of its CID.              *)
(***************************************************************************)
Polled == {"book", "lock", "dequeue", "try_head", "move_head", "release", "ring_cq",
           "cq_head", "wait", "unlock"}

OwnCompletion == \A t \in Threads : th[t].pc \in Polled => Tag(t) \in done

(***************************************************************************)
(* The controller never fetches an SQ slot twice for one command, nor a    *)
(* slot whose new command is not there yet.                                *)
(***************************************************************************)
FetchedOnce == \A c \in InFlight : c.call \notin done /\ c # NoCommand

(***************************************************************************)
(* A read_data that returns has been followed by a second read: one that   *)
(* was submitted after the first completed and has completed itself.       *)
(***************************************************************************)
ReadIsCovered ==
  \A t \in Threads :
    At(t, "put") /\ Call(t).second => th[t].pos < covered
=============================================================================
