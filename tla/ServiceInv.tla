----------------------------- MODULE ServiceInv ---------------------------
(***************************************************************************)
(* What IndInv does not say and the refinement of WriteService needs: that *)
(* requests are for distinct pages, that a worker's window holds exactly   *)
(* its requests that have not returned, that a page is written once, and   *)
(* that completion numbers lose no answer.  ServiceInv is inductive        *)
(* together with IndInv.                                                   *)
(***************************************************************************)
EXTENDS TransferService

(* Pages *)

\* Worker p has claimed a slot for its i-th request of launch l.
Begun(l, p, i) ==
  \/ l < launch
  \/ l = launch /\ (i < iter[p] \/ (i = iter[p] /\ Enqueuing(p)))

\* Every slot holds the request of some worker, and no page is asked for twice.
PagesInv ==
  /\ \A s \in 0 .. prod_tail - 1 :
       \E l \in 0 .. Batches - 1, p \in Producers, i \in 0 .. Count - 1 :
         Begun(l, p, i) /\ Asked(s).off = PageAt(l, p, i)
  /\ \A r, s \in 0 .. prod_tail - 1 : Asked(r).off = Asked(s).off => r = s

---------------------------------------------------------------------------
(* Windows *)

\* The n window positions from h on, modulo Window.
WindowFrom(h, n) ==
  {x \in 0 .. Window - 1 : x \in h .. h + n - 1 \/ x + Window \in h .. h + n - 1}

Outstanding(p) == WindowFrom(head[p], pending[p])

\* Worker p waits for slot s, or is filling it.
Holds(p, s) ==
  \/ Enqueuing(p) /\ my_slot[p] = s
  \/ \E x \in Outstanding(p) : slots[p][x] = s

\* The slots that have not returned are those the workers hold, each in the
\* window position whose buffer it names.
WindowInv ==
  /\ \A p \in Producers : \A x \in Outstanding(p) :
       /\ slots[p][x] \in (0 .. prod_tail - 1) \ retired
       /\ Asked(slots[p][x]).pe = p * Window + x
  /\ \A p \in Producers : Enqueuing(p) =>
       /\ my_slot[p] \notin retired
       /\ Asked(my_slot[p]).pe = p * Window + NextWindowPos(p)
  /\ \A s \in (0 .. prod_tail - 1) \ retired : \E p \in Producers : Holds(p, s)

---------------------------------------------------------------------------
(* Leaving *)

\* A claimed slot is published or still being filled: none is abandoned.
ClaimedInv ==
  \A s \in cons_head .. prod_tail - 1 :
    Published(s) \/ \E p \in Producers : Enqueuing(p) /\ my_slot[p] = s

ExitInv ==
  /\ shutdown => LaunchEnded /\ launch = Batches - 1
  /\ phase \in {"empty", "exit"} => sh_accumulated = 0
  /\ phase = "exit" => shutdown /\ cons_head = prod_tail
  /\ submitted_ios = cons_head
  /\ merged_ios <= submitted_ios

---------------------------------------------------------------------------
(* Commands *)

ShapeInv ==
  /\ phase \in {"submit", "poll", "notify"} =>
       \A s \in g_starts : GroupEnd(g_starts, s, sh_accumulated) - s <= MergeMax
  /\ phase = "poll" => inflight \subseteq {Command(s) : s \in NextGroups}

\* No request of the group that starts at s has reached the SSD.
GroupFresh(s) == \A pos \in GroupOf(s) : ~Performed(gsort[g_vals[pos]])

\* Only what a command was completed for is on the SSD.
FreshInv ==
  /\ \A s \in cons_head .. prod_tail - 1 : Performed(Asked(s)) =>
       phase \in {"submit", "poll", "notify"} /\ s < cons_head + sh_accumulated
  /\ phase = "submit" =>
       \A s \in g_starts : GroupNumber(g_starts, s) >= gpos => GroupFresh(s)
  /\ phase = "poll" =>
       \A s \in g_starts :
         GroupNumber(g_starts, s) >= gpos + RoundSize \/ Command(s) \in inflight
           => GroupFresh(s)

---------------------------------------------------------------------------
(* Answers *)

\* Consumed slots are answered, and so are the notified ones of the batch.
AnswersInv ==
  /\ \A s \in 0 .. cons_head - 1 : done_seq[Idx(s)] >= s + 1
  /\ phase = "notify" =>
       \A pos \in Positions(sh_accumulated) \ to_notify :
         done_seq[Idx(cons_head + g_vals[pos])] >= cons_head + g_vals[pos] + 1

(***************************************************************************)
(* The inductive invariant behind ImplementsService and the invariants     *)
(* RightBufferOnce, BufferNotReused, ExitDrained and RoundsAreShaped.      *)
(***************************************************************************)
ServiceInv ==
  /\ PagesInv /\ WindowInv /\ ClaimedInv /\ ExitInv /\ ShapeInv /\ FreshInv /\ AnswersInv
  /\ RightBufferOnce
=============================================================================
