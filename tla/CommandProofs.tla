--------------------------- MODULE CommandProofs --------------------------
(***************************************************************************)
(* What reaches the SSD: each merged command writes the pages of its own   *)
(* group and no others, so that a page is written once and from the buffer *)
(* of the request for it, in rounds of commands that do not overlap.  Then *)
(* the answers: no completion number is lost, and which steps of           *)
(* WriteService the callers and the notification take.                     *)
(***************************************************************************)
EXTENDS ServiceInv, AlgorithmProofs

(* A command and its group *)

\* The requests of a batch are for different pages.
LEMMA SortedDistinct ==
  ASSUME CoreInv, PagesInv, phase \in {"submit", "poll", "notify"},
         NEW a \in Positions(sh_accumulated), NEW b \in Positions(sh_accumulated),
         gsort[g_vals[a]].off = gsort[g_vals[b]].off
  PROVE  a = b
<1>1. /\ cons_head + g_vals[a] \in 0 .. prod_tail - 1
      /\ cons_head + g_vals[b] \in 0 .. prod_tail - 1
      /\ gsort[g_vals[a]] = Asked(cons_head + g_vals[a])
      /\ gsort[g_vals[b]] = Asked(cons_head + g_vals[b])
      /\ g_vals[a] \in Nat /\ g_vals[b] \in Nat
  BY SortedSlot
<1>u. \A r, q \in 0 .. prod_tail - 1 : Asked(r).off = Asked(q).off => r = q
  BY Zenon DEF PagesInv
<1>2. cons_head + g_vals[a] = cons_head + g_vals[b]
  BY <1>1, <1>u, Zenon
<1>3. g_vals[a] = g_vals[b]
  <2>1. cons_head \in Nat
    BY Zenon, DrainTypes
  <2> QED BY <2>1, <1>1, <1>2
<1>4. /\ sh_accumulated \in Nat /\ g_vals \in StableOrders(BatchKeys, sh_accumulated)
      /\ BatchKeys \in [Positions(sh_accumulated) -> Nat]
  <2>1. sh_accumulated \in Nat /\ \A i \in Positions(sh_accumulated) : gsort[i] \in Request_t
    BY Zenon, SortedFacts
  <2>2. \A i \in Positions(sh_accumulated) : gsort[i].off \in Nat
    BY Zenon, <2>1, RunConstants DEF Request_t
  <2> QED BY Zenon, <2>1, <2>2 DEF BatchKeys, CoreInv, SchedulerInv, SortInv
<1> QED BY Zenon, <1>3, <1>4, StableOrderInjective

\* The positions of a group.
LEMMA GroupPositions ==
  ASSUME CoreInv, phase \in {"submit", "poll", "notify"}, NEW s \in g_starts
  PROVE  /\ s \in Nat /\ s \in GroupOf(s) /\ GroupOf(s) \subseteq Positions(sh_accumulated)
         /\ GroupEnd(g_starts, s, sh_accumulated) \in s + 1 .. sh_accumulated
<1>1. g_starts \in SUBSET Positions(sh_accumulated) /\ sh_accumulated \in Nat
  BY Zenon, GroupFacts, SortedFacts
<1>2. GroupEnd(g_starts, s, sh_accumulated) \in s + 1 .. sh_accumulated
  BY Zenon, <1>1, GroupEndFacts
<1>3. s \in Nat
  BY <1>1 DEF Positions
<1> QED BY <1>1, <1>2, <1>3 DEF GroupOf, Positions

\* No page belongs to two groups.
LEMMA GroupsSeparatePages ==
  ASSUME CoreInv, PagesInv, phase \in {"submit", "poll", "notify"},
         NEW s \in g_starts, NEW t \in g_starts, NEW a \in GroupOf(s), NEW b \in GroupOf(t),
         gsort[g_vals[a]].off = gsort[g_vals[b]].off
  PROVE  s = t /\ a = b
<1>1. a \in Positions(sh_accumulated) /\ b \in Positions(sh_accumulated)
  BY Zenon, GroupPositions
<1>2. a = b
  BY Zenon, <1>1, SortedDistinct
<1>3. g_starts \in SUBSET Positions(sh_accumulated) /\ sh_accumulated \in Nat
  BY Zenon, GroupFacts, SortedFacts
<1>4. s = t
  BY Zenon, <1>2, <1>3, GroupsDisjoint DEF GroupOf
<1> QED BY Zenon, <1>2, <1>4

\* A command writes the pages of its group, each from the buffer of its request.
LEMMA CommandBlocks ==
  ASSUME CoreInv, phase \in {"submit", "poll"}, NEW s \in g_starts
  PROVE  /\ \A b \in Blocks(Command(s)) : \E pos \in GroupOf(s) :
              /\ gsort[g_vals[pos]].off = b
              /\ Command(s).prps[b - Command(s).lba] = gsort[g_vals[pos]].pe
         /\ \A pos \in GroupOf(s) : gsort[g_vals[pos]].off \in Blocks(Command(s))
<1> DEFINE e == GroupEnd(g_starts, s, sh_accumulated)
           l == SortedKeys[s]
<1>1. /\ s \in Nat /\ e \in s + 1 .. sh_accumulated
      /\ Command(s).lba = l /\ l \in Nat
      /\ Command(s).nblks = e - s
      /\ \A pos \in s .. e - 1 : /\ SortedKeys[pos] = l + (pos - s)
                                 /\ gsort[g_vals[pos]].off = SortedKeys[pos]
  BY Zenon, CommandFacts
<1>2. Command(s).prps = [r \in 0 .. (e - s - 1) |-> gsort[g_vals[s + r]].pe]
  BY Zenon DEF Command
<1>3. sh_accumulated \in Nat /\ GroupOf(s) = s .. e - 1
  BY Zenon, DrainTypes DEF GroupOf
<1> HIDE DEF e, l
<1>4. Blocks(Command(s)) = l .. l + (e - s) - 1
  BY Zenon, <1>1 DEF Blocks
<1>5. ASSUME NEW b \in l .. l + (e - s) - 1
      PROVE  \E pos \in s .. e - 1 :
               /\ gsort[g_vals[pos]].off = b
               /\ Command(s).prps[b - Command(s).lba] = gsort[g_vals[pos]].pe
  <2> DEFINE r == b - l
  <2>1. r \in 0 .. (e - s - 1) /\ s + r \in s .. e - 1 /\ b = l + r
    BY <1>1, <1>3
  <2>2. l + ((s + r) - s) = l + r
    BY <2>1, <1>1
  <2>3. b - Command(s).lba = r
    BY Zenon, <1>1
  <2> HIDE DEF r
  <2>4. gsort[g_vals[s + r]].off = b
    BY Zenon, <2>1, <2>2, <1>1
  <2>5. Command(s).prps[r] = gsort[g_vals[s + r]].pe
    BY Zenon, <2>1, <1>2
  <2> QED BY Zenon, <2>1, <2>3, <2>4, <2>5
<1>6. ASSUME NEW pos \in s .. e - 1
      PROVE  gsort[g_vals[pos]].off \in l .. l + (e - s) - 1
  <2>1. gsort[g_vals[pos]].off = l + (pos - s)
    BY Zenon, <1>1
  <2> QED BY <2>1, <1>1, <1>3
<1> QED BY Zenon, <1>3, <1>4, <1>5, <1>6

\* Different groups make different commands, with no page in common.
LEMMA CommandsDisjoint ==
  ASSUME CoreInv, PagesInv, phase \in {"submit", "poll"}, NEW s \in g_starts, NEW t \in g_starts,
         s # t
  PROVE  Blocks(Command(s)) \cap Blocks(Command(t)) = {} /\ Command(s) # Command(t)
<1>1. ASSUME NEW b \in Blocks(Command(s)), b \in Blocks(Command(t))
      PROVE  FALSE
  <2>1. PICK x \in GroupOf(s) : gsort[g_vals[x]].off = b
    BY Zenon, <1>1, CommandBlocks
  <2>2. PICK y \in GroupOf(t) : gsort[g_vals[y]].off = b
    BY Zenon, <1>1, CommandBlocks
  <2> QED BY Zenon, <2>1, <2>2, GroupsSeparatePages
<1>2. gsort[g_vals[s]].off \in Blocks(Command(s))
  BY Zenon, GroupPositions, CommandBlocks
<1> QED BY Zenon, <1>1, <1>2

---------------------------------------------------------------------------
(* Pages are written once *)

CommandInv == ShapeInv /\ FreshInv /\ RightBufferOnce

\* What is left alone by a step that touches neither batch, commands nor SSD.
LEMMA CommandFrame ==
  ASSUME CommandInv,
         UNCHANGED <<phase, sh_accumulated, gsort, g_vals, g_starts, gpos, inflight>>,
         UNCHANGED <<disk, cons_head, prod_tail, asked>>
  PROVE  CommandInv'
<1>1. /\ \A s : Command(s)' = Command(s)
      /\ \A s : GroupOf(s)' = GroupOf(s)
  BY Zenon, GroupFrame
<1>2. /\ RoundSize' = RoundSize /\ NextGroups' = NextGroups
      /\ \A s : Asked(s)' = Asked(s)
  BY Zenon DEF RoundSize, ChunkLeft, NextGroups, Asked
<1>3. \A s : GroupFresh(s)' = GroupFresh(s)
  BY Zenon, <1>1 DEF GroupFresh, Performed
<1>5. ShapeInv'
  BY Zenon, <1>1, <1>2 DEF CommandInv, ShapeInv
<1>6. FreshInv'
  BY Zenon, <1>1, <1>2, <1>3 DEF CommandInv, FreshInv, Performed
<1>7. RightBufferOnce'
  BY Zenon, <1>2 DEF CommandInv, RightBufferOnce
<1> QED BY Zenon, <1>5, <1>6, <1>7 DEF CommandInv

\* Outside submission and notification nothing of the ring is on the SSD.
LEMMA Unserved ==
  ASSUME FreshInv, phase \notin {"submit", "poll", "notify"}
  PROVE  \A s \in cons_head .. prod_tail - 1 : ~Performed(Asked(s))
BY Zenon DEF FreshInv

\* Gathering and sorting a batch.
LEMMA GatherKeepsCommands ==
  ASSUME CommandInv, phase \notin {"submit", "poll", "notify"},
         phase' \notin {"submit", "poll", "notify"},
         UNCHANGED <<disk, cons_head, prod_tail, asked>>
  PROVE  CommandInv'
<1>1. \A s \in cons_head .. prod_tail - 1 : ~Performed(Asked(s))
  BY Zenon, Unserved DEF CommandInv
<1>2. \A s \in cons_head' .. prod_tail' - 1 : ~Performed(Asked(s))'
  BY Zenon, <1>1 DEF Performed, Asked
<1>3. FreshInv'
  BY Zenon, <1>2 DEF FreshInv
<1>4. RightBufferOnce'
  BY Zenon DEF CommandInv, RightBufferOnce, Asked
<1> QED BY Zenon, <1>3, <1>4 DEF CommandInv, ShapeInv

\* A new request is for a page that has not been written.
LEMMA StartKeepsCommands ==
  ASSUME IndInv, IndInv', PagesInv', CommandInv, NEW p \in Producers, StartEnqueue(p)
  PROVE  CommandInv'
<1>t. /\ CoreInv /\ WorkerTypeOK /\ prod_tail \in Nat /\ cons_head \in Nat
      /\ asked \in Seq(Request_t) /\ Len(asked) = prod_tail
  BY Zenon, DrainTypes DEF IndInv, CoreInv, RingTypeOK
<1>1. /\ iter[p] < Count /\ asked' = Append(asked, Request(p)) /\ prod_tail' = prod_tail + 1
      /\ UNCHANGED <<phase, sh_accumulated, gsort, g_vals, g_starts, gpos, inflight>>
      /\ UNCHANGED <<disk, cons_head>>
  BY Zenon DEF StartEnqueue, ClaimSlot, schedVars, batchVars, mergeVars
<1>r. Request(p) \in Request_t
  BY Zenon, <1>1, <1>t, RequestType
<1>2. /\ \A s \in 0 .. prod_tail - 1 : Asked(s)' = Asked(s)
      /\ asked'[prod_tail + 1] = Request(p)
  BY Zenon, <1>1, <1>r, <1>t, AskedAppend DEF Asked
<1>3. disk[Request(p).off] = <<>>
  <2> SUFFICES ASSUME disk[Request(p).off] # <<>> PROVE FALSE
    BY Zenon
  <2>1. Request(p).off \in Pages
    BY Zenon, <1>r DEF Request_t
  <2>2. PICK s \in 0 .. prod_tail - 1 : Asked(s).off = Request(p).off
    BY Zenon, <2>1 DEF CommandInv, RightBufferOnce
  <2>3. s \in 0 .. prod_tail' - 1 /\ prod_tail \in 0 .. prod_tail' - 1 /\ s # prod_tail
    BY <1>1, <1>t
  <2>4. asked'[s + 1].off = asked'[prod_tail + 1].off
    BY Zenon, <2>2, <1>1, <1>2, <1>t DEF Asked
  <2>5. \A r, q \in 0 .. prod_tail' - 1 : asked'[r + 1].off = asked'[q + 1].off => r = q
    BY Zenon DEF PagesInv, Asked
  <2> QED BY Zenon, <2>3, <2>4, <2>5
<1>4. ASSUME NEW s \in cons_head .. prod_tail' - 1, Performed(Asked(s))'
      PROVE  s \in cons_head .. prod_tail - 1 /\ Performed(Asked(s))
  <2>1. s # prod_tail
    BY Zenon, <1>4, <1>1, <1>2, <1>3 DEF Performed, Asked
  <2>2. s \in cons_head .. prod_tail - 1 /\ s \in 0 .. prod_tail - 1
    BY <2>1, <1>1, <1>t
  <2> QED BY Zenon, <2>2, <1>4, <1>1, <1>2 DEF Performed
<1>5. /\ \A s : Command(s)' = Command(s)
      /\ \A s : GroupOf(s)' = GroupOf(s)
  BY Zenon, <1>1, GroupFrame
<1>6. RoundSize' = RoundSize /\ NextGroups' = NextGroups
  BY Zenon, <1>1 DEF RoundSize, ChunkLeft, NextGroups
<1>7. \A s : GroupFresh(s)' = GroupFresh(s)
  BY Zenon, <1>1, <1>5 DEF GroupFresh, Performed
<1>8. ShapeInv'
  BY Zenon, <1>1, <1>5, <1>6 DEF CommandInv, ShapeInv
<1>9. FreshInv'
  <2>1. \A s \in cons_head' .. prod_tail' - 1 : Performed(Asked(s))' =>
          phase' \in {"submit", "poll", "notify"} /\ s < cons_head' + sh_accumulated'
    BY Zenon, <1>4, <1>1 DEF CommandInv, FreshInv
  <2>2. /\ phase' = "submit" =>
             \A s \in g_starts' : GroupNumber(g_starts, s)' >= gpos' => GroupFresh(s)'
        /\ phase' = "poll" =>
             \A s \in g_starts' :
               GroupNumber(g_starts, s)' >= gpos' + RoundSize' \/ Command(s)' \in inflight'
                 => GroupFresh(s)'
    BY Zenon, <1>1, <1>5, <1>6, <1>7 DEF CommandInv, FreshInv
  <2> QED BY Zenon, <2>1, <2>2 DEF FreshInv
<1>10. RightBufferOnce'
  <2>1. ASSUME NEW b \in Pages, disk[b] # <<>>
        PROVE  \E s \in 0 .. prod_tail' - 1 : Asked(s)'.off = b /\ disk[b] = <<Asked(s)'.pe>>
    <3>1. PICK s \in 0 .. prod_tail - 1 : Asked(s).off = b /\ disk[b] = <<Asked(s).pe>>
      BY Zenon, <2>1 DEF CommandInv, RightBufferOnce
    <3>2. s \in 0 .. prod_tail' - 1
      BY <1>1, <1>t
    <3> QED BY Zenon, <3>1, <3>2, <1>2
  <2> QED BY Zenon, <2>1, <1>1 DEF RightBufferOnce
<1> QED BY Zenon, <1>8, <1>9, <1>10 DEF CommandInv

\* Merging cuts groups within the merge target, of requests not yet on the SSD.
LEMMA MergeKeepsCommands ==
  ASSUME IndInv, IndInv', CommandInv, Merge
  PROVE  CommandInv'
<1>1. /\ phase = "merge" /\ phase' = "submit"
      /\ g_starts' = GroupStarts(SortedKeys, SortedBytes, sh_accumulated, MergeMax)
      /\ UNCHANGED <<sh_accumulated, gsort, g_vals, disk, cons_head, prod_tail, asked>>
  BY Zenon DEF Merge, GotoPhase, batchVars, ringVars, enqueuing
<1>2. CoreInv /\ CoreInv'
  BY Zenon DEF IndInv
<1>3. \A s \in cons_head .. prod_tail - 1 : ~Performed(Asked(s))
  BY Zenon, <1>1, Unserved DEF CommandInv
<1>4. \A s \in g_starts' : GroupEnd(g_starts, s, sh_accumulated)' - s <= MergeMax
  <2>1. /\ sh_accumulated \in Nat /\ SortedKeys \in [Positions(sh_accumulated) -> Nat]
        /\ SortedBytes = [pos \in Positions(sh_accumulated) |-> 1]
        /\ MergeMax \in Nat \ {0}
    BY Zenon, <1>1, <1>2, SortedFacts, SchedAssumption DEF SortedBytes
  <2>2. \A s \in g_starts' :
          GroupEnd(GroupStarts(SortedKeys, SortedBytes, sh_accumulated, MergeMax), s, sh_accumulated)
            - s <= MergeMax
    BY Zenon, <2>1, <1>1, GroupsWithinMergeTarget
  <2> QED BY Zenon, <2>2, <1>1
<1>5. ASSUME NEW s \in g_starts' PROVE GroupFresh(s)'
  <2>1. ASSUME NEW pos \in GroupOf(s)'
        PROVE  ~Performed(gsort[g_vals[pos]])'
    <3>1. g_starts' \in SUBSET Positions(sh_accumulated) /\ sh_accumulated \in Nat
      BY Zenon, <1>1, <1>2, DrainTypes DEF CoreInv, SchedulerInv, MergeInv
    <3>2. GroupEnd(g_starts', s, sh_accumulated) \in s + 1 .. sh_accumulated /\ s \in Nat
      BY <3>1, GroupEndFacts DEF Positions
    <3>3. pos \in s .. GroupEnd(g_starts', s, sh_accumulated) - 1
      BY Zenon, <1>1 DEF GroupOf
    <3>4. pos \in Positions(sh_accumulated)
      BY <3>1, <3>2, <3>3 DEF Positions
    <3>5. /\ cons_head + g_vals[pos] \in cons_head .. prod_tail - 1
          /\ gsort[g_vals[pos]] = Asked(cons_head + g_vals[pos])
      BY Zenon, <3>4, <1>1, <1>2, SortedSlot
    <3> QED BY Zenon, <3>5, <1>1, <1>3 DEF Performed
  <2> QED BY Zenon, <2>1 DEF GroupFresh
<1>6. ShapeInv'
  BY Zenon, <1>1, <1>4 DEF ShapeInv
<1>7. FreshInv'
  <2>1. \A s \in cons_head' .. prod_tail' - 1 : ~Performed(Asked(s))'
    BY Zenon, <1>1, <1>3 DEF Performed, Asked
  <2> QED BY Zenon, <2>1, <1>1, <1>5 DEF FreshInv
<1>8. RightBufferOnce'
  BY Zenon, <1>1 DEF CommandInv, RightBufferOnce, Asked
<1> QED BY Zenon, <1>6, <1>7, <1>8 DEF CommandInv

\* A round is made of groups of which nothing is on the SSD.
LEMMA SubmitKeepsCommands ==
  ASSUME IndInv, PagesInv, CommandInv, Submit
  PROVE  CommandInv'
<1>1. /\ phase = "submit" /\ phase' = "poll"
      /\ inflight' = {Command(s) : s \in NextGroups}
      /\ UNCHANGED <<sh_accumulated, gsort, g_vals, g_starts, gpos, disk, cons_head, prod_tail,
                     asked>>
  BY Zenon DEF Submit, GotoPhase, batchVars, mergeVars, ringVars, enqueuing
<1>2. CoreInv /\ gpos \in Nat /\ RoundSize \in Nat
  BY Zenon, <1>1, RoundSizeFacts DEF IndInv
<1>3. /\ \A s : Command(s)' = Command(s)
      /\ \A s : GroupOf(s)' = GroupOf(s)
  BY Zenon, <1>1, GroupFrame
<1>4. RoundSize' = RoundSize /\ NextGroups' = NextGroups
  BY Zenon, <1>1 DEF RoundSize, ChunkLeft, NextGroups
<1>5. \A s : GroupFresh(s)' = GroupFresh(s)
  BY Zenon, <1>1, <1>3 DEF GroupFresh, Performed
<1>6. ASSUME NEW s \in g_starts,
             GroupNumber(g_starts, s) >= gpos + RoundSize \/ Command(s) \in inflight'
      PROVE  GroupFresh(s)
  <2>1. GroupNumber(g_starts, s) \in Nat
    BY Zenon, <1>1, <1>2, GroupFacts
  <2>2. ASSUME Command(s) \in inflight' PROVE GroupNumber(g_starts, s) >= gpos
    <3>1. PICK t \in NextGroups : Command(s) = Command(t)
      BY Zenon, <2>2, <1>1
    <3>2. t \in g_starts /\ GroupNumber(g_starts, t) \in gpos .. gpos + RoundSize - 1
      BY Zenon DEF NextGroups
    <3>3. s = t
      BY Zenon, <3>1, <3>2, <1>1, <1>2, CommandsDisjoint
    <3> QED BY <3>2, <3>3, <1>2
  <2>3. GroupNumber(g_starts, s) >= gpos
    BY <2>1, <2>2, <1>2, <1>6
  <2> QED BY Zenon, <2>3, <1>1 DEF CommandInv, FreshInv
<1>7. ShapeInv'
  BY Zenon, <1>1, <1>3, <1>4 DEF CommandInv, ShapeInv
<1>8. FreshInv'
  <2>1. \A s \in cons_head' .. prod_tail' - 1 : Performed(Asked(s))' =>
          phase' \in {"submit", "poll", "notify"} /\ s < cons_head' + sh_accumulated'
    BY Zenon, <1>1 DEF CommandInv, FreshInv, Performed, Asked
  <2>2. \A s \in g_starts' :
          GroupNumber(g_starts, s)' >= gpos' + RoundSize' \/ Command(s)' \in inflight'
            => GroupFresh(s)'
    BY Zenon, <1>1, <1>3, <1>4, <1>5, <1>6
  <2> QED BY Zenon, <2>1, <2>2, <1>1 DEF FreshInv
<1>9. RightBufferOnce'
  BY Zenon, <1>1 DEF CommandInv, RightBufferOnce, Asked
<1> QED BY Zenon, <1>7, <1>8, <1>9 DEF CommandInv

\* The rest of the submission, the notification and the advance of cons_head.
LEMMA ServeKeepsCommands ==
  ASSUME IndInv, CommandInv,
         SubmitReturn \/ SubmitDone \/ (\E pos \in RingIdx : Notify(pos)) \/ Advance
  PROVE  CommandInv'
<1>t. /\ CoreInv /\ cons_head \in Nat /\ sh_accumulated \in Nat /\ prod_tail \in Nat
  BY Zenon, DrainTypes DEF IndInv
<1>1. CASE SubmitReturn
  <2>1. /\ phase = "poll" /\ phase' = "submit" /\ gpos' = gpos + RoundSize
        /\ UNCHANGED <<sh_accumulated, gsort, g_vals, g_starts, disk, cons_head, prod_tail, asked>>
    BY Zenon, <1>1 DEF SubmitReturn, GotoPhase, batchVars, ringVars, enqueuing
  <2>2. \A s : GroupOf(s)' = GroupOf(s)
    BY Zenon, <2>1, GroupFrame
  <2>3. \A s : GroupFresh(s)' = GroupFresh(s)
    BY Zenon, <2>1, <2>2 DEF GroupFresh, Performed
  <2>4. ShapeInv'
    BY Zenon, <2>1 DEF CommandInv, ShapeInv
  <2>5. \A s \in cons_head' .. prod_tail' - 1 : Performed(Asked(s))' =>
          phase' \in {"submit", "poll", "notify"} /\ s < cons_head' + sh_accumulated'
    BY Zenon, <2>1 DEF CommandInv, FreshInv, Performed, Asked
  <2>6. \A s \in g_starts' : GroupNumber(g_starts, s)' >= gpos' => GroupFresh(s)'
    BY Zenon, <2>1, <2>3 DEF CommandInv, FreshInv
  <2>7. FreshInv'
    BY Zenon, <2>1, <2>5, <2>6 DEF FreshInv
  <2>8. RightBufferOnce'
    BY Zenon, <2>1 DEF CommandInv, RightBufferOnce, Asked
  <2> QED BY Zenon, <2>4, <2>7, <2>8 DEF CommandInv
<1>2. CASE SubmitDone \/ \E pos \in RingIdx : Notify(pos)
  <2>1. /\ phase \in {"submit", "notify"} /\ phase' = "notify"
        /\ UNCHANGED <<sh_accumulated, g_starts, disk, cons_head, prod_tail, asked>>
    BY Zenon, <1>2 DEF SubmitDone, Notify, GotoPhase, batchVars, mergeVars, ringVars, enqueuing
  <2>2. ShapeInv'
    BY Zenon, <2>1 DEF CommandInv, ShapeInv
  <2>3. FreshInv'
    BY Zenon, <2>1 DEF CommandInv, FreshInv, Performed, Asked
  <2>4. RightBufferOnce'
    BY Zenon, <2>1 DEF CommandInv, RightBufferOnce, Asked
  <2> QED BY Zenon, <2>2, <2>3, <2>4 DEF CommandInv
<1>3. CASE Advance
  <2>1. /\ phase' = "base" /\ cons_head' = cons_head + sh_accumulated
        /\ UNCHANGED <<disk, prod_tail, asked>>
    BY Zenon, <1>3 DEF Advance, GotoPhase, enqueuing
  <2>2. ASSUME NEW s \in cons_head' .. prod_tail - 1 PROVE ~Performed(Asked(s))
    <3>1. s \in cons_head .. prod_tail - 1 /\ ~(s < cons_head + sh_accumulated)
      BY <2>1, <1>t
    <3> QED BY Zenon, <3>1 DEF CommandInv, FreshInv
  <2>3. FreshInv'
    BY Zenon, <2>1, <2>2 DEF FreshInv, Performed, Asked
  <2>4. RightBufferOnce'
    BY Zenon, <2>1 DEF CommandInv, RightBufferOnce, Asked
  <2> QED BY Zenon, <2>1, <2>3, <2>4 DEF CommandInv, ShapeInv
<1> QED BY Zenon, <1>1, <1>2, <1>3

\* A completed command writes each page of one fresh group from the buffer of its
\* request, and no other page.
LEMMA DeviceWrites ==
  ASSUME IndInv, PagesInv, CommandInv, NEW c \in inflight, DeviceComplete(c)
  PROVE  \E s \in NextGroups :
           /\ c = Command(s) /\ GroupFresh(s) /\ phase = "poll" /\ s \in g_starts
           /\ \A pos \in GroupOf(s) :
                disk'[gsort[g_vals[pos]].off] = <<gsort[g_vals[pos]].pe>>
           /\ \A b \in Pages : (\A pos \in GroupOf(s) : gsort[g_vals[pos]].off # b)
                               => disk'[b] = disk[b]
<1>1. CoreInv /\ phase = "poll"
  BY Zenon DEF IndInv, CoreInv, SchedulerInv, SubmitInv
<1>2. PICK s \in NextGroups : c = Command(s)
  BY Zenon, <1>1 DEF CommandInv, ShapeInv
<1>3. s \in g_starts
  BY Zenon DEF NextGroups
<1>4. GroupFresh(s)
  BY Zenon, <1>1, <1>2, <1>3 DEF CommandInv, FreshInv
<1>5. \A b \in Pages : disk'[b] = IF b \in Blocks(c) THEN Append(disk[b], c.prps[b - c.lba])
                                  ELSE disk[b]
  BY Zenon DEF DeviceComplete, Blocks
<1>6. ASSUME NEW pos \in GroupOf(s)
      PROVE  disk'[gsort[g_vals[pos]].off] = <<gsort[g_vals[pos]].pe>>
  <2> DEFINE b == gsort[g_vals[pos]].off
  <2>1. b \in Blocks(c)
    BY Zenon, <1>1, <1>2, <1>3, CommandBlocks
  <2>2. PICK x \in GroupOf(s) : /\ gsort[g_vals[x]].off = b
                               /\ c.prps[b - c.lba] = gsort[g_vals[x]].pe
    BY Zenon, <2>1, <1>1, <1>2, <1>3, CommandBlocks
  <2>3. x = pos
    BY Zenon, <2>2, <1>1, <1>3, GroupsSeparatePages
  <2>4. pos \in Positions(sh_accumulated)
    BY Zenon, <1>1, <1>3, GroupPositions
  <2>5. gsort[g_vals[pos]] \in Request_t
    BY Zenon, <2>4, <1>1, SortedSlot
  <2>6. b \in Pages /\ gsort[g_vals[pos]].pe \in Nat
    BY Zenon, <2>5 DEF Request_t
  <2>7. disk[b] = <<>>
    BY Zenon, <1>4 DEF GroupFresh, Performed
  <2> HIDE DEF b
  <2>8. disk'[b] = Append(<<>>, gsort[g_vals[pos]].pe)
    BY Zenon, <1>5, <2>1, <2>2, <2>3, <2>6, <2>7
  <2>9. \A y \in Nat : Append(<<>>, y) = <<y>>
    OBVIOUS
  <2> QED BY Zenon, <2>6, <2>8, <2>9 DEF b
<1>7. ASSUME NEW b \in Pages, \A pos \in GroupOf(s) : gsort[g_vals[pos]].off # b
      PROVE  disk'[b] = disk[b]
  <2>1. b \notin Blocks(c)
    BY Zenon, <1>1, <1>2, <1>3, <1>7, CommandBlocks
  <2> QED BY Zenon, <2>1, <1>5
<1> QED BY Zenon, <1>1, <1>2, <1>3, <1>4, <1>6, <1>7

\* The groups still to be written stay untouched by a completion.
LEMMA DeviceKeepsCommands ==
  ASSUME IndInv, PagesInv, CommandInv, NEW c \in inflight, DeviceComplete(c)
  PROVE  CommandInv'
<1>1. PICK s \in NextGroups :
        /\ c = Command(s) /\ GroupFresh(s) /\ phase = "poll" /\ s \in g_starts
        /\ \A pos \in GroupOf(s) :
             disk'[gsort[g_vals[pos]].off] = <<gsort[g_vals[pos]].pe>>
        /\ \A b \in Pages : (\A pos \in GroupOf(s) : gsort[g_vals[pos]].off # b)
                            => disk'[b] = disk[b]
  BY Zenon, DeviceWrites
<1>2. /\ inflight' = inflight \ {c}
      /\ UNCHANGED <<phase, sh_accumulated, gsort, g_vals, g_starts, gpos, cons_head, prod_tail,
                     asked>>
  BY Zenon DEF DeviceComplete, batchVars, mergeVars, ringVars, enqueuing
<1>3. /\ CoreInv /\ gpos \in Nat /\ RoundSize \in Nat /\ cons_head \in Nat /\ prod_tail \in Nat
      /\ asked \in Seq(Request_t) /\ Len(asked) = prod_tail
  BY Zenon, <1>1, RoundSizeFacts, DrainTypes DEF IndInv, CoreInv, RingTypeOK
<1>4. /\ \A t : Command(t)' = Command(t)
      /\ \A t : GroupOf(t)' = GroupOf(t)
      /\ \A t : Asked(t)' = Asked(t)
  BY Zenon, <1>2, GroupFrame DEF Asked
<1>5. RoundSize' = RoundSize /\ NextGroups' = NextGroups
  BY Zenon, <1>2 DEF RoundSize, ChunkLeft, NextGroups
<1>s. ASSUME NEW pos \in GroupOf(s)
      PROVE  /\ cons_head + g_vals[pos] \in 0 .. prod_tail - 1
             /\ cons_head + g_vals[pos] < cons_head + sh_accumulated
             /\ gsort[g_vals[pos]] = Asked(cons_head + g_vals[pos])
  <2>1. pos \in Positions(sh_accumulated)
    BY Zenon, <1>1, <1>3, GroupPositions
  <2> QED BY Zenon, <2>1, <1>1, <1>3, SortedSlot
<1>6. ShapeInv'
  BY Zenon, <1>1, <1>2, <1>4, <1>5 DEF CommandInv, ShapeInv
<1>7. ASSUME NEW t \in g_starts,
             GroupNumber(g_starts, t) >= gpos + RoundSize \/ Command(t) \in inflight'
      PROVE  GroupFresh(t)'
  <2>1. t # s
    <3>1. GroupNumber(g_starts, s) \in gpos .. gpos + RoundSize - 1
      BY Zenon DEF NextGroups
    <3>2. ~(GroupNumber(g_starts, s) >= gpos + RoundSize)
      BY <3>1, <1>3
    <3>3. Command(s) \notin inflight'
      BY Zenon, <1>1, <1>2
    <3> QED BY Zenon, <3>2, <3>3, <1>7
  <2>2. GroupFresh(t)
    BY Zenon, <1>1, <1>2, <1>7 DEF CommandInv, FreshInv
  <2>3. ASSUME NEW x \in GroupOf(t)
        PROVE  disk'[gsort[g_vals[x]].off] = <<>>
    <3>1. x \in Positions(sh_accumulated)
      BY Zenon, <1>1, <1>3, GroupPositions
    <3>2. gsort[g_vals[x]].off \in Pages
      BY Zenon, <3>1, <1>1, <1>3, SortedSlot DEF Request_t
    <3>3. \A pos \in GroupOf(s) : gsort[g_vals[pos]].off # gsort[g_vals[x]].off
      BY Zenon, <2>1, <1>1, <1>3, GroupsSeparatePages
    <3>4. disk[gsort[g_vals[x]].off] = <<>>
      BY Zenon, <2>2 DEF GroupFresh, Performed
    <3> QED BY Zenon, <3>2, <3>3, <3>4, <1>1
  <2> QED BY Zenon, <2>3, <1>2, <1>4 DEF GroupFresh, Performed
<1>8. ASSUME NEW x \in cons_head .. prod_tail - 1, disk'[Asked(x).off] # <<>>
      PROVE  x < cons_head + sh_accumulated
  <2>1. x \in 0 .. prod_tail - 1 /\ x + 1 \in 1 .. Len(asked)
    BY <1>3
  <2>2. Asked(x).off \in Pages
    <3>1. Asked(x) \in Request_t
      BY <2>1, <1>3 DEF Asked
    <3> QED BY Zenon, <3>1 DEF Request_t
  <2>3. CASE \E pos \in GroupOf(s) : gsort[g_vals[pos]].off = Asked(x).off
    <3>1. PICK pos \in GroupOf(s) : gsort[g_vals[pos]].off = Asked(x).off
      BY Zenon, <2>3
    <3>2. cons_head + g_vals[pos] = x
      <4>1. \A r, q \in 0 .. prod_tail - 1 : Asked(r).off = Asked(q).off => r = q
        BY Zenon DEF PagesInv
      <4>2. /\ cons_head + g_vals[pos] \in 0 .. prod_tail - 1
            /\ Asked(cons_head + g_vals[pos]).off = Asked(x).off
        BY Zenon, <3>1, <1>s
      <4> QED BY <4>1, <4>2, <2>1, Zenon
    <3> QED BY Zenon, <3>2, <1>s
  <2>4. CASE \A pos \in GroupOf(s) : gsort[g_vals[pos]].off # Asked(x).off
    <3>1. disk[Asked(x).off] # <<>>
      BY Zenon, <2>2, <2>4, <1>1, <1>8
    <3> QED BY Zenon, <3>1 DEF CommandInv, FreshInv, Performed
  <2> QED BY Zenon, <2>3, <2>4
<1>9. FreshInv'
  <2>1. \A x \in cons_head' .. prod_tail' - 1 : Performed(Asked(x))' =>
          phase' \in {"submit", "poll", "notify"} /\ x < cons_head' + sh_accumulated'
    BY Zenon, <1>1, <1>2, <1>4, <1>8 DEF Performed
  <2>2. \A t \in g_starts' :
          GroupNumber(g_starts, t)' >= gpos' + RoundSize' \/ Command(t)' \in inflight'
            => GroupFresh(t)'
    BY Zenon, <1>2, <1>4, <1>5, <1>7
  <2> QED BY Zenon, <2>1, <2>2, <1>1, <1>2 DEF FreshInv
<1>10. RightBufferOnce'
  <2>1. ASSUME NEW b \in Pages
        PROVE  \/ disk'[b] = <<>>
               \/ \E x \in 0 .. prod_tail - 1 : Asked(x).off = b /\ disk'[b] = <<Asked(x).pe>>
    <3>1. CASE \E pos \in GroupOf(s) : gsort[g_vals[pos]].off = b
      <4>1. PICK pos \in GroupOf(s) : gsort[g_vals[pos]].off = b
        BY Zenon, <3>1
      <4> QED BY Zenon, <4>1, <1>1, <1>s
    <3>2. CASE \A pos \in GroupOf(s) : gsort[g_vals[pos]].off # b
      BY <3>2, <1>1 DEF CommandInv, RightBufferOnce
    <3> QED BY Zenon, <3>1, <3>2
  <2> QED BY Zenon, <2>1, <1>2, <1>4 DEF RightBufferOnce
<1> QED BY Zenon, <1>6, <1>9, <1>10 DEF CommandInv

\* Every step keeps CommandInv.
LEMMA NextKeepsCommands ==
  ASSUME IndInv, IndInv', PagesInv, PagesInv', CommandInv, [Next]_vars
  PROVE  CommandInv'
<1>1. ASSUME NEW p \in Producers, WorkerStep(p) PROVE CommandInv'
  <2>1. CASE AwaitOldest(p) \/ ContinueEnqueue(p) \/ FinishEnqueue(p)
    <3>1. UNCHANGED <<schedVars, disk, cons_head, prod_tail, asked>>
      <4>1. CASE AwaitOldest(p)
        BY Zenon, <4>1 DEF AwaitOldest, ringVars, enqueuing
      <4>2. CASE ContinueEnqueue(p)
        BY Zenon, <4>2 DEF ContinueEnqueue, EnqueueStep, LeaveFull, ClearFlag, WriteEntry
      <4>3. CASE FinishEnqueue(p)
        BY Zenon, <4>3 DEF FinishEnqueue, Publish
      <4> QED BY Zenon, <2>1, <4>1, <4>2, <4>3
    <3>2. UNCHANGED <<phase, sh_accumulated, gsort, g_vals, g_starts, gpos, inflight>>
      BY Zenon, <3>1 DEF schedVars, batchVars, mergeVars
    <3> QED BY Zenon, <3>1, <3>2, CommandFrame
  <2> QED BY Zenon, <1>1, <2>1, StartKeepsCommands DEF WorkerStep
<1>2. CASE NextLaunch \/ shutdown_queue \/ UNCHANGED vars
  <2>1. UNCHANGED <<schedVars, disk, cons_head, prod_tail, asked>>
    BY Zenon, <1>2 DEF NextLaunch, shutdown_queue, SetShutdown, vars, ringVars, enqueuing
  <2>2. UNCHANGED <<phase, sh_accumulated, gsort, g_vals, g_starts, gpos, inflight>>
    BY Zenon, <2>1 DEF schedVars, batchVars, mergeVars
  <2> QED BY Zenon, <2>1, <2>2, CommandFrame
<1>3. CASE OpenBatch \/ BoundRound \/ CountReady \/ EndRound \/ EmptyRound \/ WaitProbe
           \/ WaitOver \/ Sort \/ (\E t \in Lanes : LaneCheck(t) \/ LaneDrain(t))
  <2>1. /\ phase \notin {"submit", "poll", "notify"} /\ phase' \notin {"submit", "poll", "notify"}
        /\ UNCHANGED ringVars /\ UNCHANGED disk
    <3>1. CASE OpenBatch \/ BoundRound \/ WaitOver \/ Sort
      BY Zenon, <3>1 DEF OpenBatch, BoundRound, WaitOver, Sort, GotoPhase
    <3>2. CASE CountReady
      BY Zenon, <3>2 DEF CountReady, AfterCount
    <3>3. CASE EndRound \/ EmptyRound
      BY Zenon, <3>3 DEF EndRound, EmptyRound
    <3>4. CASE WaitProbe
      BY Zenon, <3>4 DEF WaitProbe
    <3>5. CASE \E t \in Lanes : LaneCheck(t) \/ LaneDrain(t)
      BY Zenon, <3>5 DEF LaneCheck, LaneDrain
    <3> QED BY Zenon, <1>3, <3>1, <3>2, <3>3, <3>4, <3>5
  <2>2. UNCHANGED <<cons_head, prod_tail, asked>>
    BY Zenon, <2>1 DEF ringVars, enqueuing
  <2> QED BY Zenon, <2>1, <2>2, GatherKeepsCommands
<1>4. CASE ControllerStep
  BY Zenon, <1>4, DeviceKeepsCommands DEF ControllerStep, DeviceStep
<1>5. CASE SchedulerStep
  BY Zenon, <1>5, <1>3, MergeKeepsCommands, SubmitKeepsCommands, ServeKeepsCommands
     DEF SchedulerStep, SchedStep
<1> QED BY Zenon, <1>1, <1>2, <1>4, <1>5 DEF Next, Terminated

\* At the start nothing is written and nothing is asked for.
LEMMA CommandInit == Init => CommandInv
<1> SUFFICES ASSUME Init PROVE CommandInv
  BY Zenon
<1>1. /\ phase = "base" /\ prod_tail = 0 /\ cons_head = 0
      /\ disk = [b \in Pages |-> <<>>]
  BY Zenon DEF Init, RingInit, SchedInit
<1> QED BY <1>1 DEF CommandInv, ShapeInv, FreshInv, RightBufferOnce

\* The requests of a run are for distinct pages.
LEMMA PagesInit == Init => PagesInv
BY DEF Init, RingInit, PagesInv

\* A round has at most KneeLimit commands: they have different group numbers.
LEMMA RoundWithinKnee ==
  ASSUME IndInv, CommandInv
  PROVE  Cardinality(inflight) <= KneeLimit
<1>k. KneeLimit \in Nat
  BY Zenon, SchedAssumption
<1>1. CASE inflight = {}
  BY <1>1, <1>k, FS_EmptySet
<1>2. CASE inflight # {}
  <2>1. CoreInv /\ phase = "poll"
    BY Zenon, <1>2 DEF IndInv, CoreInv, SchedulerInv, SubmitInv
  <2>2. /\ gpos \in Nat /\ RoundSize \in Nat /\ RoundSize <= KneeLimit
        /\ sh_accumulated \in Nat /\ g_starts \in SUBSET Positions(sh_accumulated)
    <3>1. gpos \in Nat /\ RoundSize \in Nat
      BY Zenon, <2>1, RoundSizeFacts
    <3>2. RoundSize <= KneeLimit
      <4> DEFINE m == Min2(ChunkLeft, Cardinality(g_starts) - gpos)
      <4>1. RoundSize = Min2(KneeLimit, m)
        BY Zenon DEF RoundSize
      <4> HIDE DEF m
      <4> QED BY <4>1, <3>1, <1>k DEF Min2
    <3> QED BY Zenon, <3>1, <3>2, <2>1, GroupFacts, DrainTypes
  <2> DEFINE start(c) == CHOOSE s \in NextGroups : c = Command(s)
             f == [c \in inflight |-> GroupNumber(g_starts, start(c)) - gpos]
  <2>3. ASSUME NEW c \in inflight
        PROVE  /\ start(c) \in g_starts /\ c = Command(start(c))
               /\ GroupNumber(g_starts, start(c)) \in gpos .. gpos + RoundSize - 1
    <3>1. \E s \in NextGroups : c = Command(s)
      BY Zenon, <2>1 DEF CommandInv, ShapeInv
    <3>2. start(c) \in NextGroups /\ c = Command(start(c))
      BY Zenon, <3>1
    <3> HIDE DEF start
    <3> QED BY Zenon, <3>2 DEF NextGroups
  <2> HIDE DEF start
  <2>4. f \in Injection(inflight, 0 .. KneeLimit - 1)
    <3>1. \A c \in inflight : f[c] = GroupNumber(g_starts, start(c)) - gpos
      BY Zenon
    <3>2. \A c \in inflight : GroupNumber(g_starts, start(c)) - gpos \in 0 .. KneeLimit - 1
      BY <2>2, <2>3, <1>k
    <3>3. f \in [inflight -> 0 .. KneeLimit - 1]
      BY Zenon, <3>2
    <3>4. ASSUME NEW c \in inflight, NEW d \in inflight, f[c] = f[d]
          PROVE  c = d
      <4>1. GroupNumber(g_starts, start(c)) = GroupNumber(g_starts, start(d))
        BY <3>1, <3>4, <2>2, <2>3
      <4>2. start(c) = start(d)
        BY Zenon, <4>1, <2>2, <2>3, GroupNumberOrder
      <4> QED BY Zenon, <4>2, <2>3
    <3> HIDE DEF f
    <3> QED BY Zenon, <3>3, <3>4 DEF Injection, IsInjective
  <2> HIDE DEF f
  <2>5. IsFiniteSet(0 .. KneeLimit - 1) /\ Cardinality(0 .. KneeLimit - 1) = KneeLimit
    BY Zenon, <1>k, IntervalSize
  <2>6. Cardinality(inflight) <= Cardinality(0 .. KneeLimit - 1)
    BY Zenon, <2>4, <2>5, FS_Injection
  <2> QED BY Zenon, <2>5, <2>6
<1> QED BY Zenon, <1>1, <1>2

---------------------------------------------------------------------------
(* Answers *)

\* A step that changes no completion number and notifies nothing.
LEMMA AnswersFrame ==
  ASSUME AnswersInv, UNCHANGED <<done_seq, cons_head>>,
         phase' = "notify" => /\ phase = "notify"
                              /\ UNCHANGED <<to_notify, g_vals, sh_accumulated>>
  PROVE  AnswersInv'
BY Zenon DEF AnswersInv

\* Two slots of a batch have different ring indices.
LEMMA NotifyFacts ==
  ASSUME CoreInv, phase = "notify", NEW pos \in Positions(sh_accumulated)
  PROVE  LET slot == cons_head + g_vals[pos] IN
         /\ sh_base_head = cons_head
         /\ slot \in cons_head .. prod_tail - 1 /\ slot \in Nat /\ Idx(slot) \in RingIdx
         /\ Performed(Asked(slot))
         /\ \A s \in Nat : s < cons_head + sh_accumulated /\ Idx(s) = Idx(slot) => s <= slot
         /\ \A s \in Nat : s < slot /\ Idx(s) = Idx(slot) => s < cons_head
<1> DEFINE slot == cons_head + g_vals[pos]
<1>t. /\ cons_head \in Nat /\ prod_tail \in Nat /\ Capacity \in Nat
      /\ sh_accumulated \in 0 .. Capacity
  BY Zenon, DrainTypes
<1>1. /\ g_vals[pos] \in 0 .. sh_accumulated - 1
      /\ slot \in cons_head .. prod_tail - 1 /\ slot < cons_head + sh_accumulated
      /\ gsort[g_vals[pos]] = Asked(slot)
  BY Zenon, SortedSlot
<1>2. Performed(Asked(slot))
  BY Zenon, <1>1 DEF CoreInv, SchedulerInv, ServedBeforeNotified
<1>3. sh_base_head = cons_head
  BY Zenon DEF CoreInv, SchedulerInv, BatchIsAsked
<1> HIDE DEF slot
<1>4. slot \in Nat /\ Idx(slot) \in RingIdx
  BY <1>1, <1>t, IdxType
<1>5. ASSUME NEW s \in Nat, s < cons_head + sh_accumulated, Idx(s) = Idx(slot)
      PROVE  s <= slot
  <2>1. slot < s => slot + Capacity <= s
    BY Zenon, <1>4, <1>5, IdxLap
  <2> QED BY <2>1, <1>1, <1>4, <1>5, <1>t
<1>6. ASSUME NEW s \in Nat, s < slot, Idx(s) = Idx(slot)
      PROVE  s < cons_head
  <2>1. s + Capacity <= slot
    BY Zenon, <1>4, <1>6, IdxLap
  <2> QED BY <2>1, <1>1, <1>4, <1>6, <1>t
<1> QED BY Zenon, <1>1, <1>2, <1>3, <1>4, <1>5, <1>6 DEF slot

\* A notification raises one completion number to its own slot.
LEMMA NotifyEffect ==
  ASSUME IndInv, NEW x \in RingIdx, Notify(x)
  PROVE  LET slot == cons_head + g_vals[x] IN
         /\ phase = "notify" /\ x \in Positions(sh_accumulated)
         /\ to_notify' = to_notify \ {x}
         /\ done_seq'[Idx(slot)] = slot + 1
         /\ \A y \in RingIdx : y # Idx(slot) => done_seq'[y] = done_seq[y]
         /\ UNCHANGED <<phase, prod_tail, cons_head, asked, sh_accumulated, g_vals, disk>>
<1>1. CoreInv /\ done_seq \in [RingIdx -> Nat]
  BY Zenon DEF IndInv, CoreInv, RingTypeOK
<1>2. /\ phase = "notify" /\ x \in to_notify /\ to_notify' = to_notify \ {x}
      /\ done_seq' = [done_seq EXCEPT ![Idx(sh_base_head + g_vals[x])] = sh_base_head + g_vals[x] + 1]
      /\ UNCHANGED <<phase, prod_tail, cons_head, asked, sh_accumulated, g_vals, disk>>
  BY Zenon DEF Notify, NotifyTurn, enqueuing, batchVars, mergeVars
<1>3. x \in Positions(sh_accumulated)
  BY Zenon, <1>1, <1>2 DEF CoreInv, SchedulerInv, DoneSeqInv
<1> DEFINE slot == cons_head + g_vals[x]
<1>4. sh_base_head = cons_head /\ Idx(slot) \in RingIdx
  BY Zenon, <1>1, <1>2, <1>3, NotifyFacts
<1>5. done_seq' = [done_seq EXCEPT ![Idx(slot)] = slot + 1]
  BY Zenon, <1>2, <1>4
<1> HIDE DEF slot
<1>6. /\ done_seq'[Idx(slot)] = slot + 1
      /\ \A y \in RingIdx : y # Idx(slot) => done_seq'[y] = done_seq[y]
  BY Zenon, <1>1, <1>4, <1>5
<1> QED BY Zenon, <1>2, <1>3, <1>6 DEF slot

\* A notification answers its slot and takes back no other answer.
LEMMA NotifyKeepsAnswers ==
  ASSUME IndInv, AnswersInv, NEW x \in RingIdx, Notify(x)
  PROVE  AnswersInv'
<1> DEFINE slot == cons_head + g_vals[x]
<1>1. /\ phase = "notify" /\ x \in Positions(sh_accumulated)
      /\ to_notify' = to_notify \ {x}
      /\ done_seq'[Idx(slot)] = slot + 1
      /\ \A y \in RingIdx : y # Idx(slot) => done_seq'[y] = done_seq[y]
      /\ UNCHANGED <<phase, cons_head, sh_accumulated, g_vals>>
  BY Zenon, NotifyEffect
<1>t. CoreInv /\ cons_head \in Nat /\ sh_accumulated \in Nat /\ prod_tail \in Nat
  BY Zenon, DrainTypes DEF IndInv
<1>2. /\ slot \in Nat /\ slot \in cons_head .. prod_tail - 1
      /\ \A s \in Nat : s < cons_head + sh_accumulated /\ Idx(s) = Idx(slot) => s <= slot
  BY <1>1, <1>t, NotifyFacts, Zenon
<1> HIDE DEF slot
<1>3. ASSUME NEW s \in Nat, s < cons_head + sh_accumulated,
             done_seq[Idx(s)] >= s + 1 \/ s = slot
      PROVE  done_seq'[Idx(s)] >= s + 1
  <2>1. Idx(s) \in RingIdx
    BY Zenon, IdxType
  <2>2. CASE Idx(s) = Idx(slot)
    BY <2>2, <1>1, <1>2, <1>3
  <2>3. CASE Idx(s) # Idx(slot)
    BY Zenon, <2>1, <2>3, <1>1, <1>3
  <2> QED BY Zenon, <2>2, <2>3
<1>4. \A s \in 0 .. cons_head - 1 : done_seq'[Idx(s)] >= s + 1
  BY <1>3, <1>t DEF AnswersInv
<1>5. ASSUME NEW y \in Positions(sh_accumulated) \ to_notify'
      PROVE  done_seq'[Idx(cons_head + g_vals[y])] >= cons_head + g_vals[y] + 1
  <2> DEFINE s == cons_head + g_vals[y]
  <2>1. s \in Nat /\ s < cons_head + sh_accumulated
    BY <1>1, <1>t, SortedSlot
  <2>2. done_seq[Idx(s)] >= s + 1 \/ s = slot
    BY Zenon, <1>1 DEF AnswersInv, slot
  <2> HIDE DEF s
  <2>3. done_seq'[Idx(s)] >= s + 1
    BY Zenon, <2>1, <2>2, <1>3
  <2> QED BY Zenon, <2>3 DEF s
<1> QED BY Zenon, <1>1, <1>4, <1>5 DEF AnswersInv

\* cons_head passes a batch only when all of it has been answered.
LEMMA AdvanceKeepsAnswers ==
  ASSUME IndInv, AnswersInv, Advance
  PROVE  AnswersInv'
<1>1. /\ phase = "notify" /\ phase' = "base" /\ to_notify = {}
      /\ cons_head' = cons_head + sh_accumulated /\ UNCHANGED done_seq
  BY Zenon DEF Advance, GotoPhase, memory
<1>t. CoreInv /\ cons_head \in Nat /\ sh_accumulated \in Nat
  BY Zenon, DrainTypes DEF IndInv
<1>2. ASSUME NEW s \in 0 .. cons_head' - 1 PROVE done_seq[Idx(s)] >= s + 1
  <2>1. CASE s < cons_head
    BY <2>1, <1>t DEF AnswersInv
  <2>2. CASE s >= cons_head
    <3>1. s - cons_head \in Positions(sh_accumulated) /\ cons_head + (s - cons_head) = s
      BY <2>2, <1>1, <1>t DEF Positions
    <3>2. PICK x \in Positions(sh_accumulated) : g_vals[x] = s - cons_head
      BY Zenon, <3>1, <1>1, <1>t, SortedFacts
    <3>3. done_seq[Idx(cons_head + g_vals[x])] >= cons_head + g_vals[x] + 1
      BY Zenon, <1>1 DEF AnswersInv
    <3>4. cons_head + g_vals[x] = s
      BY Zenon, <3>1, <3>2
    <3> QED BY Zenon, <3>3, <3>4
  <2> QED BY <2>1, <2>2, <1>1, <1>t
<1> QED BY Zenon, <1>1, <1>2 DEF AnswersInv

\* Every step keeps AnswersInv.
LEMMA NextKeepsAnswers ==
  ASSUME IndInv, AnswersInv, [Next]_vars
  PROVE  AnswersInv'
<1>1. ASSUME NEW p \in Producers, WorkerStep(p) PROVE AnswersInv'
  <2>1. UNCHANGED <<schedVars, done_seq, cons_head>>
    <3>1. CASE AwaitOldest(p)
      BY Zenon, <3>1 DEF AwaitOldest, ringVars, memory
    <3>2. CASE StartEnqueue(p)
      BY Zenon, <3>2 DEF StartEnqueue, ClaimSlot, memory
    <3>3. CASE ContinueEnqueue(p)
      BY Zenon, <3>3 DEF ContinueEnqueue, EnqueueStep, LeaveFull, ClearFlag, WriteEntry, memory
    <3>4. CASE FinishEnqueue(p)
      BY Zenon, <3>4 DEF FinishEnqueue, Publish
    <3> QED BY Zenon, <1>1, <3>1, <3>2, <3>3, <3>4 DEF WorkerStep
  <2>2. UNCHANGED <<phase, to_notify, g_vals, sh_accumulated>>
    BY Zenon, <2>1 DEF schedVars, batchVars, mergeVars
  <2> QED BY Zenon, <2>1, <2>2, AnswersFrame
<1>2. CASE NextLaunch \/ shutdown_queue \/ UNCHANGED vars
  <2>1. UNCHANGED <<schedVars, done_seq, cons_head>>
    BY Zenon, <1>2 DEF NextLaunch, shutdown_queue, SetShutdown, vars, ringVars, memory
  <2>2. UNCHANGED <<phase, to_notify, g_vals, sh_accumulated>>
    BY Zenon, <2>1 DEF schedVars, batchVars, mergeVars
  <2> QED BY Zenon, <2>1, <2>2, AnswersFrame
<1>3. CASE Gather \/ EmptyRound
  <2>1. UNCHANGED ringVars /\ phase' # "notify"
    BY Zenon, <1>3, GatherFrame DEF EmptyRound
  <2>2. UNCHANGED <<done_seq, cons_head>>
    BY Zenon, <2>1 DEF ringVars, memory
  <2> QED BY Zenon, <2>1, <2>2, AnswersFrame
<1>4. CASE DeviceStep
  <2>1. phase' = phase /\ UNCHANGED <<done_seq, cons_head, to_notify, g_vals, sh_accumulated>>
    BY Zenon, <1>4 DEF DeviceStep, DeviceComplete, ringVars, memory, batchVars, mergeVars
  <2> QED BY Zenon, <2>1, AnswersFrame
<1>5. CASE SubmitDone
  <2>1. /\ phase' = "notify" /\ to_notify' = Positions(sh_accumulated)
        /\ UNCHANGED <<done_seq, cons_head, sh_accumulated>>
    BY Zenon, <1>5 DEF SubmitDone, GotoPhase, ringVars, memory, batchVars
  <2> QED BY Zenon, <2>1 DEF AnswersInv
<1>6. CASE SchedulerStep \/ ControllerStep
  BY Zenon, <1>3, <1>4, <1>5, <1>6, NotifyKeepsAnswers, AdvanceKeepsAnswers
     DEF SchedulerStep, ControllerStep, SchedStep, Gather
<1> QED BY Zenon, <1>1, <1>2, <1>6 DEF Next, Terminated

---------------------------------------------------------------------------
(* The steps of the service *)

\* What no client sees is a stuttering step of the service.
LEMMA ServiceStutter ==
  ASSUME UNCHANGED <<asked, disk, prod_tail, done_seq, retired>>,
         phase' = "exit" <=> phase = "exit"
  PROVE  UNCHANGED Service!service
<1>1. Answered' = Answered
  BY Zenon DEF Answered
<1>2. (phase = "exit")' = (phase = "exit")
  BY Zenon
<1> QED BY Zenon, <1>1, <1>2 DEF Service!service

\* The numbers of the service are the claimed slots.
LEMMA ServiceNumbers ==
  ASSUME IndInv
  PROVE  /\ Service!Numbers = 0 .. prod_tail - 1
         /\ \A i : Service!Req(i) = Asked(i)
         /\ Service!Waiting = {i \in 0 .. prod_tail - 1 : ~Performed(Asked(i))}
<1>1. Len(asked) = prod_tail
  BY Zenon DEF IndInv, CoreInv, RingTypeOK
<1>2. Service!Numbers = 0 .. prod_tail - 1
  BY Zenon, <1>1 DEF Service!Numbers
<1>3. \A i : Service!Req(i) = Asked(i)
  BY Zenon DEF Service!Req, Asked
<1> QED BY Zenon, <1>2, <1>3 DEF Service!Waiting, Performed

\* The wait of a worker returns an answered request that had not returned.
LEMMA AwaitReturns ==
  ASSUME IndInv, NoWrap, WindowInv, NEW p \in Producers, AwaitOldest(p)
  PROVE  Service!Return
<1> DEFINE ticket == slots[p][head[p]]
<1>1. /\ pending[p] > 0 /\ DoneSeqReached(ticket)
      /\ retired' = retired \cup {ticket}
      /\ UNCHANGED <<asked, disk, prod_tail, done_seq, phase>>
  BY Zenon DEF AwaitOldest, MustWait, ringVars, memory, enqueuing, schedVars
<1>t. /\ head[p] \in 0 .. Window - 1 /\ pending[p] \in 0 .. Window /\ Window \in Nat
      /\ prod_tail \in Nat /\ done_seq \in [RingIdx -> Nat] /\ SeqMod \in Nat
  <2>0. CoreInv /\ WorkerTypeOK
    BY Zenon DEF IndInv
  <2>1. head[p] \in 0 .. Window - 1 /\ pending[p] \in 0 .. Window
    BY Zenon, <2>0, FunctionAt DEF WorkerTypeOK
  <2>2. prod_tail \in Nat /\ done_seq \in [RingIdx -> Nat]
    BY Zenon, <2>0 DEF CoreInv, RingTypeOK
  <2> QED BY Zenon, <2>1, <2>2, RunConstants, SeqModAssumption
<1>2. head[p] \in Outstanding(p)
  BY <1>1, <1>t DEF Outstanding, WindowFrom
<1>3. ticket \in (0 .. prod_tail - 1) \ retired
  BY Zenon, <1>2 DEF WindowInv
<1> HIDE DEF ticket
<1>4. ticket \in Answered
  <2>1. ticket \in Nat /\ Idx(ticket) \in RingIdx
    BY SMTT(20), <1>3, <1>t, IdxType
  <2>2. ticket + 1 \in 0 .. SeqMod - 1
    BY SMTT(20), <1>3, <1>t DEF NoWrap
  <2>3. done_seq[Idx(ticket)] \in 0 .. SeqMod - 1
    BY <2>1, <1>t DEF NoWrap, IndInv, CoreInv, SchedulerInv, DoneSeqInv
  <2>4. done_seq[Idx(ticket)] >= ticket + 1
    BY Zenon, <1>1, <2>2, <2>3, U32Small DEF DoneSeqReached
  <2> QED BY Zenon, <2>4, <1>3 DEF Answered
<1>5. Answered' = Answered
  BY Zenon, <1>1 DEF Answered
<1>6. (phase = "exit")' = (phase = "exit")
  BY Zenon, <1>1
<1> QED BY Zenon, <1>1, <1>3, <1>4, <1>5, <1>6 DEF Service!Return

\* A claimed slot is an accepted request: the service is open and has not answered it.
LEMMA StartAccepts ==
  ASSUME IndInv, ExitInv, NEW p \in Producers, StartEnqueue(p)
  PROVE  Service!Accept
<1>1. /\ iter[p] < Count /\ asked' = Append(asked, Request(p)) /\ prod_tail' = prod_tail + 1
      /\ UNCHANGED <<disk, done_seq, retired, phase>>
  BY Zenon DEF StartEnqueue, ClaimSlot, memory, schedVars, clientVars, workerVars
<1>t. /\ WorkerTypeOK /\ prod_tail \in Nat /\ done_seq \in [RingIdx -> Nat]
  BY Zenon DEF IndInv, CoreInv, RingTypeOK
<1>2. phase # "exit"
  BY Zenon, EndedStopsWorkers DEF ExitInv, WorkerStep
<1>3. Request(p) \in [off : Pages, pe : 0 .. Workers * Window - 1]
  <2>1. Request(p).off \in Pages
    BY Zenon, <1>1, <1>t, RequestType DEF Request_t
  <2>2. p * Window + NextWindowPos(p) \in 0 .. Workers * Window - 1
    <3> DEFINE w == NextWindowPos(p)
    <3>1. w \in 0 .. Window - 1
      BY Zenon, <1>t, NextPosType
    <3> HIDE DEF w
    <3>2. Window \in Nat \ {0} /\ Workers \in Nat /\ p \in 0 .. Workers - 1
      BY Zenon, RunConstants
    <3>3. Window * p + Window <= Window * Workers
      BY <3>2, MulStep
    <3>4. /\ Window * p = p * Window /\ Window * Workers = Workers * Window
          /\ p * Window \in Nat /\ Workers * Window \in Nat
      BY <3>2
    <3>5. p * Window + w \in 0 .. Workers * Window - 1
      BY SMTT(20), <3>1, <3>2, <3>3, <3>4
    <3> QED BY Zenon, <3>5 DEF w
  <2>3. Request(p) = [off |-> Request(p).off, pe |-> p * Window + NextWindowPos(p)]
    BY Zenon DEF Request
  <2> QED BY SMTT(20), <2>1, <2>2, <2>3
<1>4. Answered' = Answered
  <2>1. Idx(prod_tail) \in RingIdx
    BY Zenon, <1>t, IdxType
  <2>2. done_seq[Idx(prod_tail)] <= prod_tail /\ done_seq[Idx(prod_tail)] \in Nat
    BY Zenon, <2>1, <1>t DEF IndInv, CoreInv, SchedulerInv, DoneSeqInv
  <2>3. ~(done_seq[Idx(prod_tail)] >= prod_tail + 1)
    BY <2>2, <1>t
  <2>4. 0 .. prod_tail' - 1 = (0 .. prod_tail - 1) \cup {prod_tail}
    BY <1>1, <1>t
  <2> QED BY Zenon, <2>3, <2>4, <1>1 DEF Answered
<1>5. (phase = "exit")' = (phase = "exit")
  BY Zenon, <1>1
<1> QED BY Zenon, <1>1, <1>2, <1>3, <1>4, <1>5 DEF Service!Accept

\* A notification answers one performed request.
LEMMA NotifyAnswers ==
  ASSUME IndInv, AnswersInv, NEW x \in RingIdx, Notify(x), UNCHANGED clientVars
  PROVE  Service!Answer \/ UNCHANGED Service!service
<1> DEFINE slot == cons_head + g_vals[x]
<1>1. /\ phase = "notify" /\ x \in Positions(sh_accumulated)
      /\ done_seq'[Idx(slot)] = slot + 1
      /\ \A y \in RingIdx : y # Idx(slot) => done_seq'[y] = done_seq[y]
      /\ UNCHANGED <<phase, prod_tail, cons_head, asked, disk>>
  BY Zenon, NotifyEffect
<1>t. CoreInv /\ cons_head \in Nat /\ sh_accumulated \in Nat /\ prod_tail \in Nat
  BY Zenon, DrainTypes DEF IndInv
<1>2. /\ slot \in cons_head .. prod_tail - 1 /\ slot \in Nat /\ Performed(Asked(slot))
      /\ \A s \in Nat : s < cons_head + sh_accumulated /\ Idx(s) = Idx(slot) => s <= slot
      /\ \A s \in Nat : s < slot /\ Idx(s) = Idx(slot) => s < cons_head
  BY <1>1, <1>t, NotifyFacts, Zenon
<1> HIDE DEF slot
<1>3. ASSUME NEW s \in 0 .. prod_tail - 1
      PROVE  done_seq'[Idx(s)] >= s + 1 <=> (done_seq[Idx(s)] >= s + 1 \/ s = slot)
  <2>1. s \in Nat /\ Idx(s) \in RingIdx
    BY <1>t, IdxType
  <2>2. CASE Idx(s) # Idx(slot)
    BY Zenon, <2>1, <2>2, <1>1
  <2>3. CASE Idx(s) = Idx(slot) /\ s < slot
    <3>1. s \in 0 .. cons_head - 1
      BY <2>1, <2>3, <1>2, <1>t
    <3>2. done_seq[Idx(s)] >= s + 1
      BY Zenon, <3>1 DEF AnswersInv
    <3> QED BY SMTT(20), <2>1, <2>3, <3>2, <1>1, <1>2
  <2>4. CASE s = slot
    BY <2>4, <1>1, <1>2
  <2>5. CASE Idx(s) = Idx(slot) /\ s > slot
    <3>1. ~(s < cons_head + sh_accumulated)
      BY <2>1, <2>5, <1>2
    <3>2. ~(done_seq[Idx(s)] >= s + 1)
      BY <3>1, <2>1, <1>t DEF CoreInv, SchedulerInv, DoneSeqInv, Announced
    <3> QED BY SMTT(20), <2>1, <2>5, <3>2, <1>1, <1>2
  <2> QED BY SMTT(20), <2>1, <2>2, <2>3, <2>4, <2>5, <1>2
<1>4. Answered' = Answered \cup {slot}
  <2>1. slot \in 0 .. prod_tail - 1
    BY <1>2, <1>t
  <2> QED BY Zenon, <2>1, <1>1, <1>3 DEF Answered
<1>5. retired' = retired
  BY Zenon DEF clientVars, workerVars
<1>6. (phase = "exit")' = (phase = "exit")
  BY Zenon, <1>1
<1>7. slot \in Service!Numbers \ Service!Waiting
  <2>1. slot \in 0 .. prod_tail - 1
    BY <1>2, <1>t
  <2> QED BY Zenon, <2>1, <1>2, ServiceNumbers
<1>8. CASE slot \in Answered
  <2>1. Answered' = Answered
    BY Zenon, <1>4, <1>8
  <2> QED BY Zenon, <2>1, <1>1, <1>5, <1>6 DEF Service!service
<1>9. CASE slot \notin Answered
  <2>1. slot \in Service!Numbers \ (Answered \cup Service!Waiting)
    BY Zenon, <1>7, <1>9
  <2> QED BY Zenon, <2>1, <1>1, <1>4, <1>5, <1>6 DEF Service!Answer
<1> QED BY Zenon, <1>8, <1>9

\* The scheduler leaves when no caller is left waiting.
LEMMA EmptyCloses ==
  ASSUME IndInv, WindowInv, ExitInv, EmptyRound, UNCHANGED clientVars
  PROVE  Service!Close \/ UNCHANGED Service!service
<1>1. /\ phase = "empty" /\ (phase' = "exit" => shutdown)
      /\ UNCHANGED <<asked, disk, prod_tail, done_seq, retired>>
  BY Zenon DEF EmptyRound, ringVars, memory, enqueuing, clientVars, workerVars
<1>2. CASE phase' # "exit"
  BY Zenon, <1>1, <1>2, ServiceStutter
<1>3. CASE phase' = "exit"
  <2>1. shutdown
    BY Zenon, <1>1, <1>3
  <2>2. ASSUME NEW p \in Producers, NEW s PROVE ~Holds(p, s)
    <3>1. ~Enqueuing(p) /\ pending[p] = 0
      BY Zenon, <2>1, EndedStopsWorkers DEF ExitInv
    <3>2. head[p] \in Nat /\ Window \in Nat
      BY RunConstants DEF IndInv, WorkerTypeOK
    <3>3. Outstanding(p) = {}
      BY <3>1, <3>2 DEF Outstanding, WindowFrom
    <3> QED BY Zenon, <3>1, <3>3 DEF Holds
  <2>3. 0 .. prod_tail - 1 \subseteq retired
    BY Zenon, <2>2 DEF WindowInv
  <2>4. retired \subseteq 0 .. prod_tail - 1
    <3>1. prod_tail \in Nat /\ retired \subseteq Nat /\ \A s \in retired : s < prod_tail
      BY Zenon DEF IndInv, CoreInv, RingTypeOK, WorkerTypeOK, RetiredInv
    <3> QED BY <3>1
  <2>5. retired = Service!Numbers
    BY Zenon, <2>3, <2>4, ServiceNumbers
  <2>6. Answered' = Answered
    BY Zenon, <1>1 DEF Answered
  <2>7. (phase = "exit") = FALSE /\ (phase = "exit")' = TRUE
    BY Zenon, <1>1, <1>3
  <2> QED BY Zenon, <1>1, <2>5, <2>6, <2>7 DEF Service!Close
<1> QED BY Zenon, <1>2, <1>3

=============================================================================
