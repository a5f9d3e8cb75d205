---------------------------- MODULE CacheProofs ----------------------------
(***************************************************************************)
(* BUSY and the slot locks of the page cache keep every slot, every page   *)
(* and every buffer with one owner, for every number of pages, slots,      *)
(* victim entries and threads, and for every setup and plan.               *)
(***************************************************************************)
EXTENDS PageCache, FiniteSetTheorems, TLAPS

(* Plans and locals *)

\* Every access of a plan is to a page of the range.
LEMMA PlanFacts ==
  ASSUME StoreTypeOK, ThreadTypeOK, NEW t \in Threads
  PROVE  /\ Len(Plan(t)) \in Nat
         /\ \A i \in 1 .. Len(Plan(t)) : Plan(t)[i].page \in Pages /\ Plan(t)[i].lanes \in Nat
         /\ th[t].n \in Nat /\ th[t].n <= Len(Plan(t))
         /\ th[t].n > 0 => Page(t) \in Pages /\ Access(t).lanes \in Nat
<1> DEFINE Access_t == [page : Pages, lanes : Nat, dirty : BOOLEAN, store : BOOLEAN,
                        mark : BOOLEAN]
<1>1. Plan(t) \in Seq(Access_t)
  BY Zenon, PlanAssumption DEF StoreTypeOK, Plan, Pages
<1>2. Len(Plan(t)) \in Nat
  BY <1>1
<1>3. ASSUME NEW i \in 1 .. Len(Plan(t))
      PROVE  Plan(t)[i].page \in Pages /\ Plan(t)[i].lanes \in Nat
  <2> HIDE DEF Access_t
  <2>1. Plan(t)[i] \in Access_t
    BY <1>1
  <2> QED BY Zenon, <2>1 DEF Access_t
<1>4. th[t].n \in Nat /\ th[t].n <= Len(Plan(t))
  BY <1>2 DEF ThreadTypeOK
<1> QED BY <1>2, <1>3, <1>4 DEF Page, Access

\* A thread's label and locals are its own.
LEMMA ResumeFacts ==
  ASSUME ThreadTypeOK, NEW t \in Threads, NEW l, NEW n, NEW st, NEW s, NEW e,
         Resume(t, l, n, st, s, e)
  PROVE  /\ th'[t].pc = l /\ th'[t].n = n /\ th'[t].slot = s /\ th'[t].entry = e
         /\ \A u \in Threads \ {t} : th'[u] = th[u]
<1>1. DOMAIN th = Threads
  BY Zenon DEF ThreadTypeOK
<1> QED BY Zenon, <1>1 DEF Resume

\* A thread that takes a slot, or keeps its own, keeps its locals in their types.
LEMMA ResumeTypes ==
  ASSUME ThreadTypeOK, NEW t \in Threads, NEW l, NEW n, NEW st, NEW s, NEW e,
         Resume(t, l, n, st, s, e), setup' = setup,
         n \in 0 .. Len(Plan(t)), l # "next" => n > 0,
         s \in Slots, l = "exchange" => e \in Victims
  PROVE  ThreadTypeOK'
<1> DEFINE r == [pc |-> l, n |-> n, st |-> st, slot |-> s, entry |-> e]
<1>1. th = [u \in Threads |-> [pc |-> th[u].pc, n |-> th[u].n, st |-> th[u].st,
                              slot |-> th[u].slot, entry |-> th[u].entry]]
  BY Zenon DEF ThreadTypeOK
<1>2. th'[t] = r /\ (\A u \in Threads \ {t} : th'[u] = th[u]) /\ th' = [u \in Threads |-> th'[u]]
  BY Zenon, <1>1 DEF Resume
<1>3. ASSUME NEW u \in Threads
      PROVE  th'[u] = [pc |-> th'[u].pc, n |-> th'[u].n, st |-> th'[u].st,
                       slot |-> th'[u].slot, entry |-> th'[u].entry]
  <2>1. CASE u = t
    BY Zenon, <2>1, <1>2
  <2>2. CASE u # t
    BY Zenon, <2>2, <1>1, <1>2
  <2> QED BY Zenon, <2>1, <2>2
<1>4. th' = [u \in Threads |-> [pc |-> th'[u].pc, n |-> th'[u].n, st |-> th'[u].st,
                              slot |-> th'[u].slot, entry |-> th'[u].entry]]
  BY Zenon, <1>2, <1>3
<1>5. ASSUME NEW u \in Threads
      PROVE  /\ th'[u].n \in 0 .. Len(Plan(u)') /\ th'[u].slot \in Slots
             /\ th'[u].pc # "next" => th'[u].n > 0
             /\ th'[u].pc = "exchange" => th'[u].entry \in Victims
  <2>1. Plan(u)' = Plan(u)
    BY Zenon DEF Plan
  <2>2. CASE u = t
    BY <2>1, <2>2, <1>2
  <2>3. CASE u # t
    BY Zenon, <2>1, <2>3, <1>2 DEF ThreadTypeOK
  <2> QED BY Zenon, <2>2, <2>3
<1> QED BY Zenon, <1>4, <1>5 DEF ThreadTypeOK

\* Going to a label is resuming there with the same locals.
LEMMA GotoResumes ==
  ASSUME ThreadTypeOK, NEW t \in Threads, NEW label, Goto(t, label)
  PROVE  Resume(t, label, th[t].n, th[t].st, th[t].slot, th[t].entry)
<1>1. th = [u \in Threads |-> [pc |-> th[u].pc, n |-> th[u].n, st |-> th[u].st,
                              slot |-> th[u].slot, entry |-> th[u].entry]]
  BY Zenon DEF ThreadTypeOK
<1>2. th' = [th EXCEPT ![t] = [th[t] EXCEPT !.pc = label]]
  BY Zenon DEF Goto
<1>3. [th[t] EXCEPT !.pc = label]
        = [pc |-> label, n |-> th[t].n, st |-> th[t].st, slot |-> th[t].slot,
           entry |-> th[t].entry]
  BY <1>1
<1> QED BY Zenon, <1>2, <1>3 DEF Resume
---------------------------------------------------------------------------
(* Steps by what they do to the owners *)

Roles == {Looking, Evicting, Filling, {"find"}, {"assign"}, {"unbusy"}}

\* Thread u owns what it owned before.
KeepsRole(u) ==
  /\ \A R \in Roles : (th'[u].pc \in R) = (th[u].pc \in R)
  /\ (\E R \in Roles : th[u].pc \in R) => th'[u].slot = th[u].slot /\ th'[u].n = th[u].n

KeepsFlags == \A p \in Pages : state'[p].v = state[p].v /\ state'[p].b = state[p].b

\* The slot a thread has locked is in use.
LEMMA EvictedPage ==
  ASSUME ThreadTypeOK, OwnInv, NEW t \in Threads, LocksSlot(t)
  PROVE  Previous(t) \in Pages /\ th[t].slot \in Slots /\ take_lock[th[t].slot] = "LOCKED"
BY Zenon DEF ThreadTypeOK, OwnInv, LocksInv, SlotsInv, Previous

\* Who fills, empties or owns a slot stays as it is.
LEMMA SlotsKept ==
  ASSUME StoreTypeOK, ThreadTypeOK, OwnInv, UNCHANGED <<offset, translation>>,
         \A s \in Slots : (take_lock'[s] = "FREE") = (take_lock[s] = "FREE"),
         \A p \in Pages : state'[p].v = state[p].v,
         \A u \in Threads :
           /\ \A s \in Slots : Fills(u, s)' <=> Fills(u, s)
           /\ (th'[u].pc = "assign") = (th[u].pc = "assign")
           /\ th[u].pc \in {"assign"} \cup Filling =>
                th'[u].slot = th[u].slot /\ Page(u)' = Page(u)
  PROVE  SlotsInv'
<1>1. \A u \in Threads, s \in Slots :
        Fills(u, s)' => translation'[s] = Page(u)' /\ take_lock'[s] # "FREE"
  BY DEF OwnInv, SlotsInv, Fills
<1>2. ASSUME NEW u \in Threads, th'[u].pc = "assign"
      PROVE  /\ \A w \in Threads : ~Fills(w, th[u].slot)'
             /\ \A p \in Pages : state'[p].v => offset'[p] # th'[u].slot
  <2>1. th[u].pc = "assign" /\ th'[u].slot = th[u].slot /\ th[u].slot \in Slots
    BY Zenon, <1>2 DEF ThreadTypeOK
  <2> QED BY <2>1 DEF OwnInv, SlotsInv
<1>3. \A s \in Slots : take_lock'[s] # "FREE" =>
        \/ \E u \in Threads : th'[u].pc = "assign" /\ th'[u].slot = s
        \/ \E u \in Threads : Fills(u, s)'
        \/ \E p \in Pages : state'[p].v /\ offset'[p] = s
  BY DEF OwnInv, SlotsInv
<1>4. /\ \A s \in Slots : take_lock'[s] # "FREE" => translation'[s] \in Pages
      /\ \A p \in Pages : state'[p].v =>
           translation'[offset'[p]] = p /\ take_lock'[offset'[p]] # "FREE"
  BY Zenon DEF OwnInv, SlotsInv, StoreTypeOK
<1> QED BY Zenon, <1>1, <1>2, <1>3, <1>4 DEF SlotsInv

\* BUSY stays with its owners, what they load or evict stays as valid as it was.
LEMMA BusyFrom ==
  ASSUME OwnInv,
         \A u \in Threads, p \in Pages : HoldsBusy(u, p)' => HoldsBusy(u, p) /\ state'[p].b,
         \A u \in Threads : Loads(u)' => ~state'[Page(u)'].v,
         \A u \in Threads : th'[u].pc \in Evicting => state'[Previous(u)'].v
  PROVE  BusyInv'
BY Zenon DEF OwnInv, BusyInv

\* Steps that change neither owners nor what they own.
LEMMA RolesKept ==
  ASSUME StoreTypeOK, ThreadTypeOK, OwnInv, setup' = setup,
         UNCHANGED <<offset, take_lock, translation>>,
         KeepsFlags, \A u \in Threads : KeepsRole(u)
  PROVE  OwnInv'
<1>1. ASSUME NEW u \in Threads
      PROVE  /\ (th'[u].pc \in Looking) = (th[u].pc \in Looking)
             /\ (th'[u].pc \in Evicting) = (th[u].pc \in Evicting)
             /\ (th'[u].pc \in Filling) = (th[u].pc \in Filling)
             /\ (th'[u].pc = "find") = (th[u].pc = "find")
             /\ (th'[u].pc = "assign") = (th[u].pc = "assign")
             /\ (th'[u].pc = "unbusy") = (th[u].pc = "unbusy")
  <2>1. KeepsRole(u)
    BY Zenon
  <2> QED BY Zenon, <2>1 DEF KeepsRole, Roles
<1>2. ASSUME NEW u \in Threads
      PROVE  /\ LocksSlot(u)' = LocksSlot(u) /\ Loads(u)' = Loads(u)
             /\ LocksSlot(u) \/ th[u].pc \in Filling => th'[u].slot = th[u].slot
             /\ Loads(u) \/ th[u].pc = "unbusy" => Page(u)' = Page(u)
             /\ th[u].pc \in Evicting => Previous(u)' = Previous(u)
             /\ \A s \in Slots : Fills(u, s)' <=> Fills(u, s)
             /\ \A p \in Pages : HoldsBusy(u, p)' = HoldsBusy(u, p)
  <2>1. LocksSlot(u)' = LocksSlot(u) /\ Loads(u)' = Loads(u)
    BY <1>1 DEF LocksSlot, Loads
  <2>2. LocksSlot(u) \/ Loads(u) \/ th[u].pc = "unbusy" \/ th[u].pc \in Filling =>
          th'[u].slot = th[u].slot /\ th'[u].n = th[u].n
    <3>1. KeepsRole(u)
      BY Zenon
    <3> QED BY Zenon, <3>1 DEF KeepsRole, Roles, LocksSlot, Loads
  <2>3. th'[u].n = th[u].n => Page(u)' = Page(u)
    BY Zenon DEF Page, Access, Plan
  <2>4. th[u].pc \in Evicting => LocksSlot(u)
    BY Zenon DEF LocksSlot
  <2>5. th'[u].slot = th[u].slot => Previous(u)' = Previous(u)
    BY Zenon DEF Previous
  <2>6. \A s \in Slots : Fills(u, s)' <=> Fills(u, s)
    BY Zenon, <1>1, <2>2 DEF Fills
  <2>7. \A p \in Pages : HoldsBusy(u, p)' = HoldsBusy(u, p)
    BY Zenon, <1>1, <2>1, <2>2, <2>3, <2>4, <2>5 DEF HoldsBusy
  <2> QED BY Zenon, <2>1, <2>2, <2>3, <2>4, <2>5, <2>6, <2>7
<1>3. LocksInv'
  BY Zenon, <1>2 DEF OwnInv, LocksInv
<1>4. BusyInv'
  <2>1. \A u \in Threads : Loads(u) => Page(u) \in Pages
    <3>1. ASSUME NEW u \in Threads, Loads(u) PROVE th[u].pc # "next"
      BY Zenon, <3>1 DEF Loads, Looking, Evicting, Filling
    <3>2. ASSUME NEW u \in Threads, Loads(u) PROVE th[u].n > 0
      BY Zenon, <3>1, <3>2 DEF ThreadTypeOK
    <3> QED BY Zenon, <3>2, PlanFacts
  <2>2. \A u \in Threads : th[u].pc \in Evicting => Previous(u) \in Pages
    BY Zenon, EvictedPage DEF LocksSlot
  <2> QED BY Zenon, <1>1, <1>2, <2>1, <2>2 DEF OwnInv, BusyInv, KeepsFlags
<1>5. SlotsInv'
  BY Zenon, <1>1, <1>2, SlotsKept DEF KeepsFlags, LocksSlot, Loads
<1> QED BY Zenon, <1>3, <1>4, <1>5 DEF OwnInv

\* Only thread t moves, in the same access.
OnlyMoves(t) ==
  /\ setup' = setup
  /\ th'[t].n = th[t].n
  /\ \A u \in Threads \ {t} : th'[u] = th[u]

\* A step of t leaves the roles of the other threads alone.
LEMMA OtherThread ==
  ASSUME NEW t \in Threads, OnlyMoves(t), NEW u \in Threads
  PROVE  /\ Page(u)' = Page(u)
         /\ u # t => /\ th'[u] = th[u]
                     /\ LocksSlot(u)' = LocksSlot(u) /\ Loads(u)' = Loads(u)
                     /\ \A s : Fills(u, s)' = Fills(u, s)
                     /\ translation'[th[u].slot] = translation[th[u].slot] =>
                          /\ Previous(u)' = Previous(u)
                          /\ \A p : HoldsBusy(u, p)' = HoldsBusy(u, p)
<1>1. Page(u)' = Page(u)
  BY Zenon DEF OnlyMoves, Page, Access, Plan
<1>2. ASSUME u # t PROVE th'[u] = th[u]
  BY Zenon, <1>2 DEF OnlyMoves
<1> QED BY Zenon, <1>1, <1>2 DEF LocksSlot, Loads, Fills, Previous, HoldsBusy

\* A thread that loads a page is in an access.
LEMMA LoadedPage ==
  ASSUME StoreTypeOK, ThreadTypeOK, NEW t \in Threads, th[t].pc # "next"
  PROVE  Page(t) \in Pages
<1>1. th[t].n > 0
  BY Zenon DEF ThreadTypeOK
<1> QED BY Zenon, <1>1, PlanFacts

---------------------------------------------------------------------------
(* BUSY of the page a thread wants *)

\* The thread that finds BUSY clear becomes its only owner.
LEMMA SetBusyKeepsOwners ==
  ASSUME StoreTypeOK, ThreadTypeOK, OwnInv, NEW t \in Threads, OnlyMoves(t),
         th[t].pc = "check", ~state[Page(t)].b,
         th'[t].pc = IF state[Page(t)].v THEN "unbusy" ELSE "find",
         UNCHANGED <<offset, take_lock, translation>>,
         \A p \in Pages : /\ state'[p].v = state[p].v
                          /\ p # Page(t) => state'[p].b = state[p].b,
         state'[Page(t)].b
  PROVE  OwnInv'
<1>1. /\ ~LocksSlot(t) /\ ~Loads(t) /\ ~LocksSlot(t)' /\ \A s : ~Fills(t, s) /\ ~Fills(t, s)'
      /\ th'[t].pc \notin Evicting /\ th'[t].pc # "assign"
  BY Zenon DEF LocksSlot, Loads, Fills, Looking, Evicting, Filling
<1>2. Page(t)' = Page(t) /\ Page(t) \in Pages
  BY Zenon, OtherThread, LoadedPage
<1>3. \A u \in Threads \ {t} :
        /\ th'[u] = th[u] /\ LocksSlot(u)' = LocksSlot(u) /\ Loads(u)' = Loads(u)
        /\ Page(u)' = Page(u) /\ Previous(u)' = Previous(u)
        /\ \A s : Fills(u, s)' = Fills(u, s)
        /\ \A p : HoldsBusy(u, p)' = HoldsBusy(u, p)
  BY Zenon, OtherThread
<1>4. LocksInv'
  BY <1>1, <1>3 DEF OwnInv, LocksInv
<1>5. BusyInv'
  <2>1. \A p \in Pages : HoldsBusy(t, p)' => p = Page(t)
    BY Zenon, <1>1, <1>2 DEF HoldsBusy
  <2>2. \A u \in Threads, p \in Pages : HoldsBusy(u, p) => state[p].b
    BY Zenon DEF OwnInv, BusyInv
  <2>3. \A u \in Threads, p \in Pages : HoldsBusy(u, p)' => state'[p].b
    BY ZenonT(40), <1>3, <2>1, <2>2
  <2>4. \A u, w \in Threads, p \in Pages : HoldsBusy(u, p)' /\ HoldsBusy(w, p)' => u = w
    BY <1>3, <2>1, <2>2 DEF OwnInv, BusyInv
  <2>5. ASSUME NEW u \in Threads, Loads(u)' PROVE ~state'[Page(u)'].v
    <3>1. CASE u = t
      BY Zenon, <3>1, <2>5, <1>2 DEF Loads, Looking, Evicting, Filling
    <3>2. CASE u # t
      <4>1. Loads(u) /\ Page(u)' = Page(u) /\ Page(u) \in Pages
        BY Zenon, <3>2, <2>5, <1>3, LoadedPage DEF Loads, Looking, Evicting, Filling
      <4> QED BY Zenon, <4>1 DEF OwnInv, BusyInv
    <3> QED BY Zenon, <3>1, <3>2
  <2>6. ASSUME NEW u \in Threads, th'[u].pc \in Evicting PROVE state'[Previous(u)'].v
    <3>1. u # t /\ th[u].pc \in Evicting /\ Previous(u)' = Previous(u) /\ Previous(u) \in Pages
      BY Zenon, <2>6, <1>1, <1>3, EvictedPage DEF LocksSlot
    <3> QED BY Zenon, <3>1 DEF OwnInv, BusyInv
  <2> QED BY Zenon, <2>3, <2>4, <2>5, <2>6 DEF BusyInv
<1>6. SlotsInv'
  <2>1. ASSUME NEW u \in Threads
        PROVE  /\ \A s \in Slots : Fills(u, s)' <=> Fills(u, s)
               /\ (th'[u].pc = "assign") = (th[u].pc = "assign")
               /\ th[u].pc \in {"assign"} \cup Filling =>
                    th'[u].slot = th[u].slot /\ Page(u)' = Page(u)
    BY ZenonT(40), <1>1, <1>3 DEF Filling
  <2> QED BY Zenon, <2>1, SlotsKept
<1> QED BY Zenon, <1>4, <1>5, <1>6 DEF OwnInv

\* The owner of BUSY, having found the page valid, gives BUSY back.
LEMMA ClearBusyKeepsOwners ==
  ASSUME StoreTypeOK, ThreadTypeOK, OwnInv, NEW t \in Threads, OnlyMoves(t),
         th[t].pc = "unbusy", th'[t].pc = "check",
         UNCHANGED <<offset, take_lock, translation>>,
         \A p \in Pages : /\ state'[p].v = state[p].v
                          /\ p # Page(t) => state'[p].b = state[p].b
  PROVE  OwnInv'
<1>1. /\ ~LocksSlot(t) /\ ~LocksSlot(t)' /\ ~Loads(t)'
      /\ \A s : ~Fills(t, s) /\ ~Fills(t, s)'
      /\ th'[t].pc \notin Evicting /\ HoldsBusy(t, Page(t)) /\ \A p : ~HoldsBusy(t, p)'
  BY Zenon DEF LocksSlot, Loads, Fills, HoldsBusy, Looking, Evicting, Filling
<1>2. Page(t) \in Pages
  BY Zenon, LoadedPage
<1>3. \A u \in Threads \ {t} :
        /\ th'[u] = th[u] /\ LocksSlot(u)' = LocksSlot(u) /\ Loads(u)' = Loads(u)
        /\ Page(u)' = Page(u) /\ Previous(u)' = Previous(u)
        /\ \A s : Fills(u, s)' = Fills(u, s)
        /\ \A p : HoldsBusy(u, p)' = HoldsBusy(u, p)
  BY Zenon, OtherThread
<1>4. LocksInv'
  BY <1>1, <1>3 DEF OwnInv, LocksInv
<1>5. BusyInv'
  <2>1. \A u \in Threads, p \in Pages : HoldsBusy(u, p)' => u # t /\ HoldsBusy(u, p)
    BY Zenon, <1>1, <1>3
  <2>2. \A u \in Threads, p \in Pages : HoldsBusy(u, p)' => state'[p].b
    BY <2>1, <1>1, <1>2 DEF OwnInv, BusyInv
  <2>3. \A u, w \in Threads, p \in Pages : HoldsBusy(u, p)' /\ HoldsBusy(w, p)' => u = w
    BY Zenon, <2>1 DEF OwnInv, BusyInv
  <2>4. ASSUME NEW u \in Threads, Loads(u)' PROVE ~state'[Page(u)'].v
    <3>1. u # t /\ Loads(u) /\ Page(u)' = Page(u) /\ Page(u) \in Pages
      BY Zenon, <2>4, <1>1, <1>3, LoadedPage DEF Loads, Looking, Evicting, Filling
    <3> QED BY Zenon, <3>1 DEF OwnInv, BusyInv
  <2>5. ASSUME NEW u \in Threads, th'[u].pc \in Evicting PROVE state'[Previous(u)'].v
    <3>1. u # t /\ th[u].pc \in Evicting /\ Previous(u)' = Previous(u) /\ Previous(u) \in Pages
      BY Zenon, <2>5, <1>1, <1>3, EvictedPage DEF LocksSlot
    <3> QED BY Zenon, <3>1 DEF OwnInv, BusyInv
  <2> QED BY Zenon, <2>2, <2>3, <2>4, <2>5 DEF BusyInv
<1>6. SlotsInv'
  <2>1. ASSUME NEW u \in Threads
        PROVE  /\ \A s \in Slots : Fills(u, s)' <=> Fills(u, s)
               /\ (th'[u].pc = "assign") = (th[u].pc = "assign")
               /\ th[u].pc \in {"assign"} \cup Filling =>
                    th'[u].slot = th[u].slot /\ Page(u)' = Page(u)
    BY Zenon, <1>1, <1>3 DEF Filling
  <2> QED BY Zenon, <2>1, SlotsKept
<1> QED BY Zenon, <1>4, <1>5, <1>6 DEF OwnInv

---------------------------------------------------------------------------
(* The clock hand *)

\* A free slot is taken for the page at once.
LEMMA TakeFreeKeepsOwners ==
  ASSUME StoreTypeOK, ThreadTypeOK, OwnInv, NEW t \in Threads, OnlyMoves(t), NEW s \in Slots,
         th[t].pc = "find", th'[t].pc = "read", th'[t].slot = s, take_lock[s] = "FREE",
         take_lock' = [take_lock EXCEPT ![s] = "UNLOCKED"],
         translation' = [translation EXCEPT ![s] = Page(t)],
         UNCHANGED <<state, offset>>
  PROVE  OwnInv'
<1>1. /\ ~LocksSlot(t) /\ Loads(t) /\ ~LocksSlot(t)' /\ Loads(t)'
      /\ \A r : ~Fills(t, r) /\ (Fills(t, r)' <=> r = s)
      /\ th'[t].pc \notin Evicting /\ th[t].pc \notin Evicting
  BY Zenon DEF LocksSlot, Loads, Fills, Looking, Evicting, Filling
<1>2. Page(t)' = Page(t) /\ Page(t) \in Pages
  BY Zenon, OtherThread, LoadedPage
<1>3. /\ take_lock'[s] = "UNLOCKED" /\ translation'[s] = Page(t)
      /\ \A r \in Slots \ {s} : take_lock'[r] = take_lock[r] /\ translation'[r] = translation[r]
  BY Zenon DEF StoreTypeOK
<1>4. \A u \in Threads : LocksSlot(u) => th[u].slot \in Slots \ {s}
  BY Zenon, EvictedPage
<1>5. \A u \in Threads \ {t} :
        /\ th'[u] = th[u] /\ LocksSlot(u)' = LocksSlot(u) /\ Loads(u)' = Loads(u)
        /\ Page(u)' = Page(u)
        /\ \A r : Fills(u, r)' = Fills(u, r)
        /\ LocksSlot(u) => Previous(u)' = Previous(u)
  BY Zenon, <1>3, <1>4, OtherThread
<1>6. LocksInv'
  BY <1>1, <1>3, <1>4, <1>5 DEF OwnInv, LocksInv
<1>7. BusyInv'
  <2>1. \A u \in Threads, p \in Pages : HoldsBusy(u, p)' <=> HoldsBusy(u, p)
    BY Zenon, <1>1, <1>2, <1>5 DEF HoldsBusy, LocksSlot
  <2>2. \A u \in Threads : Loads(u)' => Loads(u) /\ Page(u)' = Page(u)
    BY Zenon, <1>1, <1>2, <1>5
  <2>3. \A u \in Threads : th'[u].pc \in Evicting =>
          th[u].pc \in Evicting /\ Previous(u)' = Previous(u)
    BY Zenon, <1>1, <1>5 DEF LocksSlot
  <2> QED BY Zenon, <2>1, <2>2, <2>3 DEF OwnInv, BusyInv
<1>8. SlotsInv'
  <2>1. \A r \in Slots : take_lock'[r] # "FREE" => translation'[r] \in Pages
    BY <1>2, <1>3 DEF OwnInv, SlotsInv
  <2>2. \A u \in Threads, r \in Slots :
          Fills(u, r)' => translation'[r] = Page(u)' /\ take_lock'[r] # "FREE"
    BY <1>1, <1>2, <1>3, <1>5 DEF OwnInv, SlotsInv
  <2>3. \A p \in Pages : state'[p].v =>
          translation'[offset'[p]] = p /\ take_lock'[offset'[p]] # "FREE"
    BY <1>3 DEF OwnInv, SlotsInv, StoreTypeOK
  <2>4. ASSUME NEW u \in Threads, th'[u].pc = "assign"
        PROVE  /\ \A w \in Threads : ~Fills(w, th[u].slot)'
               /\ \A p \in Pages : state'[p].v => offset'[p] # th'[u].slot
    <3>1. u # t /\ th[u].pc = "assign" /\ th'[u] = th[u] /\ th[u].slot \in Slots \ {s}
      BY Zenon, <2>4, <1>4, <1>5 DEF LocksSlot
    <3>2. \A w \in Threads : ~Fills(w, th[u].slot)'
      BY <3>1, <1>1, <1>5 DEF OwnInv, SlotsInv
    <3> QED BY <3>1, <3>2 DEF OwnInv, SlotsInv
  <2>5. ASSUME NEW r \in Slots, take_lock'[r] # "FREE"
        PROVE  \/ \E u \in Threads : th'[u].pc = "assign" /\ th'[u].slot = r
               \/ \E u \in Threads : Fills(u, r)'
               \/ \E p \in Pages : state'[p].v /\ offset'[p] = r
    <3>1. CASE r = s
      BY Zenon, <3>1, <1>1
    <3>2. CASE r # s
      BY <3>2, <2>5, <1>1, <1>3, <1>5 DEF OwnInv, SlotsInv
    <3> QED BY Zenon, <3>1, <3>2
  <2> QED BY Zenon, <2>1, <2>2, <2>3, <2>4, <2>5 DEF SlotsInv
<1> QED BY Zenon, <1>6, <1>7, <1>8 DEF OwnInv

\* A slot in use is locked for inspection.
LEMMA TakeUnlockedKeepsOwners ==
  ASSUME StoreTypeOK, ThreadTypeOK, OwnInv, NEW t \in Threads, OnlyMoves(t), NEW s \in Slots,
         th[t].pc = "find", th'[t].pc = "inspect", th'[t].slot = s, take_lock[s] = "UNLOCKED",
         take_lock' = [take_lock EXCEPT ![s] = "LOCKED"],
         UNCHANGED <<state, offset, translation>>
  PROVE  OwnInv'
<1>1. /\ Loads(t) /\ ~LocksSlot(t) /\ LocksSlot(t)' /\ \A r : ~Fills(t, r) /\ ~Fills(t, r)'
      /\ th'[t].pc \notin Evicting /\ th[t].pc \notin Evicting \cup Filling
  BY Zenon DEF LocksSlot, Loads, Fills, Looking, Evicting, Filling
<1>2. Page(t)' = Page(t) /\ Page(t) \in Pages
  BY Zenon, OtherThread, LoadedPage
<1>3. take_lock'[s] = "LOCKED" /\ \A r \in Slots \ {s} : take_lock'[r] = take_lock[r]
  BY Zenon DEF StoreTypeOK
<1>4. \A u \in Threads : LocksSlot(u) => th[u].slot \in Slots \ {s}
  BY Zenon, EvictedPage
<1>5. \A u \in Threads \ {t} :
        /\ th'[u] = th[u] /\ LocksSlot(u)' = LocksSlot(u) /\ Loads(u)' = Loads(u)
        /\ Page(u)' = Page(u) /\ Previous(u)' = Previous(u)
        /\ \A r : Fills(u, r)' = Fills(u, r)
        /\ \A p : HoldsBusy(u, p)' = HoldsBusy(u, p)
  BY Zenon, OtherThread
<1>6. LocksInv'
  BY <1>1, <1>3, <1>4, <1>5 DEF OwnInv, LocksInv
<1>7. BusyInv'
  <2>1. \A u \in Threads, p \in Pages : HoldsBusy(u, p)' => HoldsBusy(u, p) /\ state[p].b
    BY <1>1, <1>2, <1>5 DEF HoldsBusy, OwnInv, BusyInv
  <2> QED BY Zenon, <2>1, <1>1, <1>2, <1>5, BusyFrom DEF OwnInv, BusyInv
<1>8. SlotsInv'
  <2>1. ASSUME NEW u \in Threads
        PROVE  /\ \A r \in Slots : Fills(u, r)' <=> Fills(u, r)
               /\ (th'[u].pc = "assign") = (th[u].pc = "assign")
               /\ th[u].pc \in {"assign"} \cup Filling =>
                    th'[u].slot = th[u].slot /\ Page(u)' = Page(u)
    BY Zenon, <1>1, <1>5
  <2> QED BY Zenon, <2>1, <1>3, SlotsKept
<1> QED BY Zenon, <1>6, <1>7, <1>8 DEF OwnInv

\* The slot of a pinned or busy page is unlocked again.
LEMMA GiveUpKeepsOwners ==
  ASSUME StoreTypeOK, ThreadTypeOK, OwnInv, NEW t \in Threads, OnlyMoves(t),
         th[t].pc = "give_up", th'[t].pc = "find",
         take_lock' = [take_lock EXCEPT ![th[t].slot] = "UNLOCKED"],
         UNCHANGED <<state, offset, translation>>
  PROVE  OwnInv'
<1>1. /\ Loads(t) /\ LocksSlot(t) /\ ~LocksSlot(t)' /\ \A r : ~Fills(t, r) /\ ~Fills(t, r)'
      /\ th'[t].pc \notin Evicting /\ th[t].pc \notin Evicting \cup Filling
  BY Zenon DEF LocksSlot, Loads, Fills, Looking, Evicting, Filling
<1>2. Page(t)' = Page(t) /\ Page(t) \in Pages
  BY Zenon, OtherThread, LoadedPage
<1>3. /\ take_lock[th[t].slot] = "LOCKED" /\ take_lock'[th[t].slot] = "UNLOCKED"
      /\ \A r \in Slots \ {th[t].slot} : take_lock'[r] = take_lock[r]
  BY Zenon, <1>1, EvictedPage DEF StoreTypeOK
<1>4. \A u \in Threads \ {t} : LocksSlot(u) => th[u].slot \in Slots \ {th[t].slot}
  BY Zenon, <1>1, EvictedPage DEF OwnInv, LocksInv
<1>5. \A u \in Threads \ {t} :
        /\ th'[u] = th[u] /\ LocksSlot(u)' = LocksSlot(u) /\ Loads(u)' = Loads(u)
        /\ Page(u)' = Page(u) /\ Previous(u)' = Previous(u)
        /\ \A r : Fills(u, r)' = Fills(u, r)
        /\ \A p : HoldsBusy(u, p)' = HoldsBusy(u, p)
  BY Zenon, OtherThread
<1>6. LocksInv'
  BY <1>1, <1>3, <1>4, <1>5 DEF OwnInv, LocksInv
<1>7. BusyInv'
  <2>1. \A u \in Threads, p \in Pages : HoldsBusy(u, p)' => HoldsBusy(u, p) /\ state[p].b
    BY <1>1, <1>2, <1>5 DEF HoldsBusy, OwnInv, BusyInv
  <2> QED BY Zenon, <2>1, <1>1, <1>2, <1>5, BusyFrom DEF OwnInv, BusyInv
<1>8. SlotsInv'
  <2>1. ASSUME NEW u \in Threads
        PROVE  /\ \A r \in Slots : Fills(u, r)' <=> Fills(u, r)
               /\ (th'[u].pc = "assign") = (th[u].pc = "assign")
               /\ th[u].pc \in {"assign"} \cup Filling =>
                    th'[u].slot = th[u].slot /\ Page(u)' = Page(u)
    BY Zenon, <1>1, <1>5
  <2> QED BY Zenon, <2>1, <1>3, SlotsKept
<1> QED BY Zenon, <1>6, <1>7, <1>8 DEF OwnInv

\* A locked slot whose page is not being loaded holds that page.
LEMMA LockedSlotHolds ==
  ASSUME StoreTypeOK, ThreadTypeOK, OwnInv, NEW t \in Threads, LocksSlot(t),
         th[t].pc # "assign", \A u \in Threads : ~Fills(u, th[t].slot)
  PROVE  state[Previous(t)].v /\ offset[Previous(t)] = th[t].slot
<1>1. Previous(t) \in Pages /\ th[t].slot \in Slots /\ take_lock[th[t].slot] = "LOCKED"
  BY Zenon, EvictedPage
<1>2. ~\E u \in Threads : th[u].pc = "assign" /\ th[u].slot = th[t].slot
  BY Zenon DEF OwnInv, LocksInv, LocksSlot
<1>3. PICK p \in Pages : state[p].v /\ offset[p] = th[t].slot
  BY Zenon, <1>1, <1>2 DEF OwnInv, SlotsInv
<1> QED BY ZenonT(40), <1>3 DEF OwnInv, SlotsInv, Previous

\* A slot is filled with the page of a thread that holds its BUSY.
LEMMA FilledPage ==
  ASSUME StoreTypeOK, ThreadTypeOK, OwnInv, NEW u \in Threads, NEW s \in Slots, Fills(u, s)
  PROVE  /\ Loads(u) /\ translation[s] = Page(u) /\ Page(u) \in Pages
         /\ state[Page(u)].b /\ ~state[Page(u)].v
<1>1. Loads(u) /\ th[u].pc # "next"
  BY Zenon DEF Fills, Loads, Filling
<1>2. Page(u) \in Pages /\ HoldsBusy(u, Page(u))
  BY Zenon, <1>1, LoadedPage DEF HoldsBusy
<1> QED BY Zenon, <1>1, <1>2 DEF OwnInv, BusyInv, SlotsInv

---------------------------------------------------------------------------
(* Eviction and loading *)

\* The page of the locked slot was neither pinned nor busy: evict it.
LEMMA ClaimKeepsOwners ==
  ASSUME StoreTypeOK, ThreadTypeOK, OwnInv, NEW t \in Threads, OnlyMoves(t),
         th[t].pc = "claim", th'[t].pc \in Evicting, th'[t].slot = th[t].slot,
         UNCHANGED <<offset, take_lock, translation>>, ~state[Previous(t)].b,
         \A p \in Pages : /\ state'[p].v = state[p].v
                          /\ p # Previous(t) => state'[p].b = state[p].b,
         state'[Previous(t)].b
  PROVE  OwnInv'
<1>1. /\ Loads(t) /\ LocksSlot(t) /\ LocksSlot(t)' /\ \A r : ~Fills(t, r) /\ ~Fills(t, r)'
      /\ th[t].pc \notin Evicting \cup Filling
      /\ th'[t].pc # "assign"
  BY Zenon DEF LocksSlot, Loads, Fills, Looking, Evicting, Filling
<1>2. /\ Page(t)' = Page(t) /\ Page(t) \in Pages /\ Previous(t)' = Previous(t)
      /\ Previous(t) \in Pages /\ th[t].slot \in Slots
  BY Zenon, <1>1, OtherThread, LoadedPage, EvictedPage DEF Previous
<1>3. \A u \in Threads \ {t} :
        /\ th'[u] = th[u] /\ LocksSlot(u)' = LocksSlot(u) /\ Loads(u)' = Loads(u)
        /\ Page(u)' = Page(u) /\ Previous(u)' = Previous(u)
        /\ \A r : Fills(u, r)' = Fills(u, r)
        /\ \A p : HoldsBusy(u, p)' = HoldsBusy(u, p)
  BY Zenon, OtherThread
<1>4. \A u \in Threads : ~Fills(u, th[t].slot)
  BY Zenon, <1>2, FilledPage DEF Previous
<1>5. state[Previous(t)].v
  BY Zenon, <1>1, <1>4, LockedSlotHolds
<1>6. LocksInv'
  BY <1>1, <1>3 DEF OwnInv, LocksInv
<1>7. BusyInv'
  <2>1. \A p \in Pages : HoldsBusy(t, p)' => p = Previous(t) \/ HoldsBusy(t, p)
    BY Zenon, <1>1, <1>2 DEF HoldsBusy
  <2>2. \A u \in Threads, p \in Pages : HoldsBusy(u, p) => state[p].b /\ p # Previous(t)
    BY Zenon DEF OwnInv, BusyInv
  <2>3. \A u \in Threads, p \in Pages : HoldsBusy(u, p)' => state'[p].b
    BY ZenonT(40), <1>3, <2>1, <2>2
  <2>4. \A u, w \in Threads, p \in Pages : HoldsBusy(u, p)' /\ HoldsBusy(w, p)' => u = w
    BY <1>3, <2>1, <2>2 DEF OwnInv, BusyInv
  <2>5. ASSUME NEW u \in Threads, Loads(u)' PROVE ~state'[Page(u)'].v
    <3>1. Loads(u) /\ Page(u)' = Page(u) /\ Page(u) \in Pages
      BY Zenon, <2>5, <1>1, <1>2, <1>3, LoadedPage DEF Loads, Looking, Evicting, Filling
    <3> QED BY <3>1 DEF OwnInv, BusyInv
  <2>6. ASSUME NEW u \in Threads, th'[u].pc \in Evicting PROVE state'[Previous(u)'].v
    <3>1. CASE u = t
      BY Zenon, <3>1, <1>2, <1>5
    <3>2. CASE u # t
      <4>1. th[u].pc \in Evicting /\ Previous(u)' = Previous(u) /\ Previous(u) \in Pages
        BY Zenon, <3>2, <2>6, <1>3, EvictedPage DEF LocksSlot
      <4> QED BY Zenon, <4>1 DEF OwnInv, BusyInv
    <3> QED BY Zenon, <3>1, <3>2
  <2> QED BY Zenon, <2>3, <2>4, <2>5, <2>6 DEF BusyInv
<1>8. SlotsInv'
  <2>1. ASSUME NEW u \in Threads
        PROVE  /\ \A r \in Slots : Fills(u, r)' <=> Fills(u, r)
               /\ (th'[u].pc = "assign") = (th[u].pc = "assign")
               /\ th[u].pc \in {"assign"} \cup Filling =>
                    th'[u].slot = th[u].slot /\ Page(u)' = Page(u)
    BY ZenonT(40), <1>1, <1>3
  <2> QED BY Zenon, <2>1, SlotsKept
<1> QED BY Zenon, <1>6, <1>7, <1>8 DEF OwnInv

\* It was pinned meanwhile: clear BUSY again.
LEMMA UnclaimKeepsOwners ==
  ASSUME StoreTypeOK, ThreadTypeOK, OwnInv, NEW t \in Threads, OnlyMoves(t),
         th[t].pc = "unclaim", th'[t].pc = "give_up", th'[t].slot = th[t].slot,
         UNCHANGED <<offset, take_lock, translation>>,
         \A p \in Pages : /\ state'[p].v = state[p].v
                          /\ p # Previous(t) => state'[p].b = state[p].b
  PROVE  OwnInv'
<1>1. /\ Loads(t) /\ LocksSlot(t) /\ LocksSlot(t)' /\ \A r : ~Fills(t, r) /\ ~Fills(t, r)'
      /\ th'[t].pc \notin Evicting /\ th[t].pc \in Evicting /\ th[t].pc \notin Filling
  BY Zenon DEF LocksSlot, Loads, Fills, Looking, Evicting, Filling
<1>2. /\ Page(t)' = Page(t) /\ Page(t) \in Pages
      /\ Previous(t) \in Pages /\ HoldsBusy(t, Previous(t)) /\ HoldsBusy(t, Page(t))
  BY Zenon, <1>1, OtherThread, LoadedPage, EvictedPage DEF HoldsBusy
<1>3. \A u \in Threads \ {t} :
        /\ th'[u] = th[u] /\ LocksSlot(u)' = LocksSlot(u) /\ Loads(u)' = Loads(u)
        /\ Page(u)' = Page(u) /\ Previous(u)' = Previous(u)
        /\ \A r : Fills(u, r)' = Fills(u, r)
        /\ \A p : HoldsBusy(u, p)' = HoldsBusy(u, p)
  BY Zenon, OtherThread
<1>4. Page(t) # Previous(t)
  BY Zenon, <1>1 DEF OwnInv, BusyInv
<1>5. LocksInv'
  BY <1>1, <1>3 DEF OwnInv, LocksInv
<1>6. BusyInv'
  <2>1. \A p \in Pages : HoldsBusy(t, p)' => p = Page(t)
    BY Zenon, <1>1, <1>2 DEF HoldsBusy
  <2>2. \A u \in Threads, p \in Pages : HoldsBusy(u, p)' => HoldsBusy(u, p) /\ p # Previous(t)
    BY <2>1, <1>2, <1>3, <1>4 DEF OwnInv, BusyInv
  <2>3. \A u \in Threads, p \in Pages : HoldsBusy(u, p)' => HoldsBusy(u, p) /\ state'[p].b
    BY Zenon, <2>2 DEF OwnInv, BusyInv
  <2>4. ASSUME NEW u \in Threads, Loads(u)' PROVE ~state'[Page(u)'].v
    <3>1. Loads(u) /\ Page(u)' = Page(u) /\ Page(u) \in Pages
      BY Zenon, <2>4, <1>1, <1>2, <1>3, LoadedPage DEF Loads, Looking, Evicting, Filling
    <3> QED BY Zenon, <3>1 DEF OwnInv, BusyInv
  <2>5. ASSUME NEW u \in Threads, th'[u].pc \in Evicting PROVE state'[Previous(u)'].v
    <3>1. u # t /\ th[u].pc \in Evicting /\ Previous(u)' = Previous(u) /\ Previous(u) \in Pages
      BY Zenon, <2>5, <1>1, <1>3, EvictedPage DEF LocksSlot
    <3> QED BY Zenon, <3>1 DEF OwnInv, BusyInv
  <2> QED BY Zenon, <2>3, <2>4, <2>5, BusyFrom
<1>7. SlotsInv'
  <2>1. ASSUME NEW u \in Threads
        PROVE  /\ \A r \in Slots : Fills(u, r)' <=> Fills(u, r)
               /\ (th'[u].pc = "assign") = (th[u].pc = "assign")
               /\ th[u].pc \in {"assign"} \cup Filling =>
                    th'[u].slot = th[u].slot /\ Page(u)' = Page(u)
    BY Zenon, <1>1, <1>3
  <2> QED BY Zenon, <2>1, SlotsKept
<1> QED BY Zenon, <1>5, <1>6, <1>7 DEF OwnInv

\* The evicted page leaves its slot.
LEMMA ClearKeepsOwners ==
  ASSUME StoreTypeOK, ThreadTypeOK, OwnInv, NEW t \in Threads, OnlyMoves(t),
         th[t].pc = "clear", th'[t].pc = "assign", th'[t].slot = th[t].slot,
         UNCHANGED <<offset, take_lock, translation>>,
         ~state'[Previous(t)].v,
         \A p \in Pages : p # Previous(t) =>
           state'[p].v = state[p].v /\ state'[p].b = state[p].b
  PROVE  OwnInv'
<1>1. /\ Loads(t) /\ LocksSlot(t) /\ LocksSlot(t)' /\ \A r : ~Fills(t, r) /\ ~Fills(t, r)'
      /\ th'[t].pc \notin Evicting /\ th[t].pc \in Evicting /\ th[t].pc \notin Filling
  BY Zenon DEF LocksSlot, Loads, Fills, Looking, Evicting, Filling
<1>2. /\ Page(t)' = Page(t) /\ Page(t) \in Pages /\ th[t].slot \in Slots
      /\ Previous(t) \in Pages /\ HoldsBusy(t, Previous(t)) /\ HoldsBusy(t, Page(t))
  BY Zenon, <1>1, OtherThread, LoadedPage, EvictedPage DEF HoldsBusy
<1>3. \A u \in Threads \ {t} :
        /\ th'[u] = th[u] /\ LocksSlot(u)' = LocksSlot(u) /\ Loads(u)' = Loads(u)
        /\ Page(u)' = Page(u) /\ Previous(u)' = Previous(u)
        /\ \A r : Fills(u, r)' = Fills(u, r)
        /\ \A p : HoldsBusy(u, p)' = HoldsBusy(u, p)
  BY Zenon, OtherThread
<1>4. state[Previous(t)].v /\ Page(t) # Previous(t)
  BY Zenon, <1>1 DEF OwnInv, BusyInv
<1>5. \A u \in Threads : ~Fills(u, th[t].slot)
  BY Zenon, <1>2, <1>4, FilledPage DEF Previous
<1>6. offset[Previous(t)] = th[t].slot
  BY Zenon, <1>1, <1>5, LockedSlotHolds
<1>7. LocksInv'
  BY <1>1, <1>3 DEF OwnInv, LocksInv
<1>8. BusyInv'
  <2>1. \A p \in Pages : HoldsBusy(t, p)' => p = Page(t)
    BY Zenon, <1>1, <1>2 DEF HoldsBusy
  <2>2. \A u \in Threads, p \in Pages : HoldsBusy(u, p)' => HoldsBusy(u, p) /\ p # Previous(t)
    BY <2>1, <1>2, <1>3, <1>4 DEF OwnInv, BusyInv
  <2>3. \A u \in Threads, p \in Pages : HoldsBusy(u, p)' => HoldsBusy(u, p) /\ state'[p].b
    BY Zenon, <2>2 DEF OwnInv, BusyInv
  <2>4. ASSUME NEW u \in Threads, Loads(u)' PROVE ~state'[Page(u)'].v
    <3>1. Loads(u) /\ Page(u)' = Page(u) /\ Page(u) \in Pages
      BY Zenon, <2>4, <1>1, <1>2, <1>3, LoadedPage DEF Loads, Looking, Evicting, Filling
    <3> QED BY Zenon, <3>1 DEF OwnInv, BusyInv
  <2>5. ASSUME NEW u \in Threads, th'[u].pc \in Evicting PROVE state'[Previous(u)'].v
    <3>1. u # t /\ th[u].pc \in Evicting /\ Previous(u)' = Previous(u) /\ Previous(u) \in Pages
      BY Zenon, <2>5, <1>1, <1>3, EvictedPage DEF LocksSlot
    <3>2. HoldsBusy(u, Previous(u)) /\ state[Previous(u)].v
      BY Zenon, <3>1 DEF HoldsBusy, OwnInv, BusyInv
    <3>3. Previous(u) # Previous(t)
      BY Zenon, <3>1, <3>2, <1>2 DEF OwnInv, BusyInv
    <3> QED BY Zenon, <3>1, <3>2, <3>3
  <2> QED BY Zenon, <2>3, <2>4, <2>5, BusyFrom
<1>9. SlotsInv'
  <2>1. \A p \in Pages : state'[p].v <=> state[p].v /\ p # Previous(t)
    BY Zenon
  <2>2. \A u \in Threads, r \in Slots : Fills(u, r)' <=> Fills(u, r)
    BY Zenon, <1>1, <1>3
  <2>3. \A u \in Threads, r \in Slots :
          Fills(u, r)' => translation'[r] = Page(u)' /\ take_lock'[r] # "FREE"
    BY <2>2, <1>2, <1>3 DEF OwnInv, SlotsInv
  <2>4. /\ \A r \in Slots : take_lock'[r] # "FREE" => translation'[r] \in Pages
        /\ \A p \in Pages : state'[p].v =>
             translation'[offset'[p]] = p /\ take_lock'[offset'[p]] # "FREE"
    BY Zenon, <2>1 DEF OwnInv, SlotsInv
  <2>5. ASSUME NEW u \in Threads, th'[u].pc = "assign"
        PROVE  /\ \A w \in Threads : ~Fills(w, th[u].slot)'
               /\ \A p \in Pages : state'[p].v => offset'[p] # th'[u].slot
    <3>1. CASE u = t
      <4>1. \A w \in Threads : ~Fills(w, th[u].slot)'
        BY Zenon, <3>1, <2>2, <1>2, <1>5
      <4>2. ASSUME NEW p \in Pages, state'[p].v PROVE offset[p] # th[t].slot
        <5>1. state[p].v /\ p # Previous(t)
          BY Zenon, <4>2, <2>1
        <5>2. translation[offset[p]] = p
          BY Zenon, <5>1 DEF OwnInv, SlotsInv
        <5> QED BY Zenon, <5>1, <5>2 DEF Previous
      <4>3. th'[t].slot = th[t].slot
        OBVIOUS
      <4> QED BY Zenon, <3>1, <4>1, <4>2, <4>3
    <3>2. CASE u # t
      <4>1. th'[u] = th[u] /\ th[u].pc = "assign" /\ th[u].slot \in Slots
        BY Zenon, <3>2, <2>5, <1>3 DEF ThreadTypeOK
      <4> QED BY <4>1, <2>1, <2>2 DEF OwnInv, SlotsInv
    <3> QED BY Zenon, <3>1, <3>2
  <2>6. ASSUME NEW r \in Slots, take_lock'[r] # "FREE"
        PROVE  \/ \E u \in Threads : th'[u].pc = "assign" /\ th'[u].slot = r
               \/ \E u \in Threads : Fills(u, r)'
               \/ \E p \in Pages : state'[p].v /\ offset'[p] = r
    <3>1. CASE r = th[t].slot
      BY Zenon, <3>1
    <3>2. CASE r # th[t].slot
      <4>1. \A p \in Pages : state[p].v /\ offset[p] = r => state'[p].v
        BY Zenon, <3>2, <2>1, <1>6
      <4>2. \A u \in Threads : th[u].pc = "assign" => th'[u] = th[u]
        BY Zenon, <1>3
      <4> QED BY SMTT(20), <4>1, <4>2, <2>2, <2>6 DEF OwnInv, SlotsInv
    <3> QED BY Zenon, <3>1, <3>2
  <2> QED BY Zenon, <2>3, <2>4, <2>5, <2>6, <1>3 DEF SlotsInv
<1> QED BY Zenon, <1>7, <1>8, <1>9 DEF OwnInv

\* The emptied slot gets the page to load.
LEMMA AssignKeepsOwners ==
  ASSUME StoreTypeOK, ThreadTypeOK, OwnInv, NEW t \in Threads, OnlyMoves(t),
         th[t].pc = "assign", th'[t].pc = "read", th'[t].slot = th[t].slot,
         take_lock' = [take_lock EXCEPT ![th[t].slot] = "UNLOCKED"],
         translation' = [translation EXCEPT ![th[t].slot] = Page(t)],
         UNCHANGED <<state, offset>>
  PROVE  OwnInv'
<1> DEFINE s == th[t].slot
<1>1. /\ LocksSlot(t) /\ Loads(t) /\ ~LocksSlot(t)' /\ Loads(t)'
      /\ \A r : ~Fills(t, r) /\ (Fills(t, r)' <=> r = s)
      /\ th'[t].pc \notin Evicting /\ th[t].pc \notin Evicting
  BY Zenon DEF LocksSlot, Loads, Fills, Looking, Evicting, Filling
<1>2. Page(t)' = Page(t) /\ Page(t) \in Pages /\ s \in Slots
  BY Zenon, <1>1, OtherThread, LoadedPage, EvictedPage
<1>3. /\ take_lock'[s] = "UNLOCKED" /\ translation'[s] = Page(t)
      /\ \A r \in Slots \ {s} : take_lock'[r] = take_lock[r] /\ translation'[r] = translation[r]
  BY Zenon, <1>2 DEF StoreTypeOK
<1>4. \A u \in Threads \ {t} : LocksSlot(u) => th[u].slot \in Slots \ {s}
  BY Zenon, <1>1, EvictedPage DEF OwnInv, LocksInv
<1>5. \A u \in Threads \ {t} :
        /\ th'[u] = th[u] /\ LocksSlot(u)' = LocksSlot(u) /\ Loads(u)' = Loads(u)
        /\ Page(u)' = Page(u)
        /\ \A r : Fills(u, r)' = Fills(u, r)
        /\ LocksSlot(u) => Previous(u)' = Previous(u)
  BY Zenon, <1>3, <1>4, OtherThread
<1>6. LocksInv'
  BY <1>1, <1>3, <1>4, <1>5 DEF OwnInv, LocksInv
<1>7. BusyInv'
  <2>1. \A u \in Threads, p \in Pages : HoldsBusy(u, p)' <=> HoldsBusy(u, p)
    BY Zenon, <1>1, <1>2, <1>5 DEF HoldsBusy, LocksSlot
  <2>2. \A u \in Threads : Loads(u)' => Loads(u) /\ Page(u)' = Page(u)
    BY Zenon, <1>1, <1>2, <1>5
  <2>3. \A u \in Threads : th'[u].pc \in Evicting =>
          th[u].pc \in Evicting /\ Previous(u)' = Previous(u)
    BY Zenon, <1>1, <1>5 DEF LocksSlot
  <2> QED BY Zenon, <2>1, <2>2, <2>3 DEF OwnInv, BusyInv
<1>8. SlotsInv'
  <2>1. \A r \in Slots : take_lock'[r] # "FREE" => translation'[r] \in Pages
    BY <1>2, <1>3 DEF OwnInv, SlotsInv
  <2>2. \A u \in Threads \ {t} : ~Fills(u, s)
    BY Zenon DEF OwnInv, SlotsInv
  <2>3. \A u \in Threads, r \in Slots :
          Fills(u, r)' => translation'[r] = Page(u)' /\ take_lock'[r] # "FREE"
    BY SMTT(20), <2>2, <1>1, <1>2, <1>3, <1>5 DEF OwnInv, SlotsInv
  <2>4. \A p \in Pages : state'[p].v =>
          translation'[offset'[p]] = p /\ take_lock'[offset'[p]] # "FREE"
    BY ZenonT(40), <1>3 DEF OwnInv, SlotsInv, StoreTypeOK
  <2>5. ASSUME NEW u \in Threads, th'[u].pc = "assign"
        PROVE  /\ \A w \in Threads : ~Fills(w, th[u].slot)'
               /\ \A p \in Pages : state'[p].v => offset'[p] # th'[u].slot
    <3>1. u # t /\ th[u].pc = "assign" /\ th'[u] = th[u] /\ th[u].slot \in Slots \ {s}
      BY Zenon, <2>5, <1>4, <1>5 DEF LocksSlot
    <3>2. \A w \in Threads : ~Fills(w, th[u].slot)'
      BY <3>1, <1>1, <1>5 DEF OwnInv, SlotsInv
    <3> QED BY <3>1, <3>2 DEF OwnInv, SlotsInv
  <2>6. ASSUME NEW r \in Slots, take_lock'[r] # "FREE"
        PROVE  \/ \E u \in Threads : th'[u].pc = "assign" /\ th'[u].slot = r
               \/ \E u \in Threads : Fills(u, r)'
               \/ \E p \in Pages : state'[p].v /\ offset'[p] = r
    <3>1. CASE r = s
      BY Zenon, <3>1, <1>1
    <3>2. CASE r # s
      BY SMTT(20), <3>2, <2>6, <1>1, <1>3, <1>5 DEF OwnInv, SlotsInv
    <3> QED BY Zenon, <3>1, <3>2
  <2> QED BY ZenonT(40), <2>1, <2>3, <2>4, <2>5, <2>6, <1>5 DEF SlotsInv
<1> QED BY Zenon, <1>6, <1>7, <1>8 DEF OwnInv

\* The page is valid, in the slot it was read into.
LEMMA PublishKeepsOwners ==
  ASSUME StoreTypeOK, ThreadTypeOK, OwnInv, NEW t \in Threads, OnlyMoves(t),
         th[t].pc = "publish", th'[t].pc \in {"mark", "use"},
         UNCHANGED <<take_lock, translation>>,
         offset' = [offset EXCEPT ![Page(t)] = th[t].slot],
         state'[Page(t)].v = ~state[Page(t)].v,
         \A p \in Pages : p # Page(t) =>
           state'[p].v = state[p].v /\ state'[p].b = state[p].b
  PROVE  OwnInv'
<1> DEFINE s == th[t].slot
<1>1. /\ ~LocksSlot(t) /\ Loads(t) /\ ~LocksSlot(t)' /\ ~Loads(t)'
      /\ \A r : (Fills(t, r) <=> r = s) /\ ~Fills(t, r)'
      /\ th'[t].pc \notin Evicting \cup {"assign"} /\ th[t].pc \notin Evicting
      /\ \A p : ~HoldsBusy(t, p)'
  BY Zenon DEF LocksSlot, Loads, Fills, HoldsBusy, Looking, Evicting, Filling
<1>2. /\ Page(t)' = Page(t) /\ Page(t) \in Pages /\ s \in Slots
      /\ HoldsBusy(t, Page(t)) /\ Fills(t, s) /\ ~state[Page(t)].v /\ translation[s] = Page(t)
  <2>1. Page(t)' = Page(t) /\ s \in Slots /\ Fills(t, s) /\ Page(t) \in Pages
    BY Zenon, <1>1, OtherThread, LoadedPage DEF ThreadTypeOK
  <2>2. HoldsBusy(t, Page(t))
    BY Zenon, <1>1 DEF HoldsBusy
  <2> QED BY Zenon, <2>1, <2>2, FilledPage
<1>3. \A u \in Threads \ {t} :
        /\ th'[u] = th[u] /\ LocksSlot(u)' = LocksSlot(u) /\ Loads(u)' = Loads(u)
        /\ Page(u)' = Page(u) /\ Previous(u)' = Previous(u)
        /\ \A r : Fills(u, r)' = Fills(u, r)
        /\ \A p : HoldsBusy(u, p)' = HoldsBusy(u, p)
  BY Zenon, OtherThread
<1>4. /\ state'[Page(t)].v /\ offset'[Page(t)] = s
      /\ \A p \in Pages \ {Page(t)} : offset'[p] = offset[p]
  BY ZenonT(40), <1>2 DEF StoreTypeOK
<1>5. LocksInv'
  BY <1>1, <1>3 DEF OwnInv, LocksInv
<1>6. BusyInv'
  <2>1. \A u \in Threads, p \in Pages :
          HoldsBusy(u, p)' => u # t /\ HoldsBusy(u, p) /\ p # Page(t)
    BY <1>1, <1>2, <1>3 DEF OwnInv, BusyInv
  <2>2. \A u \in Threads, p \in Pages : HoldsBusy(u, p)' => HoldsBusy(u, p) /\ state'[p].b
    BY Zenon, <2>1 DEF OwnInv, BusyInv
  <2>3. ASSUME NEW u \in Threads, Loads(u)' PROVE ~state'[Page(u)'].v
    <3>1. u # t /\ Loads(u) /\ Page(u)' = Page(u) /\ Page(u) \in Pages
      BY Zenon, <2>3, <1>1, <1>3, LoadedPage DEF Loads, Looking, Evicting, Filling
    <3>2. Page(u) # Page(t)
      BY Zenon, <3>1, <1>2 DEF HoldsBusy, OwnInv, BusyInv
    <3> QED BY Zenon, <3>1, <3>2 DEF OwnInv, BusyInv
  <2>4. ASSUME NEW u \in Threads, th'[u].pc \in Evicting PROVE state'[Previous(u)'].v
    <3>1. u # t /\ th[u].pc \in Evicting /\ Previous(u)' = Previous(u) /\ Previous(u) \in Pages
      BY Zenon, <2>4, <1>1, <1>3, EvictedPage DEF LocksSlot
    <3>2. state[Previous(u)].v
      BY Zenon, <3>1 DEF OwnInv, BusyInv
    <3> QED BY Zenon, <3>1, <3>2, <1>4
  <2> QED BY ZenonT(40), <2>2, <2>3, <2>4, BusyFrom
<1>7. SlotsInv'
  <2>1. \A u \in Threads, r \in Slots : Fills(u, r)' <=> u # t /\ Fills(u, r)
    BY ZenonT(40), <1>1, <1>3
  <2>2. ASSUME NEW u \in Threads, NEW r \in Slots, Fills(u, r)'
        PROVE  translation'[r] = Page(u)' /\ take_lock'[r] # "FREE"
    <3>1. Fills(u, r) /\ Page(u)' = Page(u)
      BY Zenon, <2>1, <2>2, <1>3
    <3>2. translation[r] = Page(u) /\ take_lock[r] # "FREE"
      BY ZenonT(40), <3>1 DEF OwnInv, SlotsInv
    <3> QED BY Zenon, <3>1, <3>2
  <2>3. ASSUME NEW p \in Pages, state'[p].v
        PROVE  translation'[offset'[p]] = p /\ take_lock'[offset'[p]] # "FREE"
    <3>1. CASE p = Page(t)
      <4>1. take_lock[s] # "FREE"
        BY ZenonT(40), <1>2 DEF OwnInv, SlotsInv
      <4> QED BY Zenon, <3>1, <4>1, <1>2, <1>4
    <3>2. CASE p # Page(t)
      <4>1. state[p].v /\ offset'[p] = offset[p]
        BY Zenon, <2>3, <3>2, <1>4
      <4>2. translation[offset[p]] = p /\ take_lock[offset[p]] # "FREE"
        BY Zenon, <4>1 DEF OwnInv, SlotsInv
      <4> QED BY Zenon, <4>1, <4>2
    <3> QED BY Zenon, <3>1, <3>2
  <2>4. ASSUME NEW u \in Threads, th'[u].pc = "assign"
        PROVE  /\ \A w \in Threads : ~Fills(w, th[u].slot)'
               /\ \A p \in Pages : state'[p].v => offset'[p] # th'[u].slot
    <3>1. u # t /\ th[u].pc = "assign" /\ th'[u] = th[u] /\ th[u].slot \in Slots
      BY Zenon, <2>4, <1>1, <1>3 DEF ThreadTypeOK
    <3>2. th[u].slot # s
      BY ZenonT(40), <3>1, <1>2 DEF OwnInv, SlotsInv
    <3>3. \A p \in Pages : state'[p].v => offset'[p] # th[u].slot
      BY <3>1, <3>2, <1>4 DEF OwnInv, SlotsInv
    <3> QED BY <3>1, <3>3, <2>1 DEF OwnInv, SlotsInv
  <2>5. ASSUME NEW r \in Slots, take_lock'[r] # "FREE"
        PROVE  \/ \E u \in Threads : th'[u].pc = "assign" /\ th'[u].slot = r
               \/ \E u \in Threads : Fills(u, r)'
               \/ \E p \in Pages : state'[p].v /\ offset'[p] = r
    <3>1. CASE r = s
      BY ZenonT(40), <3>1, <1>2, <1>4
    <3>2. CASE r # s
      <4>1. \A p \in Pages : state[p].v => state'[p].v /\ offset'[p] = offset[p]
        BY Zenon, <1>2, <1>4
      <4>2. \A u \in Threads : th[u].pc = "assign" => th'[u] = th[u]
        BY Zenon, <1>3
      <4>3. \A u \in Threads : Fills(u, r) => Fills(u, r)'
        BY Zenon, <3>2, <1>1, <2>1
      <4> QED BY SMTT(20), <4>1, <4>2, <4>3, <2>5 DEF OwnInv, SlotsInv
    <3> QED BY Zenon, <3>1, <3>2
  <2>6. \A r \in Slots : take_lock'[r] # "FREE" => translation'[r] \in Pages
    BY Zenon DEF OwnInv, SlotsInv
  <2> QED BY Zenon, <2>2, <2>3, <2>4, <2>5, <2>6, <1>3 DEF SlotsInv
<1> QED BY Zenon, <1>5, <1>6, <1>7 DEF OwnInv

---------------------------------------------------------------------------
(* The steps of a thread *)

PageStates == [v : BOOLEAN, b : BOOLEAN, d : BOOLEAN, cnt : Int]


\* The flags and the count of a page.
LEMMA StateOf ==
  ASSUME StoreTypeOK, NEW p \in Pages
  PROVE  /\ state[p].v \in BOOLEAN /\ state[p].b \in BOOLEAN /\ state[p].d \in BOOLEAN
         /\ state[p].cnt \in Int
<1>1. state[p] \in PageStates
  BY Zenon DEF StoreTypeOK, PageStates
<1> QED BY Zenon, <1>1 DEF PageStates

CountSet(p, c) == state' = [state EXCEPT ![p].cnt = c]
DirtySet(p, d) == state' = [state EXCEPT ![p].d = d]
BusySet(p, b) == state' = [state EXCEPT ![p].b = b]

\* A new reference count leaves the flags alone.
LEMMA CountFacts ==
  ASSUME StoreTypeOK, NEW p \in Pages, NEW c \in Int, CountSet(p, c)
  PROVE  state' \in [Pages -> PageStates] /\ KeepsFlags
<1>1. state \in [Pages -> PageStates]
  BY Zenon DEF StoreTypeOK, PageStates
<1>2. [state[p] EXCEPT !.cnt = c] \in PageStates
  BY Zenon, <1>1 DEF PageStates
<1>3. /\ [state[p] EXCEPT !.cnt = c].v = state[p].v
      /\ [state[p] EXCEPT !.cnt = c].b = state[p].b
  BY Zenon, <1>1 DEF PageStates
<1>4. state'[p] = [state[p] EXCEPT !.cnt = c] /\ \A q \in Pages \ {p} : state'[q] = state[q]
  BY Zenon, <1>1 DEF CountSet
<1>5. state' \in [Pages -> PageStates]
  BY Zenon, <1>1, <1>2 DEF CountSet
<1> QED BY Zenon, <1>3, <1>4, <1>5 DEF KeepsFlags

\* A new DIRTY leaves VALID and BUSY alone.
LEMMA DirtyFacts ==
  ASSUME StoreTypeOK, NEW p \in Pages, NEW d \in BOOLEAN, DirtySet(p, d)
  PROVE  state' \in [Pages -> PageStates] /\ KeepsFlags
<1>1. state \in [Pages -> PageStates]
  BY Zenon DEF StoreTypeOK, PageStates
<1>2. [state[p] EXCEPT !.d = d] \in PageStates
  BY Zenon, <1>1 DEF PageStates
<1>3. [state[p] EXCEPT !.d = d].v = state[p].v /\ [state[p] EXCEPT !.d = d].b = state[p].b
  BY Zenon, <1>1 DEF PageStates
<1>4. state'[p] = [state[p] EXCEPT !.d = d] /\ \A q \in Pages \ {p} : state'[q] = state[q]
  BY Zenon, <1>1 DEF DirtySet
<1>5. state' \in [Pages -> PageStates]
  BY Zenon, <1>1, <1>2 DEF DirtySet
<1> QED BY Zenon, <1>3, <1>4, <1>5 DEF KeepsFlags

\* A new BUSY leaves VALID alone, and the other pages.
LEMMA BusyFacts ==
  ASSUME StoreTypeOK, NEW p \in Pages, NEW b \in BOOLEAN, BusySet(p, b)
  PROVE  /\ state' \in [Pages -> PageStates] /\ state'[p].b = b
         /\ \A q \in Pages : /\ state'[q].v = state[q].v
                             /\ q # p => state'[q].b = state[q].b
<1>1. state \in [Pages -> PageStates]
  BY Zenon DEF StoreTypeOK, PageStates
<1>2. [state[p] EXCEPT !.b = b] \in PageStates
  BY Zenon, <1>1 DEF PageStates
<1>3. [state[p] EXCEPT !.b = b].v = state[p].v /\ [state[p] EXCEPT !.b = b].b = b
  BY Zenon, <1>1 DEF PageStates
<1>4. state'[p] = [state[p] EXCEPT !.b = b] /\ \A q \in Pages \ {p} : state'[q] = state[q]
  BY Zenon, <1>1 DEF BusySet
<1>5. state' \in [Pages -> PageStates]
  BY Zenon, <1>1, <1>2 DEF BusySet
<1> QED BY Zenon, <1>3, <1>4, <1>5

StoreRest == <<setup, offset, slotVars, bufferVars, victimVars>>

\* A step that changes only the page states keeps the types of the rest.
LEMMA StoreTypes ==
  ASSUME StoreTypeOK, UNCHANGED StoreRest, state' \in [Pages -> PageStates]
  PROVE  StoreTypeOK'
BY Zenon DEF StoreTypeOK, StoreRest, slotVars, bufferVars, victimVars, PageStates

\* Thread t owns what it owned before, and nothing else of the owners changes.
LEMMA RoleStep ==
  ASSUME StoreTypeOK, ThreadTypeOK, OwnInv, NEW t \in Threads, setup' = setup,
         UNCHANGED <<offset, take_lock, translation>>, KeepsFlags,
         KeepsRole(t), \A u \in Threads \ {t} : th'[u] = th[u]
  PROVE  OwnInv'
<1>1. ASSUME NEW u \in Threads, u # t PROVE KeepsRole(u)
  <2>1. th'[u] = th[u]
    BY Zenon, <1>1
  <2> QED BY Zenon, <2>1 DEF KeepsRole
<1> QED BY Zenon, <1>1, RolesKept

\* A step between labels with the same roles keeps the owners.
LEMMA GotoKeeps ==
  ASSUME StoreTypeOK, ThreadTypeOK, OwnInv, NEW t \in Threads, NEW label, Goto(t, label),
         UNCHANGED <<setup, offset, take_lock, translation>>, KeepsFlags,
         th[t].pc # "next", label \notin {"next", "exchange"},
         \A R \in Roles : (label \in R) = (th[t].pc \in R)
  PROVE  ThreadTypeOK' /\ OwnInv'
<1>1. Resume(t, label, th[t].n, th[t].st, th[t].slot, th[t].entry)
  BY Zenon, GotoResumes
<1>2. /\ th'[t].pc = label /\ th'[t].n = th[t].n /\ th'[t].slot = th[t].slot
      /\ \A u \in Threads \ {t} : th'[u] = th[u]
  BY <1>1, ResumeFacts
<1>3. ThreadTypeOK'
  <2>1. th[t].n \in 0 .. Len(Plan(t)) /\ th[t].slot \in Slots /\ th[t].n > 0
    BY Zenon DEF ThreadTypeOK
  <2> QED BY Zenon, <1>1, <2>1, ResumeTypes
<1>4. KeepsRole(t)
  BY Zenon, <1>2 DEF KeepsRole
<1> QED BY Zenon, <1>2, <1>3, <1>4, RoleStep

OwnersKept == StoreTypeOK' /\ ThreadTypeOK' /\ OwnInv'

Resting == {"next", "check", "mark", "use", "release"}

\* Outside of a load and of an eviction a thread owns nothing.
LEMMA RestingStep ==
  ASSUME StoreTypeOK, ThreadTypeOK, OwnInv, NEW t \in Threads, NEW l \in Resting,
         NEW n \in 0 .. Len(Plan(t)), NEW st, NEW s \in Slots, NEW e,
         Resume(t, l, n, st, s, e), th[t].pc \in Resting, l # "next" => n > 0,
         UNCHANGED <<setup, offset, take_lock, translation>>, KeepsFlags
  PROVE  ThreadTypeOK' /\ OwnInv'
<1>1. th'[t].pc = l /\ \A u \in Threads \ {t} : th'[u] = th[u]
  BY Zenon, ResumeFacts
<1>2. ThreadTypeOK'
  BY Zenon, ResumeTypes DEF Resting
<1>3. KeepsRole(t)
  BY <1>1 DEF KeepsRole, Roles, Resting, Looking, Evicting, Filling
<1> QED BY Zenon, <1>1, <1>2, <1>3, RoleStep

\* What the types say of a thread inside an access.
LEMMA InAccess ==
  ASSUME StoreTypeOK, ThreadTypeOK, NEW t \in Threads, th[t].pc # "next"
  PROVE  /\ th[t].n \in 0 .. Len(Plan(t)) /\ th[t].n > 0 /\ th[t].slot \in Slots
         /\ Page(t) \in Pages /\ Access(t).lanes \in Nat
BY Zenon, PlanFacts DEF ThreadTypeOK

\* Pinning a page: a new count, and an access begun.
LEMMA PinStep ==
  ASSUME StoreTypeOK, ThreadTypeOK, OwnInv, NEW t \in Threads, UNCHANGED StoreRest,
         NEW p \in Pages, NEW lanes \in Nat, th[t].pc = "next", th[t].n < Len(Plan(t)),
         CountSet(p, state[p].cnt + lanes),
         Resume(t, "check", th[t].n + 1, state[p], th[t].slot, th[t].entry)
  PROVE  OwnersKept
<1>1. th[t].n \in Nat /\ th[t].n + 1 \in 0 .. Len(Plan(t)) /\ th[t].n + 1 > 0
      /\ th[t].slot \in Slots
  BY PlanFacts DEF ThreadTypeOK
<1>2. state' \in [Pages -> PageStates] /\ KeepsFlags
  <2>1. state[p].cnt + lanes \in Int
    BY StateOf
  <2> QED BY Zenon, <2>1, CountFacts
<1>3. StoreTypeOK'
  BY Zenon, <1>2, StoreTypes
<1>4. ThreadTypeOK' /\ OwnInv'
  BY Zenon, <1>1, <1>2, RestingStep DEF Resting, StoreRest, slotVars
<1> QED BY ZenonT(40), <1>3, <1>4 DEF OwnersKept

\* Pin changes a count only.
LEMMA PinKeeps ==
  ASSUME StoreTypeOK, ThreadTypeOK, OwnInv, NEW t \in Threads, Pin(t), setup' = setup
  PROVE  OwnersKept
<1>1. UNCHANGED StoreRest /\ th[t].pc = "next" /\ th[t].n < Len(Plan(t))
  BY Zenon DEF Pin, At, StoreRest
<1>2. th[t].n + 1 \in 1 .. Len(Plan(t))
  BY <1>1, PlanFacts
<1>3. Plan(t)[th[t].n + 1].page \in Pages /\ Plan(t)[th[t].n + 1].lanes \in Nat
  BY Zenon, <1>2, PlanFacts
<1>4. /\ CountSet(Plan(t)[th[t].n + 1].page, state[Plan(t)[th[t].n + 1].page].cnt
                                               + Plan(t)[th[t].n + 1].lanes)
      /\ Resume(t, "check", th[t].n + 1, state[Plan(t)[th[t].n + 1].page], th[t].slot,
                th[t].entry)
  BY Zenon DEF Pin, CountSet
<1> QED BY Zenon, <1>1, <1>3, <1>4, PinStep

\* Reload changes nothing shared.
LEMMA ReloadKeeps ==
  ASSUME StoreTypeOK, ThreadTypeOK, OwnInv, NEW t \in Threads, Reload(t), setup' = setup
  PROVE  OwnersKept
<1>1. /\ UNCHANGED StoreRest /\ state' = state /\ th[t].pc = "check"
      /\ Resume(t, "check", th[t].n, state[Page(t)], th[t].slot, th[t].entry)
  BY Zenon DEF Reload, At, StoreRest
<1>2. StoreTypeOK' /\ KeepsFlags
  BY Zenon, <1>1 DEF StoreTypeOK, KeepsFlags, StoreRest, slotVars, bufferVars, victimVars
<1>3. ThreadTypeOK' /\ OwnInv'
  BY Zenon, <1>1, <1>2, InAccess, RestingStep DEF Resting, StoreRest, slotVars
<1> QED BY Zenon, <1>2, <1>3 DEF OwnersKept

\* SetBusy: the three outcomes of the fetch_or.
LEMMA SetBusyKeeps ==
  ASSUME StoreTypeOK, ThreadTypeOK, OwnInv, NEW t \in Threads, SetBusy(t), setup' = setup
  PROVE  OwnersKept
<1> DEFINE l == IF state[Page(t)].b THEN "check"
                ELSE IF state[Page(t)].v THEN "unbusy" ELSE "find"
           st == [th[t].st EXCEPT !.b = TRUE]
<1> HIDE DEF st
<1>1. /\ UNCHANGED StoreRest /\ th[t].pc = "check" /\ BusySet(Page(t), TRUE)
      /\ Resume(t, l, th[t].n, st, th[t].slot, th[t].entry)
  BY Zenon DEF SetBusy, At, StoreRest, BusySet, st
<1>2. /\ th[t].n \in 0 .. Len(Plan(t)) /\ th[t].n > 0 /\ th[t].slot \in Slots
      /\ Page(t) \in Pages
  BY Zenon, <1>1, InAccess
<1>3. /\ state' \in [Pages -> PageStates] /\ state'[Page(t)].b
      /\ \A q \in Pages : /\ state'[q].v = state[q].v
                          /\ q # Page(t) => state'[q].b = state[q].b
  BY Zenon, <1>1, <1>2, BusyFacts
<1>4. StoreTypeOK'
  BY Zenon, <1>1, <1>3, StoreTypes
<1>5. CASE state[Page(t)].b
  <2>1. KeepsFlags
    BY Zenon, <1>3, <1>5, StateOf, <1>2 DEF KeepsFlags
  <2>2. Resume(t, "check", th[t].n, st, th[t].slot, th[t].entry)
    BY Zenon, <1>1, <1>5
  <2> QED BY Zenon, <1>1, <1>2, <1>4, <2>1, <2>2, RestingStep
          DEF OwnersKept, Resting, StoreRest, slotVars
<1>6. CASE ~state[Page(t)].b
  <2>1. /\ OnlyMoves(t) /\ th'[t].pc = IF state[Page(t)].v THEN "unbusy" ELSE "find"
    BY <1>1, <1>6, ResumeFacts DEF OnlyMoves, StoreRest
  <2>2. OwnInv'
    BY ZenonT(40), <1>1, <1>3, <1>6, <2>1, SetBusyKeepsOwners DEF StoreRest, slotVars
  <2>3. ThreadTypeOK'
    BY SMTT(20), <1>1, <1>2, ResumeTypes DEF StoreRest
  <2> QED BY Zenon, <1>4, <2>2, <2>3 DEF OwnersKept
<1> QED BY Zenon, <1>5, <1>6

\* A step to a label with the locals kept.
LEMMA GotoFacts ==
  ASSUME StoreTypeOK, ThreadTypeOK, NEW t \in Threads, NEW l, Goto(t, l), setup' = setup,
         th[t].pc # "next", l # "exchange"
  PROVE  OnlyMoves(t) /\ th'[t].pc = l /\ th'[t].slot = th[t].slot /\ ThreadTypeOK'
<1>1. Resume(t, l, th[t].n, th[t].st, th[t].slot, th[t].entry)
  BY Zenon, GotoResumes
<1> QED BY <1>1, ResumeFacts, ResumeTypes, InAccess DEF OnlyMoves

\* ClearBusy gives back what SetBusy took.
LEMMA ClearBusyKeeps ==
  ASSUME StoreTypeOK, ThreadTypeOK, OwnInv, NEW t \in Threads, ClearBusy(t), setup' = setup
  PROVE  OwnersKept
<1>1. /\ UNCHANGED StoreRest /\ th[t].pc = "unbusy" /\ BusySet(Page(t), FALSE)
      /\ Goto(t, "check")
  BY Zenon DEF ClearBusy, At, StoreRest, BusySet
<1>2. OnlyMoves(t) /\ th'[t].pc = "check" /\ ThreadTypeOK'
  BY Zenon, <1>1, GotoFacts
<1>3. /\ state' \in [Pages -> PageStates]
      /\ \A q \in Pages : /\ state'[q].v = state[q].v
                          /\ q # Page(t) => state'[q].b = state[q].b
  BY Zenon, <1>1, InAccess, BusyFacts
<1>4. StoreTypeOK'
  BY Zenon, <1>1, <1>3, StoreTypes
<1>5. OwnInv'
  BY Zenon, <1>1, <1>2, <1>3, ClearBusyKeepsOwners DEF StoreRest, slotVars
<1> QED BY Zenon, <1>2, <1>4, <1>5 DEF OwnersKept

\* A hit sets at most DIRTY.
LEMMA HitKeeps ==
  ASSUME StoreTypeOK, ThreadTypeOK, OwnInv, NEW t \in Threads, Hit(t), setup' = setup
  PROVE  OwnersKept
<1>1. /\ UNCHANGED StoreRest /\ th[t].pc = "check"
      /\ state' = state \/ DirtySet(Page(t), TRUE)
      /\ Resume(t, Acquired(t), th[t].n, 0, offset[Page(t)], th[t].entry)
  BY Zenon DEF Hit, At, StoreRest, DirtySet
<1>2. /\ th[t].n \in 0 .. Len(Plan(t)) /\ th[t].n > 0 /\ Page(t) \in Pages
      /\ offset[Page(t)] \in Slots
  BY Zenon, <1>1, InAccess DEF StoreTypeOK
<1>3. state' \in [Pages -> PageStates] /\ KeepsFlags
  BY Zenon, <1>1, <1>2, DirtyFacts DEF KeepsFlags, StoreTypeOK, PageStates
<1>4. StoreTypeOK'
  BY Zenon, <1>1, <1>3, StoreTypes
<1>5. ThreadTypeOK' /\ OwnInv'
  BY Zenon, <1>1, <1>2, <1>3, RestingStep DEF Acquired, Resting, StoreRest, slotVars
<1> QED BY Zenon, <1>4, <1>5 DEF OwnersKept

\* The clock hand takes a free slot, locks an unlocked one, or moves on.
LEMMA TakeSlotKeeps ==
  ASSUME StoreTypeOK, ThreadTypeOK, OwnInv, NEW t \in Threads, TakeSlot(t), setup' = setup
  PROVE  OwnersKept
<1> DEFINE s == page_ticket
<1>1. /\ UNCHANGED <<setup, state, offset, buffer, victim, alloc_ticket>> /\ th[t].pc = "find"
      /\ page_ticket' = (page_ticket + 1) % NSlots
  BY Zenon DEF TakeSlot, At, bufferVars, victimVars
<1>2. /\ th[t].n \in 0 .. Len(Plan(t)) /\ th[t].n > 0 /\ th[t].slot \in Slots
      /\ Page(t) \in Pages
  BY Zenon, <1>1, InAccess
<1>3. s \in Slots /\ page_ticket' \in Slots
  BY <1>1, CacheAssumption DEF StoreTypeOK, Slots
<1>4. take_lock[s] \in {"FREE", "UNLOCKED", "LOCKED"}
  BY Zenon, <1>3 DEF StoreTypeOK
<1>5. ASSUME take_lock' \in [Slots -> {"FREE", "UNLOCKED", "LOCKED"}],
             translation' \in [Slots -> Pages \cup {NoPage}]
      PROVE  StoreTypeOK'
  BY Zenon, <1>1, <1>3, <1>5 DEF StoreTypeOK
<1>6. CASE take_lock[s] = "FREE"
  <2>1. /\ take_lock' = [take_lock EXCEPT ![s] = "UNLOCKED"]
        /\ translation' = [translation EXCEPT ![s] = Page(t)]
        /\ Resume(t, "read", th[t].n, th[t].st, s, th[t].entry)
    BY Zenon, <1>6 DEF TakeSlot
  <2>2. OnlyMoves(t) /\ th'[t].pc = "read" /\ th'[t].slot = s
    BY <1>1, <2>1, ResumeFacts DEF OnlyMoves
  <2>3. StoreTypeOK'
    BY ZenonT(40), <1>2, <1>3, <1>5, <2>1 DEF StoreTypeOK
  <2>4. ThreadTypeOK'
    BY <1>1, <1>2, <1>3, <2>1, ResumeTypes
  <2>5. OwnInv'
    BY Zenon, <1>1, <1>3, <1>6, <2>1, <2>2, TakeFreeKeepsOwners
  <2> QED BY Zenon, <2>3, <2>4, <2>5 DEF OwnersKept
<1>7. CASE take_lock[s] = "UNLOCKED"
  <2>1. /\ take_lock' = [take_lock EXCEPT ![s] = "LOCKED"] /\ translation' = translation
        /\ Resume(t, "inspect", th[t].n, th[t].st, s, th[t].entry)
    BY Zenon, <1>7 DEF TakeSlot
  <2>2. OnlyMoves(t) /\ th'[t].pc = "inspect" /\ th'[t].slot = s
    BY <1>1, <2>1, ResumeFacts DEF OnlyMoves
  <2>3. StoreTypeOK'
    BY ZenonT(40), <1>2, <1>3, <1>5, <2>1 DEF StoreTypeOK
  <2>4. ThreadTypeOK'
    BY <1>1, <1>2, <1>3, <2>1, ResumeTypes
  <2>5. OwnInv'
    BY Zenon, <1>1, <1>3, <1>7, <2>1, <2>2, TakeUnlockedKeepsOwners
  <2> QED BY Zenon, <2>3, <2>4, <2>5 DEF OwnersKept
<1>8. CASE take_lock[s] = "LOCKED"
  <2>1. UNCHANGED <<take_lock, translation, th>>
    BY Zenon, <1>8 DEF TakeSlot
  <2>2. StoreTypeOK'
    BY Zenon, <1>5, <2>1 DEF StoreTypeOK
  <2>3. ThreadTypeOK'
    BY Zenon, <1>1, <2>1 DEF ThreadTypeOK, Plan
  <2>4. KeepsRole(t) /\ KeepsFlags
    BY Zenon, <1>1, <2>1 DEF KeepsRole, KeepsFlags
  <2> QED BY Zenon, <1>1, <2>1, <2>2, <2>3, <2>4, RoleStep DEF OwnersKept
<1> QED BY Zenon, <1>4, <1>6, <1>7, <1>8

\* A step within a role that changes neither pages nor slots.
LEMMA GotoOnly ==
  ASSUME StoreTypeOK, ThreadTypeOK, OwnInv, NEW t \in Threads, NEW label, Goto(t, label),
         UNCHANGED StoreRest, state' = state,
         th[t].pc # "next", label \notin {"next", "exchange"},
         \A R \in Roles : (label \in R) = (th[t].pc \in R)
  PROVE  OwnersKept
<1>1. KeepsFlags /\ StoreTypeOK'
  BY Zenon DEF KeepsFlags, StoreTypeOK, StoreRest, slotVars, bufferVars, victimVars
<1> QED BY Zenon, <1>1, GotoKeeps DEF OwnersKept, StoreRest, slotVars

\* Looking at the page of a locked slot changes nothing.
LEMMA InspectKeeps ==
  ASSUME StoreTypeOK, ThreadTypeOK, OwnInv, NEW t \in Threads, Inspect(t), setup' = setup
  PROVE  OwnersKept
<1>1. PICK l \in {"claim", "give_up"} :
        Goto(t, l) /\ UNCHANGED StoreRest /\ state' = state /\ th[t].pc = "inspect"
  BY Zenon DEF Inspect, At, StoreRest
<1>2. \A R \in Roles : (l \in R) = (th[t].pc \in R)
  BY <1>1 DEF Roles, Looking, Evicting, Filling
<1> QED BY Zenon, <1>1, <1>2, GotoOnly

\* Claim takes BUSY of the page to evict, or gives the slot up.
LEMMA ClaimKeeps ==
  ASSUME StoreTypeOK, ThreadTypeOK, OwnInv, NEW t \in Threads, Claim(t), setup' = setup
  PROVE  OwnersKept
<1>1. UNCHANGED StoreRest /\ th[t].pc = "claim" /\ BusySet(Previous(t), TRUE)
  BY Zenon DEF Claim, At, StoreRest, BusySet
<1>2. Previous(t) \in Pages
  BY Zenon, <1>1, EvictedPage DEF LocksSlot, Looking
<1>3. /\ state' \in [Pages -> PageStates] /\ state'[Previous(t)].b
      /\ \A q \in Pages : /\ state'[q].v = state[q].v
                          /\ q # Previous(t) => state'[q].b = state[q].b
  BY Zenon, <1>1, <1>2, BusyFacts
<1>4. StoreTypeOK'
  BY Zenon, <1>1, <1>3, StoreTypes
<1>5. CASE state[Previous(t)].b
  <2>1. Goto(t, "give_up")
    BY Zenon, <1>5 DEF Claim
  <2>2. KeepsFlags
    BY Zenon, <1>2, <1>3, <1>5, StateOf DEF KeepsFlags
  <2>3. \A R \in Roles : ("give_up" \in R) = (th[t].pc \in R)
    BY <1>1 DEF Roles, Looking, Evicting, Filling
  <2> QED BY Zenon, <1>1, <1>4, <2>1, <2>2, <2>3, GotoKeeps DEF OwnersKept, StoreRest, slotVars
<1>6. CASE ~state[Previous(t)].b
  <2>1. PICK l \in Evicting : Goto(t, l) /\ l # "exchange"
    <3>1. setup.evict \in {"direct", "scheduler", "victim", "victim_only"}
      BY Zenon, PlanAssumption DEF StoreTypeOK
    <3>2. AfterEvict[setup.evict] \in {"write", "enqueue", "swap"}
      BY <3>1 DEF AfterEvict
    <3>3. Goto(t, "unclaim") \/ Goto(t, AfterEvict[setup.evict]) \/ Goto(t, "clear")
      BY Zenon, <1>6 DEF Claim
    <3> QED BY Zenon, <3>2, <3>3 DEF Evicting
  <2>2. OnlyMoves(t) /\ th'[t].pc = l /\ th'[t].slot = th[t].slot /\ ThreadTypeOK'
    BY Zenon, <1>1, <2>1, GotoFacts DEF StoreRest
  <2>3. OwnInv'
    BY Zenon, <1>1, <1>3, <1>6, <2>1, <2>2, ClaimKeepsOwners DEF StoreRest, slotVars
  <2> QED BY Zenon, <1>4, <2>2, <2>3 DEF OwnersKept
<1> QED BY Zenon, <1>5, <1>6

\* Unclaim gives BUSY of a pinned page back.
LEMMA UnclaimKeeps ==
  ASSUME StoreTypeOK, ThreadTypeOK, OwnInv, NEW t \in Threads, Unclaim(t), setup' = setup
  PROVE  OwnersKept
<1>1. /\ UNCHANGED StoreRest /\ th[t].pc = "unclaim" /\ BusySet(Previous(t), FALSE)
      /\ Goto(t, "give_up")
  BY Zenon DEF Unclaim, At, StoreRest, BusySet
<1>2. Previous(t) \in Pages
  BY Zenon, <1>1, EvictedPage DEF LocksSlot, Evicting
<1>3. /\ state' \in [Pages -> PageStates]
      /\ \A q \in Pages : /\ state'[q].v = state[q].v
                          /\ q # Previous(t) => state'[q].b = state[q].b
  BY Zenon, <1>1, <1>2, BusyFacts
<1>4. OnlyMoves(t) /\ th'[t].pc = "give_up" /\ th'[t].slot = th[t].slot /\ ThreadTypeOK'
  BY Zenon, <1>1, GotoFacts
<1>5. StoreTypeOK'
  BY Zenon, <1>1, <1>3, StoreTypes
<1>6. OwnInv'
  BY Zenon, <1>1, <1>3, <1>4, UnclaimKeepsOwners DEF StoreRest, slotVars
<1> QED BY Zenon, <1>4, <1>5, <1>6 DEF OwnersKept

\* Giving up unlocks the slot with its page in it.
LEMMA GiveUpKeeps ==
  ASSUME StoreTypeOK, ThreadTypeOK, OwnInv, NEW t \in Threads, GiveUp(t), setup' = setup
  PROVE  OwnersKept
<1>1. /\ th[t].pc = "give_up" /\ take_lock' = [take_lock EXCEPT ![th[t].slot] = "UNLOCKED"]
      /\ Goto(t, "find")
      /\ UNCHANGED <<setup, state, offset, translation, page_ticket, buffer, victim,
                     alloc_ticket>>
  BY Zenon DEF GiveUp, At, bufferVars, victimVars
<1>2. OnlyMoves(t) /\ th'[t].pc = "find" /\ ThreadTypeOK'
  BY Zenon, <1>1, GotoFacts
<1>3. StoreTypeOK'
  BY Zenon, <1>1 DEF StoreTypeOK
<1>4. OwnInv'
  BY Zenon, <1>1, <1>2, GiveUpKeepsOwners
<1> QED BY Zenon, <1>2, <1>3, <1>4 DEF OwnersKept

\* The steps by which a dirty page leaves through a queue pair or the scheduler,
\* and the read.
LEMMA TransferKeeps ==
  ASSUME StoreTypeOK, ThreadTypeOK, OwnInv, NEW t \in Threads, setup' = setup,
         WriteOut(t) \/ EnqueueWrite(t) \/ AwaitWrite(t) \/ EnqueueForget(t)
           \/ WriteFallback(t) \/ ReadIn(t) \/ Use(t)
  PROVE  OwnersKept
<1>1. /\ UNCHANGED StoreRest /\ state' = state
      /\ \/ /\ \E l \in {"clear", "wait"} : Goto(t, l)
            /\ th[t].pc \in {"write", "enqueue", "wait", "forget", "fallback"}
         \/ Goto(t, "publish") /\ th[t].pc = "read"
         \/ Goto(t, "release") /\ th[t].pc = "use"
  BY Zenon DEF WriteOut, EnqueueWrite, AwaitWrite, EnqueueForget, WriteFallback, ReadIn, Use, At,
         StoreRest
<1>2. CASE /\ \E l \in {"clear", "wait"} : Goto(t, l)
           /\ th[t].pc \in {"write", "enqueue", "wait", "forget", "fallback"}
  <2>1. PICK l \in {"clear", "wait"} : Goto(t, l)
    BY Zenon, <1>2
  <2>2. \A R \in Roles : (l \in R) = (th[t].pc \in R)
    BY <1>2 DEF Roles, Looking, Evicting, Filling
  <2> QED BY <1>1, <1>2, <2>1, <2>2, GotoOnly
<1>3. CASE Goto(t, "publish") /\ th[t].pc = "read"
  <2>1. \A R \in Roles : ("publish" \in R) = (th[t].pc \in R)
    BY <1>3 DEF Roles, Looking, Evicting, Filling
  <2> QED BY Zenon, <1>1, <1>3, <2>1, GotoOnly
<1>4. CASE Goto(t, "release") /\ th[t].pc = "use"
  <2>1. \A R \in Roles : ("release" \in R) = (th[t].pc \in R)
    BY <1>4 DEF Roles, Looking, Evicting, Filling
  <2> QED BY Zenon, <1>1, <1>4, <2>1, GotoOnly
<1> QED BY Zenon, <1>1, <1>2, <1>3, <1>4

\* Claiming a victim entry changes no slot.
LEMMA ClaimEntryKeeps ==
  ASSUME StoreTypeOK, ThreadTypeOK, OwnInv, NEW t \in Threads, ClaimEntry(t), setup' = setup
  PROVE  OwnersKept
<1>1. /\ UNCHANGED <<setup, state, offset, take_lock, translation, page_ticket, buffer>>
      /\ th[t].pc = "swap" /\ alloc_ticket' = (alloc_ticket + 1) % NVictims
  BY Zenon DEF ClaimEntry, At, slotVars, bufferVars
<1>2. NextEntry \in Victims /\ alloc_ticket' \in Nat
  <2>1. NVictims \in Nat \ {0} /\ alloc_ticket \in Nat
    BY Zenon, CacheAssumption DEF StoreTypeOK
  <2> QED BY SMTT(20), <1>1, <2>1 DEF NextEntry, Victims
<1>3. StoreTypeOK'
  <2>1. victim' \in [Victims -> [st : {"FREE", "COPYING", "OCCUPIED"}, buffer : Nat, page : Int]]
    <3>1. victim' = victim \/ victim' = [victim EXCEPT ![NextEntry].st = "COPYING"]
      BY Zenon DEF ClaimEntry
    <3> QED BY <1>2, <3>1 DEF StoreTypeOK
  <2> QED BY Zenon, <1>1, <1>2, <2>1 DEF StoreTypeOK
<1>4. KeepsFlags
  BY Zenon, <1>1 DEF KeepsFlags
<1>5. CASE victim[NextEntry].st = "FREE"
  <2>1. Resume(t, "exchange", th[t].n, th[t].st, th[t].slot, NextEntry)
    BY Zenon, <1>5 DEF ClaimEntry
  <2>2. /\ th'[t].pc = "exchange" /\ th'[t].n = th[t].n /\ th'[t].slot = th[t].slot
        /\ \A u \in Threads \ {t} : th'[u] = th[u]
    BY ZenonT(40), <2>1, ResumeFacts
  <2>3. ThreadTypeOK'
    BY Zenon, <1>1, <1>2, <2>1, InAccess, ResumeTypes
  <2>4. KeepsRole(t)
    BY <1>1, <2>2 DEF KeepsRole, Roles, Looking, Evicting, Filling
  <2> QED BY Zenon, <1>1, <1>3, <1>4, <2>2, <2>3, <2>4, RoleStep DEF OwnersKept
<1>6. CASE victim[NextEntry].st # "FREE"
  <2>1. PICK l \in {"enqueue", "fallback"} : Goto(t, l)
    BY Zenon, <1>6 DEF ClaimEntry
  <2>2. \A R \in Roles : (l \in R) = (th[t].pc \in R)
    BY <1>1 DEF Roles, Looking, Evicting, Filling
  <2> QED BY Zenon, <1>1, <1>3, <1>4, <2>1, <2>2, GotoKeeps DEF OwnersKept
<1> QED BY Zenon, <1>5, <1>6

\* The exchange moves buffers, not pages.
LEMMA ExchangeKeeps ==
  ASSUME StoreTypeOK, ThreadTypeOK, OwnInv, NEW t \in Threads, Exchange(t), setup' = setup
  PROVE  OwnersKept
<1>1. /\ UNCHANGED <<setup, state, offset, take_lock, translation, page_ticket, alloc_ticket>>
      /\ th[t].pc = "exchange"
      /\ buffer' = [buffer EXCEPT ![th[t].slot] = victim[th[t].entry].buffer]
      /\ victim' = [victim EXCEPT ![th[t].entry] =
                      [st |-> "OCCUPIED", buffer |-> buffer[th[t].slot], page |-> Previous(t)]]
  BY Zenon DEF Exchange, At, slotVars
<1>2. th[t].slot \in Slots /\ th[t].entry \in Victims /\ Previous(t) \in Pages
  BY Zenon, <1>1, EvictedPage DEF ThreadTypeOK, LocksSlot, Evicting
<1>3. StoreTypeOK'
  <2>1. victim[th[t].entry].buffer \in Nat /\ buffer[th[t].slot] \in Nat /\ Previous(t) \in Int
    BY <1>2 DEF StoreTypeOK, Pages
  <2>2. [st |-> "OCCUPIED", buffer |-> buffer[th[t].slot], page |-> Previous(t)]
          \in [st : {"FREE", "COPYING", "OCCUPIED"}, buffer : Nat, page : Int]
    BY Zenon, <2>1
  <2>3. /\ victim' \in [Victims -> [st : {"FREE", "COPYING", "OCCUPIED"}, buffer : Nat,
                                   page : Int]]
        /\ buffer' \in [Slots -> Nat]
    BY Zenon, <1>1, <2>1, <2>2 DEF StoreTypeOK
  <2> QED BY Zenon, <1>1, <2>3 DEF StoreTypeOK
<1>4. PICK l \in {"forget", "clear"} : Goto(t, l)
  BY Zenon DEF Exchange
<1>5. \A R \in Roles : (l \in R) = (th[t].pc \in R)
  BY <1>1 DEF Roles, Looking, Evicting, Filling
<1>6. KeepsFlags
  BY Zenon, <1>1 DEF KeepsFlags
<1> QED BY Zenon, <1>1, <1>3, <1>4, <1>5, <1>6, GotoKeeps DEF OwnersKept

\* Clear invalidates the evicted page and gives its BUSY back.
LEMMA ClearKeeps ==
  ASSUME StoreTypeOK, ThreadTypeOK, OwnInv, NEW t \in Threads, Clear(t), setup' = setup
  PROVE  OwnersKept
<1>1. UNCHANGED StoreRest /\ th[t].pc = "clear" /\ Goto(t, "assign")
  BY Zenon DEF Clear, At, StoreRest
<1>2. Previous(t) \in Pages
  BY Zenon, <1>1, EvictedPage DEF LocksSlot, Evicting
<1>3. state' = [state EXCEPT ![Previous(t)] =
                  [v |-> FALSE, b |-> FALSE, d |-> FALSE, cnt |-> state[Previous(t)].cnt]]
  BY Zenon DEF Clear
<1>4. /\ state' \in [Pages -> PageStates] /\ ~state'[Previous(t)].v
      /\ \A q \in Pages : q # Previous(t) =>
           state'[q].v = state[q].v /\ state'[q].b = state[q].b
  <2>1. state \in [Pages -> PageStates] /\ state[Previous(t)].cnt \in Int
    BY Zenon, <1>2, StateOf DEF StoreTypeOK, PageStates
  <2>2. [v |-> FALSE, b |-> FALSE, d |-> FALSE, cnt |-> state[Previous(t)].cnt] \in PageStates
    BY Zenon, <2>1 DEF PageStates
  <2> QED BY Zenon, <1>2, <1>3, <2>1, <2>2
<1>5. OnlyMoves(t) /\ th'[t].pc = "assign" /\ th'[t].slot = th[t].slot /\ ThreadTypeOK'
  BY Zenon, <1>1, GotoFacts
<1>6. StoreTypeOK'
  BY Zenon, <1>1, <1>4, StoreTypes
<1>7. OwnInv'
  BY Zenon, <1>1, <1>4, <1>5, ClearKeepsOwners DEF StoreRest, slotVars
<1> QED BY Zenon, <1>5, <1>6, <1>7 DEF OwnersKept

\* Assign gives the emptied slot to the page of its thread and unlocks it.
LEMMA AssignKeeps ==
  ASSUME StoreTypeOK, ThreadTypeOK, OwnInv, NEW t \in Threads, Assign(t), setup' = setup
  PROVE  OwnersKept
<1>1. /\ th[t].pc = "assign" /\ take_lock' = [take_lock EXCEPT ![th[t].slot] = "UNLOCKED"]
      /\ translation' = [translation EXCEPT ![th[t].slot] = Page(t)]
      /\ Goto(t, "read")
      /\ UNCHANGED <<setup, state, offset, page_ticket, buffer, victim, alloc_ticket>>
  BY Zenon DEF Assign, At, bufferVars, victimVars
<1>2. OnlyMoves(t) /\ th'[t].pc = "read" /\ th'[t].slot = th[t].slot /\ ThreadTypeOK'
  BY Zenon, <1>1, GotoFacts
<1>3. StoreTypeOK'
  BY Zenon, <1>1, InAccess DEF StoreTypeOK
<1>4. OwnInv'
  BY Zenon, <1>1, <1>2, AssignKeepsOwners
<1> QED BY Zenon, <1>2, <1>3, <1>4 DEF OwnersKept

\* Publish sets VALID and clears BUSY of the page that was read in.
LEMMA PublishKeeps ==
  ASSUME StoreTypeOK, ThreadTypeOK, OwnInv, NEW t \in Threads, Publish(t), setup' = setup
  PROVE  OwnersKept
<1>1. /\ th[t].pc = "publish" /\ offset' = [offset EXCEPT ![Page(t)] = th[t].slot]
      /\ UNCHANGED <<setup, slotVars, bufferVars, victimVars>> /\ Goto(t, Acquired(t))
  BY Zenon DEF Publish, At
<1>2. Page(t) \in Pages /\ th[t].slot \in Slots
  BY Zenon, <1>1, InAccess
<1>3. /\ state' \in [Pages -> PageStates] /\ state'[Page(t)].v = ~state[Page(t)].v
      /\ \A q \in Pages : q # Page(t) => state'[q].v = state[q].v /\ state'[q].b = state[q].b
  <2>1. PICK d \in BOOLEAN : state' = [state EXCEPT ![Page(t)] =
          [v |-> ~state[Page(t)].v, b |-> ~state[Page(t)].b, d |-> d,
           cnt |-> state[Page(t)].cnt]]
    BY Zenon DEF Publish
  <2>2. state \in [Pages -> PageStates] /\ state[Page(t)].cnt \in Int
    BY Zenon, <1>2, StateOf DEF StoreTypeOK, PageStates
  <2>3. [v |-> ~state[Page(t)].v, b |-> ~state[Page(t)].b, d |-> d,
         cnt |-> state[Page(t)].cnt] \in PageStates
    BY Zenon, <2>2 DEF PageStates
  <2> QED BY Zenon, <1>2, <2>1, <2>2, <2>3
<1>4. /\ OnlyMoves(t) /\ th'[t].pc \in {"mark", "use"} /\ ThreadTypeOK'
  BY Zenon, <1>1, GotoFacts DEF Acquired
<1>5. StoreTypeOK'
  BY Zenon, <1>1, <1>2, <1>3 DEF StoreTypeOK, PageStates, slotVars, bufferVars, victimVars
<1>6. OwnInv'
  BY Zenon, <1>1, <1>3, <1>4, PublishKeepsOwners DEF slotVars
<1> QED BY Zenon, <1>4, <1>5, <1>6 DEF OwnersKept

\* Mark sets the DIRTY of some page and nothing else.
LEMMA MarkKeeps ==
  ASSUME StoreTypeOK, ThreadTypeOK, OwnInv, NEW t \in Threads, Mark(t), setup' = setup
  PROVE  OwnersKept
<1>1. /\ UNCHANGED StoreRest /\ th[t].pc = "mark" /\ DirtySet(th[t].slot, TRUE)
      /\ Goto(t, "use")
  BY Zenon DEF Mark, At, StoreRest, DirtySet
<1>2. th[t].slot \in Pages
  <2>1. th[t].slot \in Slots
    BY Zenon, <1>1, InAccess
  <2> QED BY <2>1, CacheAssumption DEF Slots, Pages
<1>3. state' \in [Pages -> PageStates] /\ KeepsFlags
  BY Zenon, <1>1, <1>2, DirtyFacts
<1>4. StoreTypeOK'
  BY Zenon, <1>1, <1>3, StoreTypes
<1>5. \A R \in Roles : ("use" \in R) = (th[t].pc \in R)
  BY <1>1 DEF Roles, Looking, Evicting, Filling
<1> QED BY ZenonT(40), <1>1, <1>3, <1>4, <1>5, GotoKeeps DEF OwnersKept, StoreRest, slotVars

\* Releasing a page lowers its count and ends the access.
LEMMA ReleaseKeeps ==
  ASSUME StoreTypeOK, ThreadTypeOK, OwnInv, NEW t \in Threads, release_page(t), setup' = setup
  PROVE  OwnersKept
<1>1. /\ UNCHANGED StoreRest /\ th[t].pc = "release"
      /\ CountSet(Page(t), state[Page(t)].cnt - Access(t).lanes)
      /\ Resume(t, "next", th[t].n, 0, 0, 0)
  BY Zenon DEF release_page, At, StoreRest, CountSet
<1>2. /\ th[t].n \in 0 .. Len(Plan(t)) /\ Page(t) \in Pages /\ Access(t).lanes \in Nat
      /\ 0 \in Slots
  BY <1>1, InAccess, CacheAssumption DEF Slots
<1>3. state' \in [Pages -> PageStates] /\ KeepsFlags
  <2>1. state[Page(t)].cnt - Access(t).lanes \in Int
    BY <1>2, StateOf
  <2> QED BY ZenonT(40), <1>1, <1>2, <2>1, CountFacts
<1>4. StoreTypeOK'
  BY Zenon, <1>1, <1>3, StoreTypes
<1>5. ThreadTypeOK' /\ OwnInv'
  BY Zenon, <1>1, <1>2, <1>3, RestingStep DEF Resting, StoreRest, slotVars
<1> QED BY Zenon, <1>4, <1>5 DEF OwnersKept

\* Every step of a thread keeps the owners.
LEMMA ThreadKeeps ==
  ASSUME StoreTypeOK, ThreadTypeOK, OwnInv, NEW t \in Threads, Thread(t)
  PROVE  OwnersKept
<1>1. setup' = setup
  BY Zenon DEF Thread, history
<1>2. CASE acquire_page(t) \/ Mark(t) \/ Use(t)
  <2>1. CASE Pin(t) \/ Reload(t) \/ SetBusy(t) \/ ClearBusy(t) \/ Hit(t)
    BY <1>1, <2>1, PinKeeps, ReloadKeeps, SetBusyKeeps, ClearBusyKeeps, HitKeeps, Zenon
  <2>2. CASE TakeSlot(t) \/ Inspect(t) \/ Claim(t) \/ Unclaim(t) \/ GiveUp(t)
    BY <1>1, <2>2, TakeSlotKeeps, InspectKeeps, ClaimKeeps, UnclaimKeeps, GiveUpKeeps, Zenon
  <2>3. CASE WriteOut(t) \/ EnqueueWrite(t) \/ AwaitWrite(t) \/ EnqueueForget(t)
               \/ WriteFallback(t) \/ ReadIn(t) \/ Use(t)
    BY <1>1, <2>3, TransferKeeps, Zenon
  <2>4. CASE ClaimEntry(t) \/ Exchange(t) \/ Clear(t) \/ Assign(t) \/ Publish(t) \/ Mark(t)
    BY <1>1, <2>4, ClaimEntryKeeps, ExchangeKeeps, ClearKeeps, AssignKeeps, PublishKeeps,
       MarkKeeps, Zenon
  <2> QED BY <1>2, <2>1, <2>2, <2>3, <2>4, Zenon DEF acquire_page, find_slot
<1>3. CASE release_page(t)
  BY Zenon, <1>1, <1>3, ReleaseKeeps
<1> QED BY <1>2, <1>3, Zenon DEF Thread

---------------------------------------------------------------------------
(* The scheduler and the flush *)

\* The scheduler behind the cache touches no slot and no lock.
LEMMA SchedulerKeeps ==
  ASSUME StoreTypeOK, ThreadTypeOK, OwnInv, Scheduler
  PROVE  OwnersKept
<1>1. PICK r \in requests : Perform(r) \/ Notify(r)
  BY Zenon DEF Scheduler
<1>2. UNCHANGED <<setup, state, offset, slotVars, buffer, alloc_ticket, th>>
  BY Zenon, <1>1 DEF Perform, Notify, history, bufferVars, victimVars
<1>3. victim' \in [Victims -> [st : {"FREE", "COPYING", "OCCUPIED"}, buffer : Nat, page : Int]]
  <2>1. CASE victim' = victim
    BY Zenon, <2>1 DEF StoreTypeOK
  <2>2. CASE victim' = [victim EXCEPT ![r.entry] =
                          [st |-> "FREE", buffer |-> victim[r.entry].buffer, page |-> NoPage]]
    <3>1. CASE r.entry \in Victims
      <4>1. [st |-> "FREE", buffer |-> victim[r.entry].buffer, page |-> NoPage]
              \in [st : {"FREE", "COPYING", "OCCUPIED"}, buffer : Nat, page : Int]
        BY <3>1 DEF StoreTypeOK, NoPage
      <4> QED BY ZenonT(40), <2>2, <3>1, <4>1 DEF StoreTypeOK
    <3>2. CASE r.entry \notin Victims
      BY Zenon, <2>2, <3>2 DEF StoreTypeOK
    <3> QED BY Zenon, <3>1, <3>2
  <2> QED BY Zenon, <1>1, <2>1, <2>2 DEF Perform, Notify, victimVars
<1>4. StoreTypeOK'
  BY Zenon, <1>2, <1>3 DEF StoreTypeOK, slotVars
<1>5. ThreadTypeOK'
  BY Zenon, <1>2 DEF ThreadTypeOK, Plan
<1>6. KeepsFlags /\ \A u \in Threads : KeepsRole(u)
  BY Zenon, <1>2 DEF KeepsFlags, KeepsRole
<1>7. OwnInv'
  BY Zenon, <1>2, <1>6, RolesKept DEF slotVars
<1> QED BY Zenon, <1>4, <1>5, <1>7 DEF OwnersKept

\* The flush cleans pages and changes no owner.
LEMMA FlushKeeps ==
  ASSUME StoreTypeOK, ThreadTypeOK, OwnInv, flush_cache
  PROVE  OwnersKept
<1>1. PICK s \in Slots : __flush(s)
  BY Zenon DEF flush_cache
<1>2. UNCHANGED StoreRest /\ th' = th
  BY Zenon, <1>1 DEF __flush, StoreRest
<1>3. PICK p \in IF take_lock[s] = "FREE" THEN Pages ELSE {translation[s]} :
        state' = state \/ DirtySet(p, FALSE)
  BY ZenonT(40), <1>1 DEF __flush, DirtySet
<1>4. p \in Pages
  BY <1>3 DEF OwnInv, SlotsInv
<1>5. state' \in [Pages -> PageStates] /\ KeepsFlags
  BY Zenon, <1>3, <1>4, DirtyFacts DEF KeepsFlags, StoreTypeOK, PageStates
<1>6. StoreTypeOK'
  BY Zenon, <1>2, <1>5, StoreTypes
<1>7. ThreadTypeOK'
  BY Zenon, <1>2 DEF ThreadTypeOK, Plan, StoreRest
<1>8. \A u \in Threads : KeepsRole(u)
  BY Zenon, <1>2 DEF KeepsRole
<1>9. OwnInv'
  BY Zenon, <1>2, <1>5, <1>8, RolesKept DEF StoreRest, slotVars
<1> QED BY Zenon, <1>6, <1>7, <1>9 DEF OwnersKept

---------------------------------------------------------------------------
(* Buffers *)

Buffers == {buffer[s] : s \in Slots} \cup {victim[v].buffer : v \in Victims}

\* The exchange passes two buffers on.
LEMMA ExchangeBuffers ==
  ASSUME StoreTypeOK, ThreadTypeOK, NEW t \in Threads, Exchange(t)
  PROVE  Buffers' = Buffers
<1> DEFINE s == th[t].slot
           v == th[t].entry
<1>1. s \in Slots /\ v \in Victims
  BY Zenon DEF Exchange, At, ThreadTypeOK
<1>2. /\ buffer' = [buffer EXCEPT ![s] = victim[v].buffer]
      /\ victim' = [victim EXCEPT ![v] =
                      [st |-> "OCCUPIED", buffer |-> buffer[s], page |-> Previous(t)]]
  BY Zenon DEF Exchange
<1>3. /\ buffer'[s] = victim[v].buffer /\ \A r \in Slots \ {s} : buffer'[r] = buffer[r]
      /\ victim'[v].buffer = buffer[s]
      /\ \A w \in Victims \ {v} : victim'[w].buffer = victim[w].buffer
  BY Zenon, <1>1, <1>2 DEF StoreTypeOK
<1> HIDE DEF s, v
<1>4. ASSUME NEW x \in Buffers' PROVE x \in Buffers
  BY <1>1, <1>3 DEF Buffers
<1>5. ASSUME NEW x \in Buffers PROVE x \in Buffers'
  <2>1. CASE \E r \in Slots : x = buffer[r]
    <3>1. PICK r \in Slots : x = buffer[r]
      BY Zenon, <2>1
    <3>2. CASE r = s
      BY Zenon, <3>1, <3>2, <1>1, <1>3 DEF Buffers
    <3>3. CASE r # s
      BY Zenon, <3>1, <3>3, <1>3 DEF Buffers
    <3> QED BY Zenon, <3>2, <3>3
  <2>2. CASE \E w \in Victims : x = victim[w].buffer
    <3>1. PICK w \in Victims : x = victim[w].buffer
      BY Zenon, <2>2
    <3>2. CASE w = v
      BY Zenon, <3>1, <3>2, <1>1, <1>3 DEF Buffers
    <3>3. CASE w # v
      BY Zenon, <3>1, <3>3, <1>3 DEF Buffers
    <3> QED BY Zenon, <3>2, <3>3
  <2> QED BY Zenon, <2>1, <2>2 DEF Buffers
<1> QED BY Zenon, <1>4, <1>5

\* Every step keeps the set of buffers: only the exchange moves any.
LEMMA NextBuffers ==
  ASSUME StoreTypeOK, ThreadTypeOK, [Next]_vars
  PROVE  Buffers' = Buffers
<1>1. ASSUME NEW t \in Threads, Thread(t) PROVE Buffers' = Buffers
  <2>1. CASE Exchange(t)
    BY Zenon, <2>1, ExchangeBuffers
  <2>2. CASE ClaimEntry(t)
    <3>1. buffer' = buffer
      BY Zenon, <2>2 DEF ClaimEntry, bufferVars
    <3>2. victim' = victim \/ victim' = [victim EXCEPT ![NextEntry].st = "COPYING"]
      BY Zenon, <2>2 DEF ClaimEntry
    <3>3. \A v \in Victims : victim'[v].buffer = victim[v].buffer
      BY <3>2 DEF StoreTypeOK
    <3> QED BY Zenon, <3>1, <3>3 DEF Buffers
  <2>3. CASE ~Exchange(t) /\ ~ClaimEntry(t)
    <3>1. UNCHANGED <<buffer, victim>>
      <4>1. CASE Pin(t) \/ Reload(t) \/ SetBusy(t) \/ ClearBusy(t) \/ Hit(t) \/ TakeSlot(t)
                   \/ Inspect(t) \/ Claim(t) \/ Unclaim(t) \/ GiveUp(t)
        BY Zenon, <4>1 DEF Pin, Reload, SetBusy, ClearBusy, Hit, TakeSlot, Inspect, Claim, Unclaim,
                    GiveUp, bufferVars, victimVars
      <4>2. CASE WriteOut(t) \/ EnqueueWrite(t) \/ AwaitWrite(t) \/ EnqueueForget(t)
                   \/ WriteFallback(t) \/ Clear(t) \/ Assign(t) \/ ReadIn(t) \/ Publish(t)
                   \/ Mark(t) \/ Use(t) \/ release_page(t)
        BY Zenon, <4>2 DEF WriteOut, EnqueueWrite, AwaitWrite, EnqueueForget, WriteFallback, Clear,
                    Assign, ReadIn, Publish, Mark, Use, release_page, bufferVars, victimVars
      <4> QED BY <1>1, <2>3, <4>1, <4>2, Zenon DEF Thread, acquire_page, find_slot
    <3> QED BY Zenon, <3>1 DEF Buffers
  <2> QED BY Zenon, <2>1, <2>2, <2>3
<1>2. ASSUME Scheduler PROVE Buffers' = Buffers
  <2>1. PICK r \in requests : Perform(r) \/ Notify(r)
    BY Zenon, <1>2 DEF Scheduler
  <2>2. buffer' = buffer
    BY Zenon, <2>1 DEF Perform, Notify, bufferVars
  <2>3. \/ victim' = victim
        \/ victim' = [victim EXCEPT ![r.entry] =
                        [st |-> "FREE", buffer |-> victim[r.entry].buffer, page |-> NoPage]]
    BY Zenon, <2>1 DEF Perform, Notify, victimVars
  <2>4. \A v \in Victims : victim'[v].buffer = victim[v].buffer
    BY SMTT(20), <2>3 DEF StoreTypeOK
  <2> QED BY Zenon, <2>2, <2>4 DEF Buffers
<1>3. ASSUME flush_cache \/ UNCHANGED vars PROVE Buffers' = Buffers
  <2>1. UNCHANGED <<buffer, victim>>
    BY Zenon, <1>3 DEF flush_cache, __flush, vars, bufferVars, victimVars
  <2> QED BY Zenon, <2>1 DEF Buffers
<1> QED BY <1>1, <1>2, <1>3, Zenon DEF Next

---------------------------------------------------------------------------
(* The theorems *)

\* A cold cache, and a warm one with page i in slot i, satisfy CacheInv.
LEMMA InitOwners ==
  ASSUME Init
  PROVE  CacheInv
<1>1. /\ setup \in Setups /\ setup.warm \in BOOLEAN
      /\ NPages \in Nat \ {0} /\ NSlots \in Nat \ {0} /\ NVictims \in Nat \ {0}
      /\ NSlots <= NPages
  BY Zenon, CacheAssumption, PlanAssumption DEF Init
<1>2. /\ state = [p \in Pages |-> [v |-> setup.warm /\ p \in Slots, b |-> FALSE, d |-> FALSE,
                                   cnt |-> 0]]
      /\ offset = [p \in Pages |-> IF p \in Slots THEN p ELSE 0]
      /\ take_lock = [s \in Slots |-> IF setup.warm THEN "UNLOCKED" ELSE "FREE"]
      /\ translation = [s \in Slots |-> IF setup.warm THEN s ELSE NoPage]
      /\ page_ticket = 0 /\ alloc_ticket = 0
      /\ buffer = [s \in Slots |-> s]
      /\ victim = [v \in Victims |-> [st |-> "FREE", buffer |-> NSlots + v, page |-> NoPage]]
      /\ th = [t \in Threads |-> Idle]
  BY Zenon DEF Init, PageState
<1>3. Slots \subseteq Pages /\ 0 \in Slots /\ Slots \subseteq Nat /\ Victims \subseteq Nat
      /\ NoPage \in Int
  BY <1>1 DEF Slots, Pages, Victims, NoPage
<1>4. StoreTypeOK
  <2>1. state \in [Pages -> [v : BOOLEAN, b : BOOLEAN, d : BOOLEAN, cnt : Int]]
    BY <1>2
  <2>2. /\ offset \in [Pages -> Slots] /\ translation \in [Slots -> Pages \cup {NoPage}]
        /\ take_lock \in [Slots -> {"FREE", "UNLOCKED", "LOCKED"}]
        /\ page_ticket \in Slots /\ alloc_ticket \in Nat /\ buffer \in [Slots -> Nat]
    BY Zenon, <1>2, <1>3
  <2>3. \A v \in Victims : NSlots + v \in Nat
    BY <1>1, <1>3
  <2>4. victim \in [Victims -> [st : {"FREE", "COPYING", "OCCUPIED"}, buffer : Nat, page : Int]]
    BY Zenon, <1>2, <1>3, <2>3
  <2> QED BY Zenon, <1>1, <2>1, <2>2, <2>4 DEF StoreTypeOK
<1>5. \A t \in Threads : th[t].pc = "next" /\ th[t].n = 0 /\ th[t].slot = 0
  BY Zenon, <1>2 DEF Idle
<1>6. ThreadTypeOK
  <2>1. th = [t \in Threads |-> [pc |-> th[t].pc, n |-> th[t].n, st |-> th[t].st,
                                slot |-> th[t].slot, entry |-> th[t].entry]]
    BY Zenon, <1>2 DEF Idle
  <2>2. \A t \in Threads : Len(Plan(t)) \in Nat
    BY <1>1, PlanAssumption DEF Plan
  <2> QED BY SMTT(20), <1>3, <1>5, <2>1, <2>2 DEF ThreadTypeOK
<1>7. \A t \in Threads : /\ ~LocksSlot(t) /\ ~Loads(t) /\ th[t].pc \notin Evicting
                         /\ \A s : ~Fills(t, s)
                         /\ \A p : ~HoldsBusy(t, p)
  BY Zenon, <1>5 DEF LocksSlot, Loads, Fills, HoldsBusy, Looking, Evicting, Filling
<1>8. LocksInv /\ BusyInv
  BY Zenon, <1>7 DEF LocksInv, BusyInv
<1>9. SlotsInv
  <2>1. CASE setup.warm
    <3>1. /\ \A s \in Slots : take_lock[s] # "FREE" /\ translation[s] = s
          /\ \A p \in Pages : state[p].v <=> p \in Slots
          /\ \A p \in Slots : offset[p] = p
      BY Zenon, <1>2, <1>3, <2>1
    <3> QED BY Zenon, <1>3, <1>5, <1>7, <3>1 DEF SlotsInv
  <2>2. CASE ~setup.warm
    <3>1. (\A s \in Slots : take_lock[s] = "FREE") /\ \A p \in Pages : ~state[p].v
      BY Zenon, <1>2, <2>2
    <3> QED BY Zenon, <1>5, <1>7, <3>1 DEF SlotsInv
  <2> QED BY Zenon, <2>1, <2>2
<1>10. BuffersInv
  <2>1. (\A s \in Slots : buffer[s] = s) /\ \A v \in Victims : victim[v].buffer = NSlots + v
    BY Zenon, <1>2
  <2>2. ASSUME NEW x \in 0 .. NSlots + NVictims - 1 PROVE x \in Buffers
    <3>1. CASE x < NSlots
      BY <1>1, <2>1, <3>1 DEF Buffers, Slots
    <3>2. CASE x >= NSlots
      <4>1. x - NSlots \in Victims /\ NSlots + (x - NSlots) = x
        BY <1>1, <3>2 DEF Victims
      <4> QED BY Zenon, <2>1, <4>1 DEF Buffers
    <3> QED BY SMTT(20), <1>1, <3>1, <3>2
  <2>3. ASSUME NEW x \in Buffers PROVE x \in 0 .. NSlots + NVictims - 1
    BY <1>1, <2>1, <2>3 DEF Buffers, Slots, Victims
  <2> QED BY Zenon, <2>2, <2>3 DEF BuffersInv, Buffers
<1> QED BY Zenon, <1>4, <1>6, <1>8, <1>9, <1>10 DEF CacheInv, OwnInv

\* Every step keeps CacheInv.
LEMMA NextOwners ==
  ASSUME CacheInv, [Next]_vars
  PROVE  CacheInv'
<1>1. StoreTypeOK /\ ThreadTypeOK /\ OwnInv /\ BuffersInv
  BY Zenon DEF CacheInv
<1>2. BuffersInv'
  BY Zenon, <1>1, NextBuffers DEF BuffersInv, Buffers
<1>3. OwnersKept
  <2>1. CASE UNCHANGED vars
    <3>1. UNCHANGED <<setup, state, offset, take_lock, translation, page_ticket, buffer, victim,
                      alloc_ticket, th>>
      BY Zenon, <2>1 DEF vars, slotVars, bufferVars, victimVars, history
    <3>2. StoreTypeOK' /\ ThreadTypeOK'
      BY ZenonT(40), <1>1, <3>1 DEF StoreTypeOK, ThreadTypeOK, Plan
    <3>3. KeepsFlags /\ \A u \in Threads : KeepsRole(u)
      BY Zenon, <3>1 DEF KeepsFlags, KeepsRole
    <3> QED BY Zenon, <1>1, <3>1, <3>2, <3>3, RolesKept DEF OwnersKept
  <2> QED BY <1>1, <2>1, ThreadKeeps, SchedulerKeeps, FlushKeeps, Zenon DEF Next
<1> QED BY Zenon, <1>2, <1>3 DEF CacheInv, OwnersKept

(***************************************************************************)
(* Whatever the order in which threads miss, lock slots, evict, give up    *)
(* and load, BUSY of a page and the lock of a slot have one owner each,    *)
(* and the page of a slot is the one it was last given.                    *)
(***************************************************************************)
THEOREM CacheInvariance == Spec => []CacheInv
<1>1. Init => CacheInv
  BY Zenon, InitOwners
<1>2. CacheInv /\ [Next]_vars => CacheInv'
  BY ZenonT(40), NextOwners
<1> QED BY <1>1, <1>2, PTL DEF Spec

\* What an unlocked slot holds: the page of its loader, or a valid page.
LEMMA UnlockedSlot ==
  ASSUME StoreTypeOK, ThreadTypeOK, OwnInv, NEW s \in Slots, take_lock[s] = "UNLOCKED"
  PROVE  \/ \E t \in Threads : Fills(t, s)
         \/ state[translation[s]].v /\ offset[translation[s]] = s /\ translation[s] \in Pages
<1>1. ~\E t \in Threads : th[t].pc = "assign" /\ th[t].slot = s
  BY Zenon DEF OwnInv, LocksInv, LocksSlot
<1> QED BY <1>1 DEF OwnInv, SlotsInv

(***************************************************************************)
(* No two unlocked slots hold one page, a valid page is in the slot that   *)
(* it names, and no buffer is lost or shared by an eviction.               *)
(***************************************************************************)
THEOREM SlotsHaveOneOwner == Spec => []OneOwner
<1>1. CacheInv => OneOwner
  <2> SUFFICES ASSUME CacheInv PROVE OneOwner
    BY Zenon
  <2>1. StoreTypeOK /\ ThreadTypeOK /\ OwnInv /\ BuffersInv
    BY Zenon DEF CacheInv
  <2>2. ASSUME NEW s \in Slots, NEW r \in Slots, s # r, take_lock[s] = "UNLOCKED",
               take_lock[r] = "UNLOCKED", translation[s] = translation[r]
        PROVE  FALSE
    <3>1. ASSUME NEW t \in Threads, Fills(t, s), NEW u \in Threads, Fills(u, r) PROVE FALSE
      <4>1. /\ Loads(t) /\ Loads(u) /\ Page(t) \in Pages /\ Page(t) = Page(u)
        BY Zenon, <2>1, <2>2, <3>1, FilledPage
      <4>2. t = u
        BY ZenonT(40), <2>1, <4>1 DEF OwnInv, BusyInv, HoldsBusy
      <4> QED BY Zenon, <2>2, <3>1, <4>2 DEF Fills
    <3>2. ASSUME NEW x \in Slots, NEW t \in Threads, Fills(t, x) PROVE ~state[translation[x]].v
      BY Zenon, <2>1, <3>2, FilledPage
    <3>3. CASE \E t \in Threads : Fills(t, s)
      BY Zenon, <2>1, <2>2, <3>1, <3>2, <3>3, UnlockedSlot
    <3>4. CASE ~\E t \in Threads : Fills(t, s)
      BY ZenonT(40), <2>1, <2>2, <3>2, <3>4, UnlockedSlot
    <3> QED BY Zenon, <3>3, <3>4
  <2>3. \A p \in Pages : state[p].v => translation[offset[p]] = p
    BY Zenon, <2>1 DEF OwnInv, SlotsInv
  <2>4. Cardinality({buffer[s] : s \in Slots} \cup {victim[v].buffer : v \in Victims})
          = NSlots + NVictims
    <3>1. NSlots \in Nat /\ NVictims \in Nat
      BY Zenon, CacheAssumption
    <3>2. 0 \in Int /\ NSlots + NVictims - 1 \in Int
      BY <3>1
    <3>3. Cardinality(0 .. NSlots + NVictims - 1)
            = IF 0 > NSlots + NVictims - 1 THEN 0 ELSE (NSlots + NVictims - 1) - 0 + 1
      BY Zenon, <3>2, FS_Interval
    <3>4. Cardinality(0 .. NSlots + NVictims - 1) = NSlots + NVictims
      BY <3>1, <3>3
    <3>5. {buffer[s] : s \in Slots} \cup {victim[v].buffer : v \in Victims} = 0 .. NSlots + NVictims - 1
      BY Zenon, <2>1 DEF BuffersInv
    <3> QED BY <3>4, <3>5, Zenon
  <2> QED BY Zenon, <2>2, <2>3, <2>4 DEF OneOwner
<1> QED BY <1>1, CacheInvariance, PTL

=============================================================================
