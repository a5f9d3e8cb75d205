----------------------------- MODULE PageCache ----------------------------
(***************************************************************************)
(* The page cache of include/page_cache.h: GPU threads acquire a page of   *)
(* the array, use its buffer and release it.  A miss takes a slot by the   *)
(* clock hand page_ticket, writes the slot's dirty page out and reads the  *)
(* page in.  Eviction writes through a queue pair, through the write       *)
(* scheduler, or by swapping buffers with an entry of the victim buffer.   *)
(*                                                                         *)
(* A thread stands for the lanes of a warp that ask for one page: their    *)
(* master acquires and releases for all of them.  One step is one access   *)
(* to a shared word; words that only the holder of BUSY or of a slot's     *)
(* lock touches are folded into its steps.  Statistics, and the staging    *)
(* buffer, fake delay and controller override of the experiments, are left *)
(* out.                                                                    *)
(***************************************************************************)
EXTENDS Integers, Sequences, FiniteSets

CONSTANTS
  NPages,     \* pages of the range
  NSlots,     \* n_pages of the cache
  NVictims,   \* entries of the victim buffer: a power of two
  Threads,
  Setups      \* what Init chooses from: see Setup

ASSUME CacheAssumption ==
  /\ {NPages, NSlots, NVictims} \subseteq Nat \ {0}
  /\ \A s \in Setups : {s.n_ctrls, s.blocks} \subseteq Nat \ {0}
  /\ NSlots <= NPages  \* Mark indexes the pages with a slot

\* The plans access pages of the range.
ASSUME PlanAssumption ==
  \A s \in Setups :
    /\ s.warm \in BOOLEAN /\ s.evict \in {"direct", "scheduler", "victim", "victim_only"}
    /\ \A t \in Threads :
         s.plan[t] \in Seq([page : 0 .. NPages - 1, lanes : Nat, dirty : BOOLEAN,
                            store : BOOLEAN, mark : BOOLEAN])

VARIABLES
  setup,       \* how the cache is set up, and what the threads do
  state,       \* page -> VALID, BUSY, DIRTY and the count of its pins
  offset,      \* page -> the slot it was loaded into
  take_lock,   \* slot -> FREE, UNLOCKED or LOCKED
  translation, \* slot -> the page assigned to it
  page_ticket,
  buffer,      \* slot -> buffer (page_vaddrs and page_ioaddrs)
  prp_ok,      \* slot -> do prp1 and prp2 describe that buffer
  victim,      \* victim entry -> its state, buffer and page
  alloc_ticket,
  ctrl_counter,
  mem,         \* buffer -> content
  ssd,         \* controller -> block -> content
  requests,    \* requests at the write scheduler
  flushed,     \* slots that flush_cache has visited
  finished,    \* history: page -> writes whose thread has released the page
  th           \* thread -> program counter and locals

slotVars == <<take_lock, translation, page_ticket>>
victimVars == <<victim, alloc_ticket>>
bufferVars == <<buffer, prp_ok>>
ioVars == <<ctrl_counter, mem, ssd, requests>>
history == <<setup, flushed, finished>>
vars == <<state, offset, slotVars, bufferVars, victimVars, ioVars, history, th>>

Pages == 0 .. NPages - 1
Slots == 0 .. NSlots - 1
Victims == 0 .. NVictims - 1
Ctrls == 0 .. setup.n_ctrls - 1
Blocks == setup.blocks
NoPage == -1

(***************************************************************************)
(* A setup: evict says where dirty pages go ("direct", "scheduler",        *)
(* "victim" with the scheduler behind it, "victim_only"); ppe is           *)
(* pages_per_entry and blocks n_blocks_per_page; dist and n_ctrls place    *)
(* the pages; warm says that an earlier kernel has loaded page i into      *)
(* slot i; plan[t] is the sequence of accesses of thread t.                *)
(***************************************************************************)
Plan(t) == setup.plan[t]
Access(t) == Plan(t)[th[t].n]
Page(t) == Access(t).page

(***************************************************************************)
(* The accesses of array_d_t and bam_ptr, for n lanes of a warp that meet  *)
(* on page p: dirty is what they tell acquire_page, store whether the      *)
(* caller writes to the buffer, mark whether bam_ptr sets DIRTY after it.  *)
(* get_raw and a bam_ptr keep the page until release_raw or fini.          *)
(***************************************************************************)
seq_read(p, n) == [page |-> p, lanes |-> n, dirty |-> FALSE, store |-> FALSE, mark |-> FALSE]
seq_write(p, n) == [seq_read(p, n) EXCEPT !.dirty = TRUE, !.store = TRUE]
AtomicAdd(p, n) == [seq_read(p, n) EXCEPT !.dirty = TRUE, !.store = TRUE]
memcpy(p) == seq_read(p, 1)
get_raw(p, n) == seq_read(p, n)
bam_ptr(p, n) == [seq_read(p, n) EXCEPT !.store = TRUE, !.mark = TRUE]

\* Content: which page, and the set of writes it contains.
Fresh(p) == [page |-> p, writes |-> {}]
Garbage == Fresh(NoPage)

Idle == [pc |-> "next", n |-> 0, st |-> 0, slot |-> 0, entry |-> 0]

\* The state word of a page: VALID, BUSY, DIRTY and the reference count.
PageState(v, b, d, cnt) == [v |-> v, b |-> b, d |-> d, cnt |-> cnt]

get_backing_page_(p) == IF setup.dist = "STRIPE" THEN p \div setup.n_ctrls ELSE p

\* The controllers a page is written to: all of them when replicated.
get_backing_ctrl_(p) == IF setup.dist = "STRIPE" THEN {p % setup.n_ctrls} ELSE Ctrls

Init ==
  /\ setup \in Setups
  /\ state = [p \in Pages |-> PageState(setup.warm /\ p \in Slots, FALSE, FALSE, 0)]
  /\ offset = [p \in Pages |-> IF p \in Slots THEN p ELSE 0]
  /\ take_lock = [s \in Slots |-> IF setup.warm THEN "UNLOCKED" ELSE "FREE"]
  /\ translation = [s \in Slots |-> IF setup.warm THEN s ELSE NoPage]
  /\ page_ticket = 0 /\ alloc_ticket = 0 /\ ctrl_counter = 0
  /\ buffer = [s \in Slots |-> s]
  /\ prp_ok = [s \in Slots |-> TRUE]
  /\ victim = [v \in Victims |-> [st |-> "FREE", buffer |-> NSlots + v, page |-> NoPage]]
  /\ mem = [b \in 0 .. NSlots + NVictims - 1 |->
              IF setup.warm /\ b \in Slots THEN Fresh(b) ELSE Garbage]
  /\ ssd = [c \in Ctrls |-> [l \in 0 .. NPages * Blocks - 1 |->
       LET p == {q \in Pages : c \in get_backing_ctrl_(q)
                               /\ l \div Blocks = get_backing_page_(q)}
       IN  IF p = {} THEN Garbage ELSE Fresh(CHOOSE q \in p : TRUE)]]
  /\ requests = {}
  /\ flushed = {}
  /\ finished = [p \in Pages |-> {}]
  /\ th = [t \in Threads |-> Idle]

At(t, label) == th[t].pc = label
Goto(t, label) == th' = [th EXCEPT ![t].pc = label]

\* Go to a label with new locals.
Resume(t, label, n, st, slot, entry) ==
  th' = [th EXCEPT ![t] = [pc |-> label, n |-> n, st |-> st, slot |-> slot, entry |-> entry]]

\* acquire_page returns.
Acquired(t) == IF Access(t).mark THEN "mark" ELSE "use"

---------------------------------------------------------------------------
(* range_d_t::acquire_page *)

\* Pin the page, and look at the state it had.
Pin(t) ==
  /\ At(t, "next")
  /\ th[t].n < Len(Plan(t))
  /\ LET p == Plan(t)[th[t].n + 1].page IN
     /\ state' = [state EXCEPT ![p].cnt = @ + Plan(t)[th[t].n + 1].lanes]
     /\ Resume(t, "check", th[t].n + 1, state[p], th[t].slot, th[t].entry)
  /\ UNCHANGED <<offset, slotVars, bufferVars, victimVars, ioVars>>

\* The page was busy: look again.
Reload(t) ==
  /\ At(t, "check")
  /\ th[t].st.b
  /\ Resume(t, "check", th[t].n, state[Page(t)], th[t].slot, th[t].entry)
  /\ UNCHANGED <<state, offset, slotVars, bufferVars, victimVars, ioVars>>

\* Mutant: a thread that finds BUSY set loads the page all the same.
SetBusyTwice(t) ==
  /\ At(t, "check")
  /\ ~th[t].st.v /\ ~th[t].st.b
  /\ state' = [state EXCEPT ![Page(t)].b = TRUE]
  /\ Resume(t, IF state[Page(t)].v THEN "unbusy" ELSE "find",
            th[t].n, [th[t].st EXCEPT !.b = TRUE], th[t].slot, th[t].entry)
  /\ UNCHANGED <<offset, slotVars, bufferVars, victimVars, ioVars>>

\* Neither valid nor busy: the thread that sets BUSY loads the page.
SetBusy(t) ==
  /\ At(t, "check")
  /\ ~th[t].st.v /\ ~th[t].st.b
  /\ LET old == state[Page(t)] IN
     /\ state' = [state EXCEPT ![Page(t)].b = TRUE]
     /\ Resume(t, IF old.b THEN "check" ELSE IF old.v THEN "unbusy" ELSE "find",
               th[t].n, [th[t].st EXCEPT !.b = TRUE], th[t].slot, th[t].entry)
  /\ UNCHANGED <<offset, slotVars, bufferVars, victimVars, ioVars>>

\* Another thread has loaded it meanwhile.
ClearBusy(t) ==
  /\ At(t, "unbusy")
  /\ state' = [state EXCEPT ![Page(t)].b = FALSE]
  /\ Goto(t, "check")
  /\ UNCHANGED <<offset, slotVars, bufferVars, victimVars, ioVars>>

\* Mutant: a write hit does not set DIRTY.
HitClean(t) ==
  /\ At(t, "check")
  /\ th[t].st.v /\ ~th[t].st.b
  /\ Resume(t, Acquired(t), th[t].n, 0, offset[Page(t)], th[t].entry)
  /\ UNCHANGED <<state, offset, slotVars, bufferVars, victimVars, ioVars>>

Hit(t) ==
  /\ At(t, "check")
  /\ th[t].st.v /\ ~th[t].st.b
  /\ state' = IF Access(t).dirty /\ ~th[t].st.d
              THEN [state EXCEPT ![Page(t)].d = TRUE] ELSE state
  /\ Resume(t, Acquired(t), th[t].n, 0, offset[Page(t)], th[t].entry)
  /\ UNCHANGED <<offset, slotVars, bufferVars, victimVars, ioVars>>

---------------------------------------------------------------------------
(* page_cache_d_t::find_slot *)

\* The next slot of the clock: a free one is taken at once, one in use locked.
TakeSlot(t) ==
  /\ At(t, "find")
  /\ page_ticket' = (page_ticket + 1) % NSlots
  /\ LET s == page_ticket IN
     CASE take_lock[s] = "FREE" ->
            /\ take_lock' = [take_lock EXCEPT ![s] = "UNLOCKED"]
            /\ translation' = [translation EXCEPT ![s] = Page(t)]
            /\ Resume(t, "read", th[t].n, th[t].st, s, th[t].entry)
       [] take_lock[s] = "UNLOCKED" ->
            /\ take_lock' = [take_lock EXCEPT ![s] = "LOCKED"]
            /\ Resume(t, "inspect", th[t].n, th[t].st, s, th[t].entry)
            /\ UNCHANGED translation
       [] OTHER -> UNCHANGED <<take_lock, translation, th>>
  /\ UNCHANGED <<state, offset, bufferVars, victimVars, ioVars>>

Previous(t) == translation[th[t].slot]

\* Pinned or busy pages stay: give the slot up.
Inspect(t) ==
  /\ At(t, "inspect")
  /\ LET prev == state[Previous(t)] IN
     Goto(t, IF prev.cnt = 0 /\ ~prev.b THEN "claim" ELSE "give_up")
  /\ UNCHANGED <<state, offset, slotVars, bufferVars, victimVars, ioVars>>

AfterEvict == [direct |-> "write", scheduler |-> "enqueue", victim |-> "swap",
               victim_only |-> "swap"]

\* Mutant: does not look at the count again.
ClaimPinned(t) ==
  /\ At(t, "claim")
  /\ LET old == state[Previous(t)] IN
     /\ state' = [state EXCEPT ![Previous(t)].b = TRUE]
     /\ Goto(t, CASE old.b -> "give_up"
                  [] ~old.b /\ old.d -> AfterEvict[setup.evict]
                  [] OTHER -> "clear")
  /\ UNCHANGED <<offset, slotVars, bufferVars, victimVars, ioVars>>

\* Set BUSY on the slot's page; whoever pinned it in between keeps it.
Claim(t) ==
  /\ At(t, "claim")
  /\ LET old == state[Previous(t)] IN
     /\ state' = [state EXCEPT ![Previous(t)].b = TRUE]
     /\ Goto(t, CASE old.b -> "give_up"
                  [] ~old.b /\ old.cnt # 0 -> "unclaim"
                  [] ~old.b /\ old.cnt = 0 /\ old.d -> AfterEvict[setup.evict]
                  [] OTHER -> "clear")
  /\ UNCHANGED <<offset, slotVars, bufferVars, victimVars, ioVars>>

\* Mutant: the page that was pinned meanwhile stays BUSY.
UnclaimKeepBusy(t) ==
  /\ At(t, "unclaim")
  /\ Goto(t, "give_up")
  /\ UNCHANGED <<state, offset, slotVars, bufferVars, victimVars, ioVars>>

Unclaim(t) ==
  /\ At(t, "unclaim")
  /\ state' = [state EXCEPT ![Previous(t)].b = FALSE]
  /\ Goto(t, "give_up")
  /\ UNCHANGED <<offset, slotVars, bufferVars, victimVars, ioVars>>

GiveUp(t) ==
  /\ At(t, "give_up")
  /\ take_lock' = [take_lock EXCEPT ![th[t].slot] = "UNLOCKED"]
  /\ Goto(t, "find")
  /\ UNCHANGED <<state, offset, translation, page_ticket, bufferVars, victimVars,
                 ioVars>>

---------------------------------------------------------------------------
(* Eviction of a dirty page *)

\* What a command that uses the slot's PRP entries transfers.
SlotContent(s) == IF prp_ok[s] THEN mem[buffer[s]] ELSE Garbage

Stored(ctrls, lba, content) ==
  [c \in Ctrls |-> [l \in DOMAIN ssd[c] |->
     IF c \in ctrls /\ l \in lba .. lba + Blocks - 1 THEN content ELSE ssd[c][l]]]

\* No scheduler: write_data on a queue pair of every controller of the page.
WriteOut(t) ==
  /\ At(t, "write")
  /\ ssd' = Stored(get_backing_ctrl_(Previous(t)),
                   get_backing_page_(Previous(t)) * Blocks, SlotContent(th[t].slot))
  /\ Goto(t, "clear")
  /\ UNCHANGED <<state, offset, slotVars, bufferVars, victimVars, ctrl_counter, mem,
                 requests>>

\* io_sched_write: the request names the slot, the thread waits.
EnqueueWrite(t) ==
  /\ At(t, "enqueue")
  /\ requests' = requests \cup {[page |-> Previous(t), slot |-> th[t].slot, entry |-> -1,
                                 performed |-> FALSE]}
  /\ Goto(t, "wait")
  /\ UNCHANGED <<state, offset, slotVars, bufferVars, victimVars, ctrl_counter, mem,
                 ssd>>

AwaitWrite(t) ==
  /\ At(t, "wait")
  /\ ~\E r \in requests : r.entry = -1 /\ r.slot = th[t].slot
  /\ Goto(t, "clear")
  /\ UNCHANGED <<state, offset, slotVars, bufferVars, victimVars, ioVars>>

NextEntry == alloc_ticket % NVictims

\* One attempt to claim a victim entry; if it is in use, write instead.
ClaimEntry(t) ==
  /\ At(t, "swap")
  /\ alloc_ticket' = (alloc_ticket + 1) % NVictims
  /\ IF victim[NextEntry].st = "FREE"
     THEN /\ victim' = [victim EXCEPT ![NextEntry].st = "COPYING"]
          /\ Resume(t, "exchange", th[t].n, th[t].st, th[t].slot, NextEntry)
     ELSE /\ Goto(t, IF setup.evict = "victim" THEN "enqueue" ELSE "fallback")
          /\ UNCHANGED victim
  /\ UNCHANGED <<state, offset, slotVars, bufferVars, ioVars>>

\* Exchange the buffers.  prp2 becomes the address of the second page of the
\* new buffer, also where the device takes it for that of a PRP list.
Exchange(t) ==
  /\ At(t, "exchange")
  /\ LET s == th[t].slot
         v == th[t].entry
     IN  /\ buffer' = [buffer EXCEPT ![s] = victim[v].buffer]
         /\ prp_ok' = [prp_ok EXCEPT ![s] = (setup.ppe <= 2)]
         /\ victim' = [victim EXCEPT ![v] = [st |-> "OCCUPIED", buffer |-> buffer[s],
                                              page |-> Previous(t)]]
  /\ Goto(t, IF setup.evict = "victim" THEN "forget" ELSE "clear")
  /\ UNCHANGED <<state, offset, slotVars, alloc_ticket, ioVars>>

\* io_sched_enqueue_forget: the request names the victim entry.
EnqueueForget(t) ==
  /\ At(t, "forget")
  /\ requests' = requests \cup {[page |-> Previous(t), slot |-> -1, entry |-> th[t].entry,
                                 performed |-> FALSE]}
  /\ Goto(t, "clear")
  /\ UNCHANGED <<state, offset, slotVars, bufferVars, victimVars, ctrl_counter, mem,
                 ssd>>

\* The victim-only path writes a full buffer at block number index.
WriteFallback(t) ==
  /\ At(t, "fallback")
  /\ ssd' = Stored(IF setup.dist = "STRIPE" THEN get_backing_ctrl_(Previous(t)) ELSE {0},
                   get_backing_page_(Previous(t)), SlotContent(th[t].slot))
  /\ Goto(t, "clear")
  /\ UNCHANGED <<state, offset, slotVars, bufferVars, victimVars, ctrl_counter, mem,
                 requests>>

\* Mutant: the evicted page stays VALID.
ClearLeaveValid(t) ==
  /\ At(t, "clear")
  /\ state' = [state EXCEPT ![Previous(t)] = [@ EXCEPT !.b = FALSE, !.d = FALSE]]
  /\ Goto(t, "assign")
  /\ UNCHANGED <<offset, slotVars, bufferVars, victimVars, ioVars>>

\* The evicted page keeps only its count: threads may be waiting for it.
Clear(t) ==
  /\ At(t, "clear")
  /\ state' = [state EXCEPT ![Previous(t)] =
       [v |-> FALSE, b |-> FALSE, d |-> FALSE, cnt |-> state[Previous(t)].cnt]]
  /\ Goto(t, "assign")
  /\ UNCHANGED <<offset, slotVars, bufferVars, victimVars, ioVars>>

Assign(t) ==
  /\ At(t, "assign")
  /\ translation' = [translation EXCEPT ![th[t].slot] = Page(t)]
  /\ take_lock' = [take_lock EXCEPT ![th[t].slot] = "UNLOCKED"]
  /\ Goto(t, "read")
  /\ UNCHANGED <<state, offset, page_ticket, bufferVars, victimVars, ioVars>>

---------------------------------------------------------------------------
(* The rest of acquire_page, the use of the page, release_page *)

PageBlocks(c, p) ==
  {ssd[c][l] : l \in get_backing_page_(p) * Blocks .. (get_backing_page_(p) + 1) * Blocks - 1}

\* A page whose blocks do not belong together is garbage.
PageContent(c, p) ==
  IF \E x \in PageBlocks(c, p) : PageBlocks(c, p) = {x}
  THEN CHOOSE x \in PageBlocks(c, p) : TRUE ELSE Garbage

\* Read the page into the slot's buffer; replicas are read in turn.
ReadIn(t) ==
  /\ At(t, "read")
  /\ LET c == IF setup.dist = "STRIPE" THEN Page(t) % setup.n_ctrls
              ELSE ctrl_counter % setup.n_ctrls
     IN  mem' = [mem EXCEPT ![buffer[th[t].slot]] =
           IF setup.read = "direct" /\ ~prp_ok[th[t].slot] THEN Garbage
           ELSE PageContent(c, Page(t))]
  /\ ctrl_counter' = IF setup.dist = "STRIPE" THEN ctrl_counter
                     ELSE (ctrl_counter + 1) % setup.n_ctrls
  /\ Goto(t, "publish")
  /\ UNCHANGED <<state, offset, slotVars, bufferVars, victimVars, ssd, requests>>

\* Store the slot, set DIRTY for a write, toggle BUSY and VALID.
Publish(t) ==
  /\ At(t, "publish")
  /\ offset' = [offset EXCEPT ![Page(t)] = th[t].slot]
  /\ LET old == state[Page(t)] IN
     state' = [state EXCEPT ![Page(t)] = [v |-> ~old.v, b |-> ~old.b,
                                          d |-> old.d \/ Access(t).dirty, cnt |-> old.cnt]]
  /\ Goto(t, Acquired(t))
  /\ UNCHANGED <<slotVars, bufferVars, victimVars, ioVars>>

\* bam_ptr takes the slot number for the page's: &r_->pages[base_master].
Mark(t) ==
  /\ At(t, "mark")
  /\ state' = [state EXCEPT ![th[t].slot].d = TRUE]
  /\ Goto(t, "use")
  /\ UNCHANGED <<offset, slotVars, bufferVars, victimVars, ioVars>>

Use(t) ==
  /\ At(t, "use")
  /\ mem' = IF Access(t).store
            THEN [mem EXCEPT ![buffer[th[t].slot]].writes = @ \cup {<<t, th[t].n>>}]
            ELSE mem
  /\ Goto(t, "release")
  /\ UNCHANGED <<state, offset, slotVars, bufferVars, victimVars, ctrl_counter, ssd,
                 requests>>

release_page(t) ==
  /\ At(t, "release")
  /\ state' = [state EXCEPT ![Page(t)].cnt = @ - Access(t).lanes]
  /\ finished' = IF Access(t).store
                 THEN [finished EXCEPT ![Page(t)] = @ \cup {<<t, th[t].n>>}] ELSE finished
  /\ Resume(t, "next", th[t].n, 0, 0, 0)
  /\ UNCHANGED <<offset, slotVars, bufferVars, victimVars, ioVars>>

find_slot(t) ==
  \/ TakeSlot(t) \/ Inspect(t) \/ Claim(t) \/ Unclaim(t) \/ GiveUp(t)
  \/ WriteOut(t) \/ EnqueueWrite(t) \/ AwaitWrite(t)
  \/ ClaimEntry(t) \/ Exchange(t) \/ EnqueueForget(t) \/ WriteFallback(t)
  \/ Clear(t) \/ Assign(t)

acquire_page(t) ==
  \/ Pin(t) \/ Reload(t) \/ SetBusy(t) \/ ClearBusy(t) \/ Hit(t)
  \/ find_slot(t) \/ ReadIn(t) \/ Publish(t)

Thread(t) ==
  \/ (acquire_page(t) \/ Mark(t) \/ Use(t)) /\ UNCHANGED history
  \/ release_page(t) /\ UNCHANGED <<setup, flushed>>

---------------------------------------------------------------------------
(* The write scheduler as its clients see it, and flush_cache *)

Perform(r) ==
  /\ ~r.performed
  /\ ssd' = Stored({0}, get_backing_page_(r.page) * Blocks,
                   mem[IF r.entry = -1 THEN buffer[r.slot] ELSE victim[r.entry].buffer])
  /\ requests' = (requests \ {r}) \cup {[r EXCEPT !.performed = TRUE]}
  /\ UNCHANGED <<state, offset, slotVars, bufferVars, victimVars, ctrl_counter, mem,
                 history, th>>

\* Phase 5 of the scheduler frees the victim entry of the request.
Notify(r) ==
  /\ r.performed
  /\ requests' = requests \ {r}
  /\ victim' = IF r.entry = -1 THEN victim
               ELSE [victim EXCEPT ![r.entry] = [st |-> "FREE", buffer |-> @.buffer,
                                                  page |-> NoPage]]
  /\ UNCHANGED <<state, offset, slotVars, bufferVars, alloc_ticket, ctrl_counter, mem,
                 ssd, history, th>>

Scheduler == \E r \in requests : Perform(r) \/ Notify(r)

Returned == \A t \in Threads : At(t, "next") /\ th[t].n = Len(Plan(t))

\* The kernel __flush, one thread per slot, after the kernels that use the
\* cache.  The translation of a slot that was never used is not initialised.
__flush(s) ==
  /\ Returned
  /\ s \notin flushed
  /\ flushed' = flushed \cup {s}
  /\ \E p \in IF take_lock[s] = "FREE" THEN Pages ELSE {translation[s]} :
       IF state[p].d
       THEN /\ ssd' = Stored(get_backing_ctrl_(p), get_backing_page_(p) * Blocks,
                             SlotContent(s))
            /\ state' = [state EXCEPT ![p].d = FALSE]
       ELSE UNCHANGED <<ssd, state>>
  /\ UNCHANGED <<setup, offset, slotVars, bufferVars, victimVars, ctrl_counter, mem,
                 requests, finished, th>>

flush_cache == \E s \in Slots : __flush(s)

AtRest == Returned /\ flushed = Slots /\ requests = {}

Next ==
  \/ \E t \in Threads : Thread(t)
  \/ Scheduler \/ flush_cache
  \/ AtRest /\ UNCHANGED vars

\* Resident GPU threads, the scheduler and the launched flush keep running.
Spec ==
  /\ Init /\ [][Next]_vars
  /\ \A t \in Threads : WF_vars(Thread(t))
  /\ WF_vars(Scheduler) /\ WF_vars(flush_cache)

---------------------------------------------------------------------------
(* Properties *)

\* Page p is written through a bam_ptr, whose Mark may set DIRTY on another
\* page: it uses the slot as a page number, which is right only when pages
\* stay in the slots of their numbers.
Strays(p) ==
  /\ ~setup.warm
  /\ \E t \in Threads : \E i \in 1 .. Len(Plan(t)) : Plan(t)[i].page = p /\ Plan(t)[i].mark

(***************************************************************************)
(* A thread that holds a page finds that page in the slot's buffer, with   *)
(* every write made before by threads that have released it: no eviction,  *)
(* reload, swap of buffers or late write-back comes in between.  Excepted  *)
(* are pages that stray.  The runs use the victim buffer only with the     *)
(* disjoint regions that acquire_page asks for.                            *)
(***************************************************************************)
HoldsLatest ==
  \A t \in Threads : th[t].pc \in {"use", "release"} =>
    LET c == mem[buffer[th[t].slot]]
    IN  /\ c.page = Page(t)
        /\ finished[Page(t)] \subseteq c.writes \/ Strays(Page(t))

(***************************************************************************)
(* An unlocked slot has a page of its own, a valid page its slot,          *)
(* and a buffer to one slot or victim entry.                               *)
(***************************************************************************)
OneOwner ==
  /\ \A s, r \in Slots : s # r /\ take_lock[s] = "UNLOCKED" /\ take_lock[r] = "UNLOCKED"
                        => translation[s] # translation[r]
  /\ \A p \in Pages : state[p].v => translation[offset[p]] = p
  /\ Cardinality({buffer[s] : s \in Slots} \cup {victim[v].buffer : v \in Victims})
       = NSlots + NVictims

(***************************************************************************)
(* After a flush every write of every thread is on the SSD, on every       *)
(* controller that holds the page, whichever way the page left the cache,  *)
(* or in the victim entry of a page that nothing writes back.  Excepted    *)
(* are pages that stray: their buffer may be written and clean.  The flush *)
(* follows the kernels, as its callers launch it, and the fallback of the  *)
(* victim-only path is right only when a page is one block.                *)
(***************************************************************************)
NothingLost ==
  AtRest => \A p \in Pages :
    LET whole == [page |-> p, writes |-> finished[p]] IN
    \/ \A c \in get_backing_ctrl_(p) : PageContent(c, p) = whole
    \/ \E v \in Victims : /\ victim[v].st = "OCCUPIED" /\ victim[v].page = p
                         /\ mem[victim[v].buffer] = whole
    \/ Strays(p)

(***************************************************************************)
(* Every access ends, as long as there are as many slots as threads.       *)
(***************************************************************************)
EveryAccessReturns == <>AtRest
---------------------------------------------------------------------------
(* The inductive invariant behind OneOwner *)

StoreTypeOK ==
  /\ setup \in Setups
  /\ state \in [Pages -> [v : BOOLEAN, b : BOOLEAN, d : BOOLEAN, cnt : Int]]
  /\ offset \in [Pages -> Slots]
  /\ take_lock \in [Slots -> {"FREE", "UNLOCKED", "LOCKED"}]
  /\ translation \in [Slots -> Pages \cup {NoPage}]
  /\ page_ticket \in Slots /\ alloc_ticket \in Nat
  /\ buffer \in [Slots -> Nat]
  /\ victim \in [Victims -> [st : {"FREE", "COPYING", "OCCUPIED"}, buffer : Nat, page : Int]]

ThreadTypeOK ==
  /\ th = [t \in Threads |-> [pc |-> th[t].pc, n |-> th[t].n, st |-> th[t].st,
                              slot |-> th[t].slot, entry |-> th[t].entry]]
  /\ \A t \in Threads :
       /\ th[t].n \in 0 .. Len(Plan(t)) /\ th[t].slot \in Slots
       /\ th[t].pc # "next" => th[t].n > 0
       /\ th[t].pc = "exchange" => th[t].entry \in Victims

\* What a thread does with its slot, by its program counter.
Looking == {"inspect", "claim", "give_up"}
Evicting == {"unclaim", "write", "enqueue", "wait", "swap", "exchange", "forget", "fallback",
             "clear"}
Filling == {"read", "publish"}

LocksSlot(t) == th[t].pc \in Looking \cup Evicting \cup {"assign"}
Loads(t) == th[t].pc \in {"find", "assign"} \cup Looking \cup Evicting \cup Filling

\* Thread t has set BUSY on page p, and is the one to clear it.
HoldsBusy(t, p) ==
  \/ (Loads(t) \/ th[t].pc = "unbusy") /\ Page(t) = p
  \/ th[t].pc \in Evicting /\ Previous(t) = p

LocksInv ==
  /\ \A t \in Threads : LocksSlot(t) => take_lock[th[t].slot] = "LOCKED"
  /\ \A t, u \in Threads :
       LocksSlot(t) /\ LocksSlot(u) /\ th[t].slot = th[u].slot => t = u

BusyInv ==
  /\ \A t \in Threads, p \in Pages : HoldsBusy(t, p) => state[p].b
  /\ \A t, u \in Threads, p \in Pages : HoldsBusy(t, p) /\ HoldsBusy(u, p) => t = u
  /\ \A t \in Threads : Loads(t) => ~state[Page(t)].v
  /\ \A t \in Threads : th[t].pc \in Evicting => state[Previous(t)].v

Fills(t, s) == th[t].pc \in Filling /\ th[t].slot = s

\* A slot in use holds its page or is being filled with it, unless it was
\* emptied a moment ago for the page of the thread that locked it.
SlotsInv ==
  /\ \A s \in Slots : take_lock[s] # "FREE" => translation[s] \in Pages
  /\ \A t \in Threads, s \in Slots :
       Fills(t, s) => translation[s] = Page(t) /\ take_lock[s] # "FREE"
  /\ \A p \in Pages : state[p].v =>
       translation[offset[p]] = p /\ take_lock[offset[p]] # "FREE"
  /\ \A t \in Threads : th[t].pc = "assign" =>
       /\ \A u \in Threads : ~Fills(u, th[t].slot)
       /\ \A p \in Pages : state[p].v => offset[p] # th[t].slot
  /\ \A s \in Slots : take_lock[s] # "FREE" =>
       \/ \E t \in Threads : th[t].pc = "assign" /\ th[t].slot = s
       \/ \E t \in Threads : Fills(t, s)
       \/ \E p \in Pages : state[p].v /\ offset[p] = s

\* Buffers are exchanged, never copied or dropped.
BuffersInv ==
  {buffer[s] : s \in Slots} \cup {victim[v].buffer : v \in Victims} = 0 .. NSlots + NVictims - 1

OwnInv == LocksInv /\ BusyInv /\ SlotsInv

(***************************************************************************)
(* BUSY and the slot locks have one owner each, whatever the order in      *)
(* which threads miss, evict, give up and load; OneOwner follows.          *)
(***************************************************************************)
CacheInv == StoreTypeOK /\ ThreadTypeOK /\ OwnInv /\ BuffersInv
=============================================================================
