------------------------------ MODULE Startup -----------------------------
(***************************************************************************)
(* How the host brings a controller, a page cache and a scheduler up and   *)
(* takes them down: the constructors of Controller (include/ctrl.h),       *)
(* QueuePair (queue.h) and page_cache_t (page_cache.h), io_sched_create    *)
(* and victim_create (io_scheduler.cuh), createDma and createBuffer        *)
(* (buffer.h), over the admin queue.  Once the host is up, other threads   *)
(* of the process may use the admin reference.                             *)
(***************************************************************************)
EXTENDS AdminQueue, PageTables

CONSTANTS
  Setups,     \* configurations; Init chooses one
  SqFit, CqFit, \* MAX_SQ_ENTRIES_64K, MAX_CQ_ENTRIES_64K
  MaxQueues,  \* MAX_QUEUES: what reserveQueues asks for
  MayFail,    \* allocations that may fail
  Plan        \* caller -> commands it sends once the host is up

VARIABLES
  setup,      \* the configuration of this run
  host,       \* the constructor's position and what it has learned
  held,       \* resources the host holds
  sched,      \* the page cache, scheduler queue and victim buffer
  todo        \* caller -> commands it has yet to send

startVars == <<setup, host, held, sched, todo>>
vars == <<adminVars, startVars>>

Init ==
  /\ setup \in Setups
  /\ AdminInit([queues |-> setup.queues, mqes |-> setup.mqes])
  /\ host = [pc |-> "open", n_sqs |-> 0, n_cqs |-> 0, n_qps |-> 0,
             i |-> 0, sq_size |-> 0, cq_size |-> 0, h_qps |-> {}, err |-> "none"]
  /\ held = {}
  /\ sched = [q |-> "none", pool |-> "none", victim |-> "none", unset |-> {}]
  /\ todo = Plan

At(label) == host.pc = label
Do(label) == host' = [host EXCEPT !.pc = label]

\* What a failing createDma of GPU memory leaves behind: nothing when there is
\* no memory, the memory when it cannot be mapped, the mapping when it cannot be
\* cleared, and the memory with it unless the aligned pointer is the allocated
\* one.  On the host it cleans up.
DmaLost == {{}, {"gpu_memory"}, {"gpu_mapping"}, {"gpu_memory", "gpu_mapping"}}

\* An exception leaves Controller's constructor: the member aq_mem and the pair
\* under construction are destroyed; ~Controller does not run.
Throw(lost) ==
  /\ host' = [host EXCEPT !.pc = "failed", !.err = "ctrl", !.h_qps = @ \ {host.i}]
  /\ held' = (held \ {"aq_mem"}) \cup lost

Send(cmd) ==
  /\ call' = [call EXCEPT ![Host] = [@ EXCEPT !.pc = "call", !.cmd = cmd, !.reply = Empty]]
  /\ page' = IF cmd.op = "identify" THEN [page EXCEPT ![Host] = "zero"] ELSE page

Answered == call[Host].pc = "returned"
Ok == call[Host].reply.ok
Idle == call' = [call EXCEPT ![Host].pc = "idle"]

adminRest == <<slow, asq, acq, asq_mem, sq_db, cq_db, lock, issued, acq_mem, dev,
               fetched, granted, io_cq, io_sq>>

---------------------------------------------------------------------------
(* The constructor of Controller *)

\* open, nvm_ctrl_init and the memory of the admin queues; each may fail.
Open ==
  /\ At("open")
  /\ \/ held' = {"fd", "ctrl", "aq_mem"} /\ Do("reset")
     \/ \E got \in {{}, {"fd"}, {"fd", "ctrl"}} : Throw(got)
  /\ UNCHANGED <<adminVars, setup, sched, todo>>

\* nvm_aq_create; it ignores how nvm_raw_ctrl_reset ends.
Disable ==
  /\ At("reset")
  /\ \/ "aq" \in MayFail /\ Throw({}) /\ UNCHANGED cc_en
     \/ cc_en' = FALSE /\ held' = held \cup {"aq"} /\ Do("await_off")
  /\ UNCHANGED <<slow, hostVars, devVars, csts_rdy, setup, sched, todo>>

Enable ==
  /\ At("await_off")
  /\ ~csts_rdy
  /\ cc_en' = TRUE
  /\ Do("await_on")
  /\ UNCHANGED <<slow, hostVars, devVars, csts_rdy, setup, sched, held, todo>>

\* Mutant: the reset waits without a limit.
ResetWaits == FALSE /\ UNCHANGED vars

ResetTimesOut ==
  /\ At(IF csts_rdy THEN "await_off" ELSE "await_on")
  /\ Host \in slow
  /\ Do("identify")
  /\ UNCHANGED <<adminVars, setup, sched, held, todo>>

ResetDone ==
  /\ At("await_on")
  /\ csts_rdy
  /\ Do("identify")
  /\ UNCHANGED <<adminVars, setup, sched, held, todo>>

\* The commands of initializeController and reserveQueues: command sent at a
\* label, and the label after its answer.
Script ==
  [identify    |-> [cmd |-> admin_identify_ctrl, next |-> "identify_ns"],
   identify_ns |-> [cmd |-> admin_identify_ns, next |-> "get_num"],
   get_num     |-> [cmd |-> admin_current_num_queues(FALSE, 0, 0), next |-> "register"],
   reserve     |-> [cmd |-> admin_current_num_queues(TRUE, MaxQueues, MaxQueues),
                    next |-> "pairs"]]

Ask ==
  /\ host.pc \in DOMAIN Script
  /\ call[Host].pc = "idle"
  /\ Send(Script[host.pc].cmd)
  /\ UNCHANGED <<adminRest, regVars, startVars>>

\* Mutant: reserveQueues does not swap the two numbers.
n_queues_as_read(pc, val) == <<val[1] + 1, val[2] + 1>>

\* Both functions take the high half of dword 0 for the submission queues;
\* reserveQueues passes its two results the other way round.
n_queues(pc, val) ==
  IF pc = "reserve" THEN <<val[2] + 1, val[1] + 1>> ELSE <<val[1] + 1, val[2] + 1>>

Learn ==
  /\ host.pc \in DOMAIN Script
  /\ Answered
  /\ IF ~Ok THEN Throw({})
     ELSE /\ host' = [host EXCEPT !.pc = Script[host.pc].next,
               !.n_sqs = n_queues(host.pc, call[Host].reply.val)[1],
               !.n_cqs = n_queues(host.pc, call[Host].reply.val)[2]]
          /\ UNCHANGED held
  /\ Idle
  /\ UNCHANGED <<adminRest, page, regVars, setup, sched, todo>>

---------------------------------------------------------------------------
(* The queue pairs *)

\* cudaHostRegister, after the first three commands.
Register ==
  /\ At("register")
  /\ \/ "register" \in MayFail /\ Throw({})
     \/ Do("reserve") /\ held' = held \cup {"registered"}
  /\ UNCHANGED <<adminVars, setup, sched, todo>>

CountPairs ==
  /\ At("pairs")
  /\ host' = [host EXCEPT !.pc = "pair",
       !.n_qps = Min2(Min2(host.n_sqs, host.n_cqs), setup.numQueues % 2^16)]
  /\ held' = held \cup {"d_qps"}
  /\ UNCHANGED <<adminVars, setup, sched, todo>>

QueueSize(fit) == Min2(setup.queueDepth, IF setup.cqr THEN Min2(fit, setup.mqes) ELSE setup.mqes)

\* QueuePair: the memory of both queues, then the completion queue.
CreateCq ==
  LET qs == QueueSize(CqFit) IN
  /\ At("pair")
  /\ host.i < host.n_qps
  /\ \/ /\ "queue_memory" \in MayFail
        /\ \E lost \in DmaLost : Throw(lost)
        /\ UNCHANGED <<call, page>>
     \/ IF BadSize(qs) THEN Throw({}) /\ UNCHANGED <<call, page>>
        ELSE /\ host' = [host EXCEPT !.pc = "cq", !.cq_size = qs, !.h_qps = @ \cup {host.i}]
             /\ Send(admin_cq_create(host.i + 1, qs))
             /\ UNCHANGED held
  /\ UNCHANGED <<adminRest, regVars, setup, sched, todo>>

CreateSq ==
  LET qs == QueueSize(SqFit) IN
  /\ At("cq")
  /\ Answered
  /\ \/ /\ Ok /\ ~BadSize(qs)
        /\ host' = [host EXCEPT !.pc = "sq", !.sq_size = qs] /\ UNCHANGED held
        /\ Send(admin_sq_create(host.i + 1, qs, host.i + 1))
     \/ /\ ~Ok \/ BadSize(qs) \/ "doorbell" \in MayFail
        /\ Throw({}) /\ Idle /\ UNCHANGED page
  /\ UNCHANGED <<adminRest, regVars, setup, sched, todo>>

\* The doorbell's device pointer and the buffers of init_gpu_specific_struct.
PairDone ==
  /\ At("sq")
  /\ Answered
  /\ \/ Ok /\ host' = [host EXCEPT !.pc = "pair", !.i = @ + 1] /\ UNCHANGED held
     \/ (~Ok \/ "doorbell" \in MayFail) /\ Throw({})
  /\ Idle
  /\ UNCHANGED <<adminRest, page, regVars, setup, sched, todo>>

\* The last pair is there; the descriptor is closed, then d_ctrl_buff allocated.
Constructed ==
  /\ At("pair")
  /\ host.i = host.n_qps
  /\ \/ held' = (held \ {"fd"}) \cup {"d_ctrl"} /\ Do("cache")
     \/ /\ "d_ctrl" \in MayFail
        /\ held' = held \ {"fd", "aq_mem"}
        /\ host' = [host EXCEPT !.pc = "failed", !.err = "ctrl"]
  /\ UNCHANGED <<adminVars, setup, sched, todo>>
---------------------------------------------------------------------------
(* The page cache, the scheduler's queue and the victim buffer *)

\* Arrays that only the destructor of page_cache_t deletes.
HostArrays == {"h_ranges", "h_ranges_page_starts", "h_ranges_dists"}

\* What the steps of page_cache_t's constructor leave behind when they throw: the
\* first buffers, those up to ranges_dists, the pages, the tables, and pc_buff.
CacheLost(step) ==
  CASE step = "ranges" -> {{}}
    [] step = "cache_pages" -> {HostArrays \ {"h_ranges_dists"}}
    [] step \in {"pages_dma", "prp_list_dma"} -> {HostArrays \cup lost : lost \in DmaLost}
    [] step \in {"geometry", "prp"} -> {HostArrays}
    [] step = "pc_buff" -> {HostArrays \cup {"page_vaddrs"}}

CacheSteps ==
  IF BadGeometry(setup.ps, setup.np) THEN {"ranges", "cache_pages", "pages_dma"}
  ELSE {"ranges", "cache_pages", "pages_dma", "prp", "pc_buff"}
         \cup (IF setup.ps > 2 * CtrlPage THEN {"prp_list_dma"} ELSE {})

CacheThrows ==
  /\ At("cache")
  /\ \E step \in (CacheSteps \cap MayFail)
                 \cup (IF BadGeometry(setup.ps, setup.np) THEN {"geometry"} ELSE {}) :
       \E lost \in CacheLost(step) : held' = held \cup lost
  /\ host' = [host EXCEPT !.pc = "unwind", !.err = "cache"]
  /\ UNCHANGED <<adminVars, setup, sched, todo>>

\* page_cache_t, and main's array of errors; page_vaddrs is not a member.
MakeCache ==
  /\ At("cache")
  /\ ~BadGeometry(setup.ps, setup.np)
  /\ held' = held \cup {"page_cache", "page_vaddrs", "d_errors"} \cup HostArrays
  /\ Do("sched")
  /\ UNCHANGED <<adminVars, setup, sched, todo>>

SchedParts == <<"q", "entries", "done_flags", "done_seq", "prod_seq">>
PoolParts == {"prp_pool_raw", "prp_pool_dma", "prp_pool_vaddr", "prp_pool_ioaddr"}
SortParts == {"gsort"}

\* Mutant: done_seq is forgotten.
FreedWithoutForgotten(k) ==
  CASE k = 1 -> {}
    [] k = 2 -> {"q"}
    [] k = 3 -> {"entries", "q"}
    [] k \in 4 .. 5 -> {"done_flags", "entries", "q"}

\* What io_sched_create frees when it cannot have part k.
FreedWithout(k) ==
  CASE k = 1 -> {}
    [] k = 2 -> {"q"}
    [] k = 3 -> {"entries", "q"}
    [] k = 4 -> {"done_flags", "entries", "q"}
    [] k = 5 -> {"done_seq", "done_flags", "entries", "q"}

Had(parts, k) == {parts[i] : i \in 1 .. k - 1}

SchedFails ==
  /\ At("sched")
  /\ \E k \in DOMAIN SchedParts :
       /\ SchedParts[k] \in MayFail
       /\ held' = (held \cup Had(SchedParts, k)) \ FreedWithout(k)
  /\ host' = [host EXCEPT !.pc = "unwind", !.err = "sched"]
  /\ UNCHANGED <<adminVars, setup, sched, todo>>

\* With a controller: a pool of PRP list pages, and the buffers of the global
\* sort.  A pool that cannot be mapped is given back.  When there is no memory
\* for the pool, or for a buffer of the sort, the fields stay as they were.
io_sched_create ==
  /\ At("sched")
  /\ \E pool \in IF setup.pool THEN {"ready"} \cup ({"none", "unset"} \cap MayFail) ELSE {"none"},
        sort \in IF setup.pool THEN {"ready"} \cup ({"unset"} \cap MayFail) ELSE {"none"} :
       /\ sched' = [sched EXCEPT !.q = "ready", !.pool = pool,
                      !.unset = {part \in {"pool", "sort"} :
                                   (IF part = "pool" THEN pool ELSE sort) = "unset"}]
       /\ held' = held \cup {SchedParts[k] : k \in DOMAIN SchedParts}
                       \cup (IF pool = "ready" THEN PoolParts ELSE {})
                       \cup (IF sort = "ready" THEN SortParts ELSE {})
  /\ Do("victim")
  /\ UNCHANGED <<adminVars, setup, todo>>

VictimParts == <<"vb", "data_raw", "data_dma">>
VictimArrays == {"data_ioaddrs", "byte_offsets", "states", "reader_counts", "entry_vaddrs"}

VictimFreedWithout(k) ==
  CASE k = 1 -> {}
    [] k = 2 -> {"vb"}
    [] k = 3 -> {"data_raw", "vb"}

victim_create ==
  /\ At("victim")
  /\ \/ /\ \E k \in DOMAIN VictimParts :
             /\ VictimParts[k] \in MayFail
             /\ held' = (held \cup Had(VictimParts, k)) \ VictimFreedWithout(k)
        /\ UNCHANGED sched
     \/ /\ held' = held \cup {VictimParts[k] : k \in DOMAIN VictimParts} \cup VictimArrays
        /\ sched' = [sched EXCEPT !.victim = "ready"]
     \/ /\ "unset" \in MayFail
        /\ held' = held \cup {VictimParts[k] : k \in DOMAIN VictimParts}
        /\ sched' = [sched EXCEPT !.victim = "ready", !.unset = @ \cup {"victim"}]
  /\ Do("up")
  /\ UNCHANGED <<adminVars, setup, todo>>

---------------------------------------------------------------------------
(* Other users of the admin reference, and the end *)

Use(t) ==
  /\ At("up")
  /\ call[t].pc = "idle" /\ todo[t] # <<>>
  /\ call' = [call EXCEPT ![t] = [@ EXCEPT !.pc = "call", !.cmd = Head(todo[t]), !.reply = Empty]]
  /\ page' = [page EXCEPT ![t] = "zero"]
  /\ todo' = [todo EXCEPT ![t] = Tail(@)]
  /\ UNCHANGED <<adminRest, regVars, setup, host, held, sched>>

Used(t) ==
  /\ At("up")
  /\ call[t].pc = "returned"
  /\ call' = [call EXCEPT ![t].pc = "idle"]
  /\ UNCHANGED <<adminRest, page, regVars, startVars>>

\* A field that was never set reads as null, or as any address, which is freed.
Frees(parts, field, label) ==
  \/ held' = held \ parts /\ Do(label)
  \/ field \cap sched.unset # {} /\ Do("undefined") /\ UNCHANGED held

victim_destroy ==
  /\ At("up")
  /\ \A t \in Callers : call[t].pc = "idle" /\ todo[t] = <<>>
  /\ Frees({VictimParts[k] : k \in DOMAIN VictimParts} \cup VictimArrays,
           {"victim"}, "victim gone")
  /\ UNCHANGED <<adminVars, setup, sched, todo>>

\* Called by main, which frees d_errors next.
io_sched_destroy ==
  /\ At("victim gone")
  /\ Frees({SchedParts[k] : k \in DOMAIN SchedParts} \cup PoolParts \cup SortParts
             \cup {"d_errors"}, {"pool", "sort"}, "unwind")
  /\ UNCHANGED <<adminVars, setup, sched, todo>>

\* The destructors of page_cache_t, if it was constructed, and Controller.
Destroy ==
  /\ At("unwind")
  /\ held' = held \ ({"page_cache", "d_qps", "aq", "ctrl", "aq_mem", "d_ctrl"}
                       \cup (IF "page_cache" \in held THEN HostArrays ELSE {}))
  /\ host' = [host EXCEPT !.pc = "down", !.h_qps = @ \ (0 .. host.n_qps - 1)]
  /\ UNCHANGED <<adminVars, setup, sched, todo>>

Finished == host.pc \in {"failed", "down", "undefined"} /\ UNCHANGED vars

HostStep ==
  \/ Open \/ Disable \/ Enable \/ ResetTimesOut \/ ResetDone \/ Ask \/ Learn \/ Register
  \/ CountPairs \/ CreateCq \/ CreateSq \/ PairDone \/ Constructed
  \/ CacheThrows \/ MakeCache \/ SchedFails \/ io_sched_create \/ victim_create
  \/ victim_destroy \/ io_sched_destroy \/ Destroy

Next ==
  \/ HostStep
  \/ \E t \in Callers : Rpc(t) /\ UNCHANGED startVars
  \/ \E t \in Callers \ {Host} : Use(t) \/ Used(t)
  \/ Device /\ UNCHANGED startVars
  \/ Finished

Spec ==
  /\ Init /\ [][Next]_vars
  /\ WF_vars(HostStep)
  /\ WF_vars(Rpc(Host) /\ UNCHANGED startVars)

---------------------------------------------------------------------------
(***************************************************************************)
(* When the constructor is done the controller has every queue pair that   *)
(* the host believes in, attached and sized as the host believes, within   *)
(* what was granted; the counts are the granted ones, not each other's.    *)
(* Where the controller asks for contiguous queues (CQR) each queue also   *)
(* lies inside one GPU page; without CQR, QueuePair takes the depth that   *)
(* was asked for, up to the controller's limit, and this is not so.        *)
(***************************************************************************)
Usable ==
  host.pc \in {"cache", "sched", "victim"} =>
    /\ <<host.n_cqs, host.n_sqs>> = granted
    /\ host.n_qps <= Min2(granted[1], granted[2])
    /\ \A i \in 1 .. host.n_qps :
         /\ i \in DOMAIN io_cq /\ io_cq[i] = host.cq_size
         /\ i \in DOMAIN io_sq /\ io_sq[i] = [qs |-> host.sq_size, cq |-> i]
    /\ setup.cqr => host.cq_size <= CqFit /\ host.sq_size <= SqFit

\* The size of the list pages survives its 32 bits.
ListFits == setup.ps > 2 * CtrlPage => CtrlPage * setup.np < SizeMod

(***************************************************************************)
(* The addresses in the tables of the cache and of the victim buffer lead  *)
(* to the entry they stand for: a transfer of entry e covers that entry's  *)
(* memory in order, through either table.  The PRP entries do so unless    *)
(* the size of the list pages exceeded 32 bits, so that the lists were     *)
(* allocated too short; the victim tables, which are kept in controller    *)
(* pages, only where an entry has at least one of those.  Global addresses *)
(* tell pages and ranges apart when max_range is a power of two.           *)
(***************************************************************************)
TablesReachEntries ==
  LET ps == setup.ps
      np == setup.np
      dma == Buffer(setup.place, ps * np)
      list == Buffer(setup.list_place, prp_list_size(np))
      ppe == pages_per_entry(ps)
  IN  host.pc = "sched" =>
        \A e \in 0 .. np - 1 :
          LET own == [j \in 1 .. ppe |-> BusAddress(dma, page_vaddrs(ps, np)[e] + (j - 1) * CtrlPage)]
          IN  /\ ListFits => Reached(dma, list, ps, np, e) = own
              /\ \A j \in 1 .. ppe :
                   /\ page_ioaddrs(dma, ps, np)[e * ppe + j - 1] = own[j]
                   /\ ps >= CtrlPage => data_ioaddrs(dma, np, ppe)[e * ppe + j - 1] = own[j]
              /\ setup.max_range = 2^log2[setup.max_range] =>
                   \A r \in 0 .. setup.max_range - 1 :
                     Unpack(setup.max_range, Pack(setup.max_range, e, r)) = <<e, r>>

\* What the code never frees on the way down, by where it turned back.
NeverFreed ==
  [none  |-> {"page_vaddrs"},
   sched |-> {"page_vaddrs", "d_errors"},
   cache |-> {"page_vaddrs", "gpu_memory", "gpu_mapping"} \cup HostArrays,
   ctrl  |-> {"fd", "ctrl", "aq", "d_qps", "gpu_memory", "gpu_mapping"}]

(***************************************************************************)
(* A host that has come down holds nothing but the registration of the     *)
(* controller's registers and what NeverFreed lists for the place where it *)
(* turned back.  After a full life, or when io_sched_create returned no    *)
(* queue, that is page_vaddrs and main's array; after an exception in      *)
(* page_cache_t the arrays made by new and the memory createDma could not  *)
(* map; after one in Controller, whose destructor then does not run, the   *)
(* descriptor, the handles and the finished pairs.  Nothing is said of a   *)
(* process that frees a field which was never set.                         *)
(***************************************************************************)
NothingElseLeaked ==
  host.pc \in {"down", "failed"} =>
    /\ held \subseteq {"registered"} \cup NeverFreed[host.err]
    /\ host.h_qps \subseteq IF host.err = "ctrl" THEN 0 .. host.i - 1 ELSE {}

(***************************************************************************)
(* The start ends, in use or in an error, even with a controller that      *)
(* stops answering at any point.                                           *)
(***************************************************************************)
StartEnds == <>(host.pc \in {"failed", "up", "down"})
=============================================================================
