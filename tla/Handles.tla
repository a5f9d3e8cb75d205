------------------------------ MODULE Handles ------------------------------
(***************************************************************************)
(* The library's handles: ctrl.cpp counts the references to a controller,  *)
(* dma.cpp the references to a mapping, and each mapping holds its         *)
(* controller.  The first handle of a buffer is made by the driver's map   *)
(* ioctl, further ones by nvm_dma_remap; the last to go undoes it.         *)
(***************************************************************************)
EXTENDS Driver

CONSTANTS
  Proc,      \* task -> its process
  Dev,       \* the device the processes open
  Programs,  \* sets of programs: task -> sequence of calls
  HandleOf   \* handle -> its buffer

VARIABLES
  program,   \* task -> the calls it has still to make
  at,        \* task -> where it is in its call
  ctrl,      \* process -> its controller
  map,       \* buffer -> its mapping descriptor
  live       \* handles that exist

vars == <<program, at, ctrl, map, live, driverVars>>

create_handle == [count |-> 1, open |-> TRUE, user |-> TRUE]

Procs == {Proc[t] : t \in Tasks}
NoCtrl == [count |-> 0, open |-> FALSE, user |-> FALSE]
NoMap == [count |-> 0, va |-> FALSE, lock |-> "none", freed |-> 0, droppers |-> {}]

Init ==
  /\ DriverInit(Dev)
  /\ program \in Programs
  /\ at = [t \in Tasks |-> "idle"]
  /\ ctrl = [p \in Procs |-> NoCtrl]
  /\ map = [b \in DOMAIN Buffers |-> NoMap]
  /\ live = {}

---------------------------------------------------------------------------
(* The controller's reference count *)

Call(t) == Head(program[t])
Calls(t, op) == at[t] = "idle" /\ program[t] # <<>> /\ Call(t).op = op
Return(t) ==
  /\ at' = [at EXCEPT ![t] = "idle"]
  /\ program' = [program EXCEPT ![t] = Tail(@)]
Go(t, label) == at' = [at EXCEPT ![t] = label] /\ UNCHANGED program

\* Mutant: a mapping does not hold its controller.
ctrl_get_none(t) == UNCHANGED ctrl

_nvm_ctrl_get(t) == ctrl' = [ctrl EXCEPT ![Proc[t]].count = @ + 1]

\* The last reference closes the device.
_nvm_ctrl_put(t, c) ==
  LET p == Proc[t] IN
  [c EXCEPT ![p].count = @ - 1, ![p].open = @ /\ c[p].count # 1]

nvm_ctrl_init(t) ==
  /\ Calls(t, "init")
  /\ \/ ctrl' = [ctrl EXCEPT ![Proc[t]] = create_handle]
     \/ MapFails /\ UNCHANGED ctrl
  /\ Return(t)
  /\ UNCHANGED <<map, live, driverVars>>

nvm_ctrl_free(t) ==
  /\ Calls(t, "free") /\ ctrl[Proc[t]].user
  /\ ctrl' = _nvm_ctrl_put(t, [ctrl EXCEPT ![Proc[t]].user = FALSE])
  /\ Return(t)
  /\ UNCHANGED <<map, live, driverVars>>

\* A caller that holds no controller, or not the handle, does not call.
Skip(t) ==
  /\ at[t] = "idle" /\ program[t] # <<>>
  /\ CASE Call(t).op \in {"map", "free", "query"} -> ~ctrl[Proc[t]].user
       [] Call(t).op = "remap" -> Call(t).from \notin live
       [] Call(t).op = "unmap" -> Call(t).h \notin live
       [] OTHER -> FALSE
  /\ Return(t)
  /\ UNCHANGED <<ctrl, map, live, driverVars>>

---------------------------------------------------------------------------
(* Making handles *)

ioctl_map(t, b) == map_ioctl(t, Dev, "map", b)
ioctl_unmap(t, b) == map_ioctl(t, Dev, "unmap", b)

\* nvm_dma_create, nvm_dma_map_host and nvm_dma_map_device describe the buffer
\* and go on to _nvm_dma_init.
nvm_dma_map(t) == Calls(t, "map") /\ ctrl[Proc[t]].user

create_map(t) ==
  LET b == HandleOf[Call(t).h] IN
  /\ nvm_dma_map(t)
  /\ _nvm_ctrl_get(t)
  /\ map' = [map EXCEPT ![b] = [NoMap EXCEPT !.count = 1, !.va = TRUE]]
  /\ ioctl_map(t, b)
  /\ Go(t, "mapping")
  /\ UNCHANGED <<live, listVars, pciVars, searches>>

\* Without memory for the mapping descriptor, the map or the container, what was
\* made before is removed again.
create_container(t) ==
  /\ MapFails
  /\ nvm_dma_map(t)
  /\ Return(t)
  /\ UNCHANGED <<ctrl, map, live, driverVars>>

\* On failure the descriptor is removed; the driver is not asked to unmap.
_nvm_dma_init(t) ==
  LET b == HandleOf[Call(t).h] IN
  /\ at[t] = "mapping" /\ req[t].pc = "done"
  /\ IF req[t].err
     THEN ctrl' = _nvm_ctrl_put(t, ctrl) /\ map' = [map EXCEPT ![b] = NoMap] /\ UNCHANGED live
     ELSE live' = live \cup {Call(t).h} /\ UNCHANGED <<ctrl, map>>
  /\ req' = [req EXCEPT ![t] = NoReq]
  /\ Return(t)
  /\ UNCHANGED <<listVars, pciVars, searches>>

\* Mutant: a remapped handle takes no reference.
remap_uncounted(t) ==
  /\ Calls(t, "remap") /\ Call(t).from \in live
  /\ live' = live \cup {Call(t).h} /\ Return(t)
  /\ UNCHANGED <<ctrl, map, driverVars>>

\* Without memory for the container the reference is given back.
nvm_dma_remap(t) ==
  LET b == HandleOf[Call(t).h] IN
  /\ Calls(t, "remap") /\ Call(t).from \in live
  /\ map[b].lock = "none"
  /\ map' = [map EXCEPT ![b].count = @ + 1]
  /\ \/ live' = live \cup {Call(t).h} /\ Return(t)
     \/ MapFails /\ Go(t, "put") /\ UNCHANGED live
  /\ UNCHANGED <<ctrl, driverVars>>

---------------------------------------------------------------------------
(* Giving them back *)

nvm_dma_unmap(t) ==
  /\ Calls(t, "unmap") /\ Call(t).h \in live
  /\ live' = live \ {Call(t).h}
  /\ Go(t, "put")
  /\ UNCHANGED <<ctrl, map, driverVars>>

\* Mutants: the address range is cleared with every reference; the driver is not
\* asked to unmap.
put_map_clears(t) ==
  LET b == HandleOf[Call(t).h] IN
  /\ at[t] = "put"
  /\ map' = [map EXCEPT ![b] = [@ EXCEPT !.count = @ - 1, !.va = FALSE, !.droppers = @ \cup {t}]]
  /\ Go(t, "check")
  /\ UNCHANGED <<ctrl, live, driverVars>>
put_map_keeps(t) ==
  LET b == HandleOf[Call(t).h] IN
  /\ at[t] = "put"
  /\ map' = [map EXCEPT ![b] = [@ EXCEPT !.count = @ - 1, !.va = map[b].count # 1,
                                     !.droppers = @ \cup {t}]]
  /\ Go(t, "check")
  /\ UNCHANGED <<ctrl, live, driverVars>>

\* Under the mapping's lock: the last reference has the driver unmap.
put_map(t) ==
  LET b == HandleOf[Call(t).h] IN
  /\ at[t] = "put" /\ map[b].lock = "none"
  /\ IF map[b].count = 1
     THEN /\ map' = [map EXCEPT ![b] = [@ EXCEPT !.count = 0, !.lock = t,
                                                 !.droppers = @ \cup {t}]]
          /\ ioctl_unmap(t, b)
          /\ Go(t, "unmapping")
     ELSE /\ map' = [map EXCEPT ![b] = [@ EXCEPT !.count = @ - 1, !.droppers = @ \cup {t}]]
          /\ Go(t, "check")
          /\ UNCHANGED req
  /\ UNCHANGED <<ctrl, live, listVars, pciVars, searches>>

\* The outcome of the ioctl is only logged.
Unmapped(t) ==
  LET b == HandleOf[Call(t).h] IN
  /\ at[t] = "unmapping" /\ req[t].pc = "done"
  /\ map' = [map EXCEPT ![b] = [@ EXCEPT !.va = FALSE, !.lock = "none"]]
  /\ req' = [req EXCEPT ![t] = NoReq]
  /\ Go(t, "check")
  /\ UNCHANGED <<ctrl, live, listVars, pciVars, searches>>

\* After the lock: whoever finds no address range removes the descriptor.
remove_map(t) ==
  LET b == HandleOf[Call(t).h] IN
  /\ at[t] = "check"
  /\ IF map[b].va THEN UNCHANGED <<ctrl, map>>
     ELSE ctrl' = _nvm_ctrl_put(t, ctrl) /\ map' = [map EXCEPT ![b].freed = @ + 1]
  /\ Return(t)
  /\ UNCHANGED <<live, driverVars>>

\* nvm_dma_query_phys_addrs holds the controller around its ioctl.
Query(t) ==
  /\ Calls(t, "query") /\ ctrl[Proc[t]].user
  /\ _nvm_ctrl_get(t)
  /\ map_ioctl(t, Dev, "query", HandleOf[Call(t).h])
  /\ Go(t, "querying")
  /\ UNCHANGED <<map, live, listVars, pciVars, searches>>

Queried(t) ==
  /\ at[t] = "querying" /\ req[t].pc = "done"
  /\ ctrl' = _nvm_ctrl_put(t, ctrl)
  /\ req' = [req EXCEPT ![t] = NoReq]
  /\ Return(t)
  /\ UNCHANGED <<map, live, listVars, pciVars, searches>>

---------------------------------------------------------------------------
Library(t) ==
  \/ nvm_ctrl_init(t) \/ nvm_ctrl_free(t) \/ Skip(t)
  \/ create_map(t) \/ create_container(t) \/ _nvm_dma_init(t) \/ nvm_dma_remap(t)
  \/ nvm_dma_unmap(t) \/ put_map(t) \/ Unmapped(t) \/ remove_map(t)
  \/ Query(t) \/ Queried(t)

Ioctl(t) ==
  /\ \/ map_userspace(t, Dev) \/ map_device_memory(t) \/ list_insert(t)
     \/ \E k \in {"host", "device"} : map_find(t, k) \/ not_found(t, k)
     \/ list_remove(t) \/ unmap_and_release(t)
  /\ UNCHANGED <<program, at, ctrl, map, live>>

Over(p) == \A t \in Tasks : Proc[t] = p => program[t] = <<>>

Gone(p) == Over(p) /\ ~ctrl[p].open

\* A process that has ended gives up its descriptor and its GPU memory; the
\* module cannot be unloaded while a descriptor is open.
Exit(p) ==
  /\ Over(p) /\ ctrl[p].open
  /\ ctrl' = [ctrl EXCEPT ![p] = NoCtrl]
  /\ live' = {h \in live : ~\E t \in Tasks : Proc[t] = p /\ owner[HandleOf[h]] = t}
  /\ UNCHANGED <<program, at, map, driverVars>>

Kernel ==
  /\ \/ \E d \in Devs : add_pci_dev(d) \/ remove_pci_dev(d)
     \/ \E b \in DOMAIN Buffers :
          owner[b] \in Tasks /\ Gone(Proc[owner[b]]) /\ force_release_gpu_memory(b)
     \/ (\A p \in Procs : Gone(p)) /\ Unload
     \/ clear_map_list \/ Unloaded
  /\ UNCHANGED <<program, at, ctrl, map, live>>

Terminated == module = "unloaded" /\ UNCHANGED vars

Next ==
  \/ \E t \in Tasks : Library(t) \/ Ioctl(t)
  \/ \E p \in Procs : Exit(p)
  \/ Kernel \/ Terminated

Spec == Init /\ [][Next]_vars /\ \A t \in Tasks : WF_vars(Library(t)) /\ WF_vars(Ioctl(t))

---------------------------------------------------------------------------
(* Properties *)

\* No other buffer shares the GPU page of b, or neither of the two starts it.
Apart(b) ==
  \A e \in DOMAIN Buffers \ {b} : Buffers[e].window = Buffers[b].window =>
    Buffers[e].page # 0 /\ Buffers[b].page # 0

\* While a handle exists its pages are pinned, listed in the driver and mapped
\* for the device: a remapped handle keeps them after the first one is gone.
\* Excepted are buffers that are not Apart: map_find also takes the mapping at
\* the start of the GPU page for the one it looks for.
HandlesMapped ==
  \A h \in live :
    LET b == HandleOf[h] IN
    Apart(b) => b \in pinned /\ <<b, Dev>> \in bus /\ Listed(Buffers[b].kind, b)

\* Every ioctl is made on an open device file, the one that undoes a mapping
\* after nvm_ctrl_free included: each mapping holds its controller.
IoctlOnOpenFile ==
  \A t \in Tasks : req[t].pc # "idle" => ctrl[Proc[t]].open

\* A mapping descriptor is removed, and its controller released, once, when one
\* thread has dropped all its references.  The condition is needed: put_map
\* reads va after it has given up the lock, so of two threads that drop the
\* last references both may find that it is theirs to remove.
RemovedOnce ==
  \A b \in DOMAIN Buffers : map[b].freed <= 1 \/ Cardinality(map[b].droppers) > 1

\* When the last handle of a buffer has been given back and its descriptor
\* removed, the driver no longer holds the buffer's pages.  Three exceptions:
\* a thread other than the one that mapped the buffer unmaps it, since map_find
\* compares the task; an element leaves the list while the walk stands on it;
\* the buffer is not Apart.  The library ignores the error in each.
UnmapUnpins ==
  \A b \in DOMAIN Buffers :
    map[b].freed > 0 /\ b \in pinned =>
      [buf |-> b, own |-> FALSE] \in missed \/ b \in astray \/ ~Apart(b)

\* A task that asks the driver for a buffer it has mapped is not told that there
\* is no such mapping, whatever other tasks add and remove meanwhile, unless its
\* walk stood on an element that was removed: map_find does not take the lock
\* that insertion and removal take.
OwnMappingFound == \A m \in missed : m.own => m.buf \in astray

\* When the module has gone no page is pinned and no DMA mapping is live,
\* whatever the processes left behind.
AllGivenBack == module = "unloaded" => pinned = {} /\ bus = {}

\* Every program comes to its end: the lock of a mapping is held while the driver
\* walks its lists, and every walk ends although elements come and go.
ProgramsEnd == <>(\A t \in Tasks : program[t] = <<>>)
=============================================================================
