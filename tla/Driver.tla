------------------------------ MODULE Driver ------------------------------
(***************************************************************************)
(* The kernel module: module/pci.c, map.c, ctrl.c and list.c.  It keeps a  *)
(* list of controllers and two lists of mappings, pins the pages a process *)
(* asks it to map, and lets the GPU driver take GPU pages back.  An ioctl  *)
(* runs in the task that calls it; a walk over a list takes no lock.       *)
(***************************************************************************)
EXTENDS Integers, Sequences, FiniteSets, SequencesExt

CONSTANTS
  Devs,       \* PCI functions
  Tasks,      \* threads that call ioctl
  Buffers,    \* buffer -> kind ("host" or "device") and page-aligned address
  MaxCtrls,   \* max_num_ctrls
  MapFails    \* whether pinning, mapping or the copy of the addresses may fail

\* An address is a GPU page (64 KB, "window") and a host page in it.
ASSUME DriverAssumption ==
  /\ MaxCtrls \in Nat \ {0} /\ MapFails \in BOOLEAN
  /\ \A b \in DOMAIN Buffers :
       /\ Buffers[b] \in [kind : {"host", "device"}, window : Nat, page : 0 .. 15]
       /\ Buffers[b].kind = "device" => Buffers[b].page = 0

VARIABLES
  module,     \* "loaded", "clearing", "removing" or "unloaded"
  ctrl_list,  \* controllers in the order they were added
  curr_ctrls,
  bound,      \* devices whose probe has succeeded
  lists,      \* kind -> sequence of buffers: host_list and device_list
  owner,      \* buffer -> the task that mapped it
  pinned,     \* buffers whose pages are held
  mappings,   \* buffer -> the devices it was mapped for, in order
  bus,        \* pairs of buffer and device whose DMA mapping is live
  req,        \* task -> its ioctl
  missed,     \* history: pinned buffers that were asked for in vain, and
              \* whether their owner did
  astray      \* history: buffers looked for from an element that had left

listVars == <<lists, owner, pinned, mappings, bus>>
pciVars == <<module, ctrl_list, curr_ctrls, bound>>
searches == <<missed, astray>>
driverVars == <<listVars, pciVars, req, searches>>

NoReq == [pc |-> "idle", op |-> "none", buf |-> "none", at |-> "none", err |-> FALSE]

list_init == [k \in {"host", "device"} |-> <<>>]

\* ctrl_get
Node(d, n) == [dev |-> d, number |-> n]

DriverInit(d) ==
  /\ module = "loaded"
  /\ ctrl_list = <<Node(d, 0)>> /\ curr_ctrls = 1 /\ bound = {d}
  /\ lists = list_init
  /\ owner = [b \in DOMAIN Buffers |-> "none"]
  /\ pinned = {} /\ bus = {}
  /\ mappings = [b \in DOMAIN Buffers |-> <<>>]
  /\ req = [t \in Tasks |-> NoReq]
  /\ missed = {} /\ astray = {}

DevicesOf(list) == [i \in DOMAIN list |-> list[i].dev]
Step(t, label) == req' = [req EXCEPT ![t].pc = label]
Finish(t, err) == req' = [req EXCEPT ![t] = [NoReq EXCEPT !.pc = "done", !.err = err]]

---------------------------------------------------------------------------
(* Controllers *)

\* The character device of a new controller cannot be created when its number
\* is in use; then all is undone and the probe fails.
NumberInUse(list, n) == \E i \in DOMAIN list : list[i].number = n

\* A device beyond the maximum is bound without a controller.
add_pci_dev(d) ==
  /\ module = "loaded"
  /\ d \notin bound
  /\ IF curr_ctrls >= MaxCtrls
     THEN bound' = bound \cup {d} /\ UNCHANGED <<ctrl_list, curr_ctrls>>
     ELSE /\ ~NumberInUse(ctrl_list, curr_ctrls)
          /\ ctrl_list' = Append(ctrl_list, Node(d, curr_ctrls))
          /\ curr_ctrls' = curr_ctrls + 1
          /\ bound' = bound \cup {d}
  /\ UNCHANGED <<module, listVars, req, searches>>

ctrl_put(list, d) == SelectSeq(list, LAMBDA c : c.dev # d)

\* While the module is loaded, only when nothing is mapped: the mappings of a
\* GPU buffer are released by the position of their controllers in the list.
remove_pci_dev(d) ==
  /\ d \in bound
  /\ \/ module = "removing"
     \/ module = "loaded" /\ pinned = {} /\ \A t \in Tasks : req[t].pc \in {"idle", "done"}
  /\ curr_ctrls' = curr_ctrls - 1
  /\ ctrl_list' = ctrl_put(ctrl_list, d)
  /\ bound' = bound \ {d}
  /\ UNCHANGED <<module, listVars, req, searches>>

---------------------------------------------------------------------------
(* Mapping *)

release_user_pages(b) == {}

\* What is left of the DMA mappings of a GPU buffer after the release loop: the
\* j-th is undone for the j-th controller now in the list.
release_gpu_memory(b) ==
  {<<b, mappings[b][j]>> : j \in {j \in DOMAIN mappings[b] :
       j > Len(ctrl_list) \/ ctrl_list[j].dev # mappings[b][j]}}

create_descriptor(t) == owner' = [owner EXCEPT ![req[t].buf] = t]

\* The pages are pinned and then mapped for each device of a sequence.
PinAndMap(b, devs) ==
  /\ pinned' = pinned \cup {b}
  /\ mappings' = [mappings EXCEPT ![b] = devs]
  /\ bus' = bus \cup {<<b, devs[i]>> : i \in DOMAIN devs}

\* A host buffer is mapped for the controller of the file, a GPU buffer for
\* every controller in the list.
map_user_pages(b, dev) == PinAndMap(b, <<dev>>)
map_gpu_memory(b) == PinAndMap(b, DevicesOf(ctrl_list))

\* A failure to pin or to map releases what was had and ends the ioctl.
MapFailed(t) == MapFails /\ Finish(t, TRUE) /\ UNCHANGED <<pinned, owner, mappings, bus>>

map_userspace(t, dev) ==
  /\ req[t].pc = "map" /\ Buffers[req[t].buf].kind = "host"
  /\ \/ create_descriptor(t) /\ map_user_pages(req[t].buf, dev) /\ Step(t, "insert")
     \/ MapFailed(t)
  /\ UNCHANGED <<lists, pciVars, searches>>

map_device_memory(t) ==
  /\ req[t].pc = "map" /\ Buffers[req[t].buf].kind = "device"
  /\ \/ create_descriptor(t) /\ map_gpu_memory(req[t].buf) /\ Step(t, "insert")
     \/ MapFailed(t)
  /\ UNCHANGED <<lists, pciVars, searches>>

\* The mapping stays in the list also when its addresses cannot be copied to
\* the caller, who is told that the ioctl failed.
list_insert(t) ==
  LET b == req[t].buf IN
  /\ req[t].pc = "insert"
  /\ lists' = [lists EXCEPT ![Buffers[b].kind] = Append(@, b)]
  /\ \E err \in {FALSE, MapFails} : Finish(t, err)
  /\ UNCHANGED <<owner, pinned, mappings, bus, pciVars, searches>>

---------------------------------------------------------------------------
(* Looking up and unmapping *)

First(k) == IF lists[k] = <<>> THEN "none" ELSE Head(lists[k])

Listed(k, e) == e \in ToSet(lists[k])
After(k, e) ==
  LET later == {i \in DOMAIN lists[k] : i > 1 /\ lists[k][i - 1] = e} IN
  {lists[k][i] : i \in later} \cup (IF later = {} THEN {"none"} ELSE {})

\* Mutants: the walk stops one element early; it does not move on.
list_next_short(k, e) ==
  IF Listed(k, e) /\ After(k, e) # {Last(lists[k])} THEN After(k, e) ELSE {"none"}
list_next_same(k, e) == {e}

\* The element after e.  An element that has been removed has its links reset
\* and is freed: the walk ends there, or goes on with what it reads.
list_next(k, e) == IF Listed(k, e) THEN After(k, e) ELSE ToSet(lists[k]) \cup {"none"}

Walks(t, k) == req[t].pc = "find_" \o k

ctrl_find_by_inode(d) == d \in ToSet(DevicesOf(ctrl_list))

\* An ioctl on a controller that has left the list is refused.
map_ioctl(t, d, op, b) ==
  LET k == IF op = "unmap" THEN "host" ELSE "device"
      r == [NoReq EXCEPT !.op = op, !.buf = b]
  IN  req' = [req EXCEPT ![t] =
        IF ~ctrl_find_by_inode(d) THEN [r EXCEPT !.pc = "done", !.err = TRUE]
        ELSE IF op = "map" THEN [r EXCEPT !.pc = "map"]
        ELSE [r EXCEPT !.pc = "find_" \o k, !.at = First(k)]]

\* map_find compares an element with the address and with its GPU page.
Matches(e, b) ==
  Buffers[e].window = Buffers[b].window /\ Buffers[e].page \in {Buffers[b].page, 0}

\* An unmap looks in the host list and then in the device list, a query only in
\* the latter.  The walk does not take the lock of the list.
map_find(t, k) ==
  LET e == req[t].at
      hit == Listed(k, e) /\ owner[e] = t /\ Matches(e, req[t].buf)
  IN  /\ Walks(t, k) /\ e # "none"
      /\ \/ hit /\ req[t].op = "query" /\ \E err \in {FALSE, MapFails} : Finish(t, err)
         \/ hit /\ req[t].op = "unmap" /\ Step(t, "remove")
         \/ ~hit /\ \E n \in list_next(k, e) : req' = [req EXCEPT ![t].at = n]
      /\ astray' = IF Listed(k, e) THEN astray ELSE astray \cup {req[t].buf}
      /\ UNCHANGED <<listVars, pciVars, missed>>

\* map_find returns NULL.
not_found(t, k) ==
  LET b == req[t].buf IN
  /\ Walks(t, k) /\ req[t].at = "none"
  /\ IF k = "host"
     THEN /\ req' = [req EXCEPT ![t] = [@ EXCEPT !.pc = "find_device", !.at = First("device")]]
          /\ UNCHANGED missed
     ELSE /\ Finish(t, TRUE)
          /\ missed' = IF b \notin pinned THEN missed
                       ELSE missed \cup {[buf |-> b, own |-> owner[b] = t]}
  /\ UNCHANGED <<listVars, pciVars, astray>>

Unlink(b) == lists' = [k \in DOMAIN lists |-> SelectSeq(lists[k], LAMBDA x : x # b)]

\* Under the lock of the list, which no walk takes.
list_remove(t) ==
  /\ req[t].pc = "remove"
  /\ Unlink(req[t].at)
  /\ Step(t, "release")
  /\ UNCHANGED <<owner, pinned, mappings, bus, pciVars, searches>>

Left(b) == IF Buffers[b].kind = "host" THEN release_user_pages(b) ELSE release_gpu_memory(b)

\* The release callback and the end of the descriptor.
Dispose(b) ==
  /\ pinned' = pinned \ {b}
  /\ bus' = {x \in bus : x[1] # b} \cup (Left(b) \cap bus)
  /\ owner' = [owner EXCEPT ![b] = "none"]
  /\ mappings' = [mappings EXCEPT ![b] = <<>>]

unmap_and_release(t) ==
  /\ req[t].pc = "release"
  /\ Dispose(req[t].at)
  /\ Finish(t, FALSE)
  /\ UNCHANGED <<lists, pciVars, searches>>

\* The GPU driver takes back the pages of a task that is gone.
force_release_gpu_memory(b) ==
  /\ b \in ToSet(lists["device"])
  /\ Unlink(b)
  /\ Dispose(b)
  /\ UNCHANGED <<pciVars, req, searches>>

---------------------------------------------------------------------------
(* Unloading *)

Unload ==
  /\ module = "loaded"
  /\ module' = "clearing"
  /\ UNCHANGED <<ctrl_list, curr_ctrls, bound, listVars, req, searches>>

\* Mutant: host mappings are forgotten.
clear_device_list ==
  LET all == lists["device"] IN
  /\ module = "clearing"
  /\ IF all = <<>> THEN module' = "removing" /\ UNCHANGED listVars
     ELSE Unlink(Head(all)) /\ Dispose(Head(all)) /\ UNCHANGED module
  /\ UNCHANGED <<ctrl_list, curr_ctrls, bound, req, searches>>

\* clear_map_list: the device list, then the host list.
clear_map_list ==
  LET all == lists["device"] \o lists["host"] IN
  /\ module = "clearing"
  /\ IF all = <<>> THEN module' = "removing" /\ UNCHANGED listVars
     ELSE Unlink(Head(all)) /\ Dispose(Head(all)) /\ UNCHANGED module
  /\ UNCHANGED <<ctrl_list, curr_ctrls, bound, req, searches>>

Unloaded ==
  /\ module = "removing"
  /\ bound = {}
  /\ module' = "unloaded"
  /\ UNCHANGED <<ctrl_list, curr_ctrls, bound, listVars, req, searches>>
=============================================================================
