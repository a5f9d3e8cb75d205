----------------------------- MODULE MCHandles -----------------------------
(* Instances of Handles. *)
EXTENDS Handles

CONSTANTS d1, d2, t1, t2, t3

init == [op |-> "init"]
free == [op |-> "free"]
Map(handle) == [op |-> "map", h |-> handle]
Remap(handle, g) == [op |-> "remap", h |-> handle, from |-> g]
Unmap(handle) == [op |-> "unmap", h |-> handle]
Ask(handle) == [op |-> "query", h |-> handle]

\* Addresses: "low" starts the GPU page in which "page" lies.
At(kind, window, page) == [kind |-> kind, window |-> window, page |-> page]
MCBuffers == [aq |-> At("host", 0, 3), sq |-> At("device", 1, 0), buf |-> At("device", 2, 0),
              far |-> At("device", 3, 0), low |-> At("host", 4, 0), page |-> At("host", 4, 1)]
MCHandleOf == [aq |-> "aq", admin |-> "aq", sq |-> "sq", buf |-> "buf", far |-> "far",
               low |-> "low", page |-> "page"]
MCProc == (t1 :> "p") @@ (t2 :> "p") @@ (t3 :> "q")

\* t1 makes and destroys a Controller, or gives the first handle of a mapping
\* back before the second; t2 maps a buffer of its own meanwhile; t3, of another
\* process, ends without unmapping, or unmaps one of two neighbours.
Controller == <<init, Map("aq"), Remap("admin", "aq"), Map("sq"), Unmap("sq"),
                Unmap("admin"), free, Unmap("aq")>>
Bystander == <<Map("buf"), Unmap("buf")>>
Careless == <<init, Map("far"), Ask("far"), Map("page")>>
Remapped == <<init, Map("aq"), Remap("admin", "aq"), Unmap("aq"), Unmap("admin"), free>>
Neighbours == <<init, Map("low"), Map("page"), Unmap("page")>>
Lives ==
  {(t1 :> Controller) @@ (t2 :> Bystander) @@ (t3 :> <<>>),
   (t1 :> Controller) @@ (t2 :> <<>>) @@ (t3 :> Careless),
   (t1 :> Remapped) @@ (t2 :> Bystander) @@ (t3 :> <<>>),
   (t1 :> <<>>) @@ (t2 :> <<>>) @@ (t3 :> Neighbours),
   (t1 :> <<init, Map("aq"), Unmap("aq")>>) @@ (t2 :> Bystander) @@ (t3 :> <<init, Map("far")>>),
   \* Two threads give back the two handles of one mapping.
   (t1 :> <<init, Map("aq"), Remap("admin", "aq"), Unmap("aq")>>)
     @@ (t2 :> <<Unmap("admin")>>) @@ (t3 :> <<>>)}
=============================================================================
