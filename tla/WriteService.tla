--------------------------- MODULE WriteService ---------------------------
(***************************************************************************)
(* What the write scheduler promises its clients, without ring, batches or *)
(* commands: it accepts requests, performs each once from its own buffer,  *)
(* in any order and any number at a time, answers a request only after     *)
(* that, and closes only when nothing is left to do.                       *)
(***************************************************************************)
EXTENDS Integers, Sequences

CONSTANTS
  Places,      \* blocks that requests can write
  Requests     \* records with the block (off) and the buffer (pe)

VARIABLES
  accepted,    \* the requests, in the order they were accepted
  store,       \* block -> the buffers written to it
  answered,    \* numbers of the requests that were answered
  returned,    \* numbers of the requests whose caller has seen the answer
  closed

service == <<accepted, store, answered, returned, closed>>

Numbers == 0 .. Len(accepted) - 1
Req(i) == accepted[i + 1]

\* Blocks are written once: the callers' requests are distinct.
Waiting == {i \in Numbers : store[Req(i).off] = <<>>}

Init ==
  /\ accepted = <<>>
  /\ store = [b \in Places |-> <<>>]
  /\ answered = {} /\ returned = {}
  /\ closed = FALSE

Accept ==
  /\ ~closed
  /\ \E r \in Requests : accepted' = Append(accepted, r)
  /\ UNCHANGED <<store, answered, returned, closed>>

\* One command serves a set of requests.
Perform ==
  /\ store' # store
  /\ \E S \in SUBSET Waiting :
       store' = [b \in Places |->
         IF \E i \in S : Req(i).off = b
         THEN <<Req(CHOOSE i \in S : Req(i).off = b).pe>> ELSE store[b]]
  /\ UNCHANGED <<accepted, answered, returned, closed>>

Answer ==
  /\ \E i \in Numbers \ (answered \cup Waiting) : answered' = answered \cup {i}
  /\ UNCHANGED <<accepted, store, returned, closed>>

Return ==
  /\ \E i \in answered \ returned : returned' = returned \cup {i}
  /\ UNCHANGED <<accepted, store, answered, closed>>

Close ==
  /\ ~closed /\ closed' = TRUE
  /\ returned = Numbers
  /\ UNCHANGED <<accepted, store, answered, returned>>

Next == Accept \/ Perform \/ Answer \/ Return \/ Close

Spec == Init /\ [][Next]_service
=============================================================================
