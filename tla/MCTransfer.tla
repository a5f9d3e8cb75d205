---------------------------- MODULE MCTransfer ----------------------------
(* Instances of Transfer for TLC. *)
EXTENDS ServiceInv

\* Sequential pages, as ae_page returns them without --pattern random.
InOrder == [x \in 0 .. PagesPerLaunch - 1 |-> x]

\* A random order: even pages, then odd ones.
EvenFirst == [x \in 0 .. PagesPerLaunch - 1 |->
                ((2 * x) % PagesPerLaunch) + ((2 * x) \div PagesPerLaunch)]

TotalPages == 0 .. Batches * PagesPerLaunch - 1
=============================================================================
