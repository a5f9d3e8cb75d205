--------------------------- MODULE MCAsyncClient ---------------------------
(* Instances of AsyncClient for TLC. *)
EXTENDS AsyncClient

OnePagePerRequest == 0 .. Cardinality(Producers) * Count - 1

=============================================================================
