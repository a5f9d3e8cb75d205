-------------------------- MODULE MCPageCoverage --------------------------
(* Instances of PageCoverage for TLC. *)
EXTENDS PageCoverage

\* Small command lines, most of them not acceptable.
SmallOptions ==
  [bytes : {0, 12, 16, 24, 32, 64}, io : {2, 3, 4}, batch_bytes : {8, 12, 16, 32},
   workers : {0, 1, 2, 3, 4, 6, 8, 16}, tile : {0, 1, 2, 3, 4, 8}, offset : {0, 1, 8, 65480},
   seed : {0, 5}, random : BOOLEAN, transpose : BOOLEAN]

\* Random workloads of up to 2^14 pages of two bytes.
RandomOptions ==
  {o \in [bytes : {2^k : k \in 1 .. 11} \cup {6, 12, 8192, 32768}, io : {2},
          batch_bytes : {2^k : k \in 1 .. 11} \cup {6, 12, 8192, 32768},
          workers : {1}, tile : {0}, offset : {0}, seed : {0, 1, 133},
          random : {TRUE}, transpose : {FALSE}] :
     o.batch_bytes = o.bytes}

CommandLines == SmallOptions \cup RandomOptions

=============================================================================
