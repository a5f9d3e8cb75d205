-------------------------- MODULE MCQueueUse -----------------------------
(* Instances of QueueUse for TLC. *)
EXTENDS QueueUse

TwoThreads == {1, 2}

\* Two reads that may share a second read; a read and a command that books a
\* position too; commands without a second read, two from one thread.
ThreePlans == {<<<<read_data>>, <<read_data>>>>,
               <<<<read_data>>, <<trim_data>>>>,
               <<<<trim_data>>, <<write_data_no_second, write_data>>>>}
=============================================================================
