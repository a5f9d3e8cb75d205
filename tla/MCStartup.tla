----------------------------- MODULE MCStartup ----------------------------
(* Instances of Startup. *)
EXTENDS Startup

\* The first setup is refused a table and two ask for too small a depth; the
\* others have a cache entry of half a controller page, one, two and four; the
\* GPU pages are mapped back to front.  In the last setup the queues outgrow a
\* GPU page, the size of the PRP lists its width, and max_range is 3.
Setup(depth, n, qs, mqes, cqr, ps, np, max_range, pool) ==
  [queueDepth |-> depth, numQueues |-> n, queues |-> qs, mqes |-> mqes, cqr |-> cqr,
   ps |-> ps, np |-> np, max_range |-> max_range, pool |-> pool,
   place |-> [i \in 0 .. 17 |-> (17 - i) * GpuPage],
   list_place |-> [i \in 0 .. 7 |-> 100 + (7 - i) * GpuPage]]

AllSetups ==
  { Setup(8, 2, <<2, 3>>, 6, TRUE, 64, 2, 1, TRUE),
    Setup(8, 2, <<2, 3>>, 6, TRUE, 1, 5, 1, TRUE),
    Setup(0, 1, <<1, 1>>, 3, TRUE, 2, 1, 1, TRUE),
    Setup(1, 1, <<1, 1>>, 6, TRUE, 2, 1, 1, TRUE),
    Setup(3, 1, <<3, 2>>, 6, FALSE, 2, 3, 2, FALSE),
    Setup(8, 3, <<1, 2>>, 32, TRUE, 4, 3, 4, TRUE),
    Setup(3, 5, <<2, 1>>, 2, TRUE, 8, 3, 2, TRUE),
    Setup(8, 1, <<3, 2>>, 6, FALSE, 8, 9, 3, FALSE) }

OneSetup == { Setup(3, 1, <<3, 2>>, 6, TRUE, 2, 3, 2, TRUE) }

HostOnly == {{"host"}}
Everyone == {Callers}

Commands ==
  [t \in Callers |->
     CASE t = "host" -> <<>>
       [] t = "t1" -> <<admin_sq_delete(1), admin_cq_delete(1)>>
       [] t = "t2" -> <<admin_get_log_page, admin_format_nvm>>]

Quiet == [t \in Callers |-> IF t = "host" THEN <<>> ELSE <<admin_get_log_page, admin_format_nvm>>]

\* "none": the pool of PRP lists cannot be mapped; "unset": no memory for it, for
\* the sort or for the victim arrays, which io_scheduler.cuh does not check.
Faults == {"aq", "register", "queue_memory", "doorbell", "d_ctrl",
           "ranges", "cache_pages", "pages_dma", "prp", "prp_list_dma", "pc_buff",
           "q", "entries", "done_flags", "done_seq", "prod_seq", "none", "unset",
           "vb", "data_raw", "data_dma"}
=============================================================================
