----------------------------- MODULE AdminQueue ---------------------------
(***************************************************************************)
(* The admin queue pair of a controller: src/rpc.cpp, src/queue.cpp,       *)
(* src/ctrl.cpp (the reset) and include/nvm_queue.h, with the commands of  *)
(* src/admin.cpp and the controller that executes them.  Callers share one *)
(* reference and take its lock for every command.  A caller that waits     *)
(* longer than the controller's timeout gives up; the command stays with   *)
(* the controller.                                                         *)
(*                                                                         *)
(* The fields of a command are modelled as values; the identifier that     *)
(* execute_command gives it is left out, since no code compares it.        *)
(***************************************************************************)
EXTENDS Integers, Sequences, FiniteSets

CONSTANTS
  ASQ, ACQ,   \* entries of the admin queues: page_size / 64, page_size / 16
  Callers,    \* threads; Host is the one that sets the controller up
  Host,
  Slow        \* who may time out: Init chooses one of these sets of threads

ASSUME AdminAssumption == {ASQ, ACQ} \subseteq Nat \ {0, 1} /\ Host \in Callers /\ "free" \notin Callers

VARIABLES
  slow,
  asq, acq,          \* the host's view: nvm_queue_t
  asq_mem, acq_mem,  \* queue memory
  sq_db, cq_db,      \* doorbell registers
  cc_en, csts_rdy,   \* registers
  dev,               \* the controller's positions and completion phase
  fetched,           \* commands it has fetched and not completed
  granted,           \* number of I/O queues: <<completion, submission>>
  io_cq, io_sq,      \* I/O queues it knows: identifier -> size, completion queue
  page,              \* caller -> what its data page contains
  lock,              \* holder of the reference's lock
  call,              \* caller -> its call of nvm_raw_rpc
  issued             \* history: number of commands submitted

hostVars == <<asq, acq, asq_mem, sq_db, cq_db, lock, call, issued>>
devVars == <<acq_mem, dev, fetched, granted, io_cq, io_sq, page>>
regVars == <<cc_en, csts_rdy>>
adminVars == <<slow, hostVars, devVars, regVars>>

Free == "free"
Empty == [n |-> 0, ok |-> FALSE, val |-> <<0, 0>>, phase |-> 0]

nvm_queue_clear == [head |-> 0, tail |-> 0, last |-> 0, phase |-> 1]

\* Nothing is known of a controller that another driver has used before.
AdminInit(limits) ==
  /\ slow \in Slow
  /\ asq = nvm_queue_clear /\ acq = nvm_queue_clear
  /\ asq_mem = [i \in 0 .. ASQ - 1 |-> Empty] /\ acq_mem = [i \in 0 .. ACQ - 1 |-> Empty]
  /\ sq_db = 0 /\ cq_db = 0
  /\ cc_en \in BOOLEAN /\ csts_rdy = cc_en
  /\ dev = [head |-> 0, tail |-> 0, phase |-> 1, limits |-> limits]
  /\ fetched = {}
  /\ granted = IF cc_en THEN limits.queues ELSE <<1, 1>>
  /\ io_cq = IF cc_en THEN <<limits.mqes>> ELSE <<>>
  /\ io_sq = IF cc_en THEN <<[qs |-> limits.mqes, cq |-> 1]>> ELSE <<>>
  /\ page = [t \in Callers |-> "zero"]
  /\ lock = Free
  /\ call = [t \in Callers |->
               [pc |-> "idle", cmd |-> [op |-> "none", args |-> <<>>], n |-> 0, reply |-> Empty]]
  /\ issued = 0

---------------------------------------------------------------------------
(* The commands of src/admin.cpp *)

Min2(a, b) == IF a < b THEN a ELSE b

Command(op, args) == [op |-> op, args |-> args]

admin_identify_ctrl == Command("identify", <<"ctrl">>)
admin_identify_ns == Command("identify", <<"ns">>)
admin_get_log_page == Command("identify", <<"log">>)
admin_format_nvm == Command("format", <<>>)

\* dword 11: completion queues in the high half, submission queues in the low.
admin_current_num_queues(set, n_cqs, n_sqs) ==
  Command("num_queues", IF set THEN <<n_cqs - 1, n_sqs - 1>> ELSE <<>>)

\* Checked before the command; memory for 0 entries cannot be mapped to begin with.
BadSize(qs) == qs < 2 \/ qs > 2^16 \/ qs > dev.limits.mqes

admin_cq_create(id, qs) == Command("create_cq", <<id, qs>>)
admin_sq_create(id, qs, cq) == Command("create_sq", <<id, qs, cq>>)
admin_cq_delete(id) == Command("delete_cq", <<id>>)
admin_sq_delete(id) == Command("delete_sq", <<id>>)

---------------------------------------------------------------------------
(* nvm_raw_rpc and execute_command *)

Goto(t, label) == call' = [call EXCEPT ![t].pc = label]
Return(t, reply) ==
  /\ call' = [call EXCEPT ![t] = [@ EXCEPT !.pc = "returned", !.reply = reply]]
  /\ lock' = Free

\* Mutant: the lock of the reference is not taken.
nvm_raw_rpc_unlocked(t) ==
  /\ call[t].pc = "call"
  /\ Goto(t, "locked")
  /\ UNCHANGED <<lock, asq, acq, asq_mem, sq_db, cq_db, issued, devVars, regVars>>

nvm_raw_rpc(t) ==
  /\ call[t].pc = "call"
  /\ lock = Free
  /\ lock' = t
  /\ Goto(t, "locked")
  /\ UNCHANGED <<asq, acq, asq_mem, sq_db, cq_db, issued, devVars, regVars>>

\* Submission: the queue is full, or the entry is written, the tail moves and the
\* doorbell is rung.
SqFull == ((asq.tail - asq.head) % 2^16) % ASQ = ASQ - 1
Advance(q, field, size) ==
  LET pos == (q[field] + 1) % size IN
  [q EXCEPT ![field] = pos, !.phase = IF pos = 0 THEN 1 - @ ELSE @]
nvm_sq_submit(q) == sq_db' = q.tail /\ asq' = [q EXCEPT !.last = q.tail]

\* The first half of execute_command.
Submit(t) ==
  /\ call[t].pc = "locked"
  /\ IF SqFull
     THEN Return(t, Empty) /\ UNCHANGED <<asq, asq_mem, sq_db, issued>>
     ELSE /\ asq_mem' = [asq_mem EXCEPT ![asq.tail] =
                           [n |-> issued + 1, by |-> t, cmd |-> call[t].cmd]]
          /\ nvm_sq_submit(Advance(asq, "tail", ASQ))
          /\ issued' = issued + 1
          /\ call' = [call EXCEPT ![t] = [@ EXCEPT !.pc = "wait", !.n = issued + 1]]
          /\ UNCHANGED lock
  /\ UNCHANGED <<acq, cq_db, devVars, regVars>>

\* nvm_cq_poll: the entry at the head has the phase of this pass.
Posted == acq_mem[acq.head].phase = acq.phase

nvm_sq_update == [asq EXCEPT !.head = (@ + 1) % ASQ]
nvm_cq_update(q) == cq_db' = q.head /\ acq' = [q EXCEPT !.last = q.head, !.tail = q.head]

\* The second half: whatever completion is at the head is taken for the answer.
Complete(t) ==
  /\ call[t].pc = "wait"
  /\ Posted
  /\ nvm_cq_update(Advance(acq, "head", ACQ))
  /\ asq' = nvm_sq_update
  /\ Return(t, acq_mem[acq.head])
  /\ UNCHANGED <<asq_mem, sq_db, issued, devVars, regVars>>

\* nvm_cq_dequeue_block gives up: neither queue position moves.
TimeOut(t) ==
  /\ call[t].pc = "wait"
  /\ ~Posted
  /\ t \in slow
  /\ Return(t, Empty)
  /\ UNCHANGED <<asq, acq, asq_mem, sq_db, cq_db, issued, devVars, regVars>>

Rpc(t) == (nvm_raw_rpc(t) \/ Submit(t) \/ Complete(t) \/ TimeOut(t)) /\ UNCHANGED slow

---------------------------------------------------------------------------
(* The controller *)

\* Disabling resets it: the queues and what it was doing are gone.
DevOff ==
  /\ ~cc_en /\ csts_rdy
  /\ csts_rdy' = FALSE
  /\ fetched' = {} /\ io_cq' = <<>> /\ io_sq' = <<>> /\ granted' = <<1, 1>>
  /\ UNCHANGED <<hostVars, acq_mem, dev, page, cc_en>>

DevOn ==
  /\ cc_en /\ ~csts_rdy
  /\ csts_rdy' = TRUE
  /\ dev' = [dev EXCEPT !.head = 0, !.tail = 0, !.phase = 1]
  /\ UNCHANGED <<hostVars, acq_mem, fetched, granted, io_cq, io_sq, page, cc_en>>

Fetch ==
  /\ cc_en /\ csts_rdy
  /\ dev.head # sq_db
  /\ fetched' = fetched \cup {asq_mem[dev.head]}
  /\ dev' = [dev EXCEPT !.head = (@ + 1) % ASQ]
  /\ UNCHANGED <<hostVars, acq_mem, granted, io_cq, io_sq, page, regVars>>

With(f, x, y) == [i \in DOMAIN f \cup {x} |-> IF i = x THEN y ELSE f[i]]
Without(f, x) == [i \in DOMAIN f \ {x} |-> f[i]]

\* What a command does, and whether the controller accepts it.
Accepts(c) ==
  CASE c.op = "create_cq" -> /\ c.args[1] \notin DOMAIN io_cq
                             /\ c.args[1] \in 1 .. granted[1]
                             /\ c.args[2] \in 2 .. dev.limits.mqes
    [] c.op = "create_sq" -> /\ c.args[1] \notin DOMAIN io_sq
                             /\ c.args[1] \in 1 .. granted[2]
                             /\ c.args[2] \in 2 .. dev.limits.mqes
                             /\ c.args[3] \in DOMAIN io_cq
    [] c.op = "delete_cq" -> /\ c.args[1] \in DOMAIN io_cq
                             /\ \A s \in DOMAIN io_sq : io_sq[s].cq # c.args[1]
    [] c.op = "delete_sq" -> c.args[1] \in DOMAIN io_sq
    [] OTHER -> TRUE

Granted(c) ==
  IF c.op = "num_queues" /\ c.args # <<>>
  THEN [i \in 1 .. 2 |-> Min2(c.args[i] + 1, dev.limits.queues[i])] ELSE granted

Execute(f) ==
  LET c == f.cmd
      ok == Accepts(c)
  IN  /\ cc_en /\ csts_rdy
      /\ (dev.tail + 1) % ACQ # cq_db
      /\ acq_mem' = [acq_mem EXCEPT ![dev.tail] =
           [n |-> f.n, ok |-> ok, val |-> [i \in 1 .. 2 |-> Granted(c)[i] - 1],
            phase |-> dev.phase]]
      /\ dev' = [dev EXCEPT !.tail = (@ + 1) % ACQ,
                            !.phase = IF dev.tail = ACQ - 1 THEN 1 - @ ELSE @]
      /\ fetched' = fetched \ {f}
      /\ granted' = Granted(c)
      /\ io_cq' = CASE ok /\ c.op = "create_cq" -> With(io_cq, c.args[1], c.args[2])
                    [] ok /\ c.op = "delete_cq" -> Without(io_cq, c.args[1])
                    [] OTHER -> io_cq
      /\ io_sq' = CASE ok /\ c.op = "create_sq" ->
                         With(io_sq, c.args[1], [qs |-> c.args[2], cq |-> c.args[3]])
                    [] ok /\ c.op = "delete_sq" -> Without(io_sq, c.args[1])
                    [] OTHER -> io_sq
      /\ page' = IF c.op = "identify" THEN [page EXCEPT ![f.by] = c.args[1]] ELSE page
      /\ UNCHANGED <<hostVars, regVars>>

Device == (DevOff \/ DevOn \/ Fetch \/ \E f \in fetched : Execute(f)) /\ UNCHANGED slow

---------------------------------------------------------------------------
(***************************************************************************)
(* A caller that gets an answer gets the answer to its own command, and    *)
(* the data that command asked for: nvm_raw_rpc relays a command and gets  *)
(* "a corresponding completion".                                           *)
(***************************************************************************)
OwnReply ==
  \A t \in Callers : call[t].pc = "returned" /\ call[t].reply # Empty =>
    /\ call[t].reply.n = call[t].n
    /\ call[t].cmd.op = "identify" => page[t] = call[t].cmd.args[1]
=============================================================================
