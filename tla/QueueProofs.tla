--------------------------- MODULE QueueProofs ---------------------------
(***************************************************************************)
(* The batch calls on a queue pair, for every queue size, batch size and   *)
(* number of commands used before: waiting for one completion is waiting   *)
(* for the whole batch, and the commands in flight are told apart by CIDs  *)
(* that are never locked.                                                  *)
(***************************************************************************)
EXTENDS QueueUse, FiniteSetTheorems, TLAPS

---------------------------------------------------------------------------
(* Remainders and phases *)

\* Quotient and remainder determine the dividend, a negative one too.
LEMMA IntDivMod ==
  ASSUME NEW C \in Nat \ {0}, NEW x \in Int
  PROVE  /\ x = C * (x \div C) + (x % C)
         /\ x \div C \in Int
         /\ x % C \in 0 .. C - 1
  OBVIOUS

\* A product grows with its second factor.
LEMMA IntMulStep ==
  ASSUME NEW C \in Nat \ {0}, NEW a \in Int, NEW b \in Int, a < b
  PROVE  C * a + C <= C * b
<1> DEFINE d == b - a - 1
<1>1. d \in Nat /\ b = a + 1 + d
  OBVIOUS
<1> HIDE DEF d
<1>2. C * b = C * a + C + C * d
  BY <1>1
<1>3. C * d >= 0
  BY <1>1
<1> QED BY <1>1, <1>2, <1>3

\* Quotient and remainder are unique.
LEMMA IntDigits ==
  ASSUME NEW C \in Nat \ {0}, NEW k \in Int, NEW r \in 0 .. C - 1
  PROVE  (C * k + r) % C = r /\ (C * k + r) \div C = k
<1> DEFINE x == C * k + r
           d == x \div C
           m == x % C
<1>1. x \in Int
  OBVIOUS
<1>2. x = C * d + m /\ d \in Int /\ m \in 0 .. C - 1
  BY <1>1, IntDivMod, Zenon
<1>3. C * d + m = C * k + r
  BY <1>2, Zenon
<1>4. C * d \in Int /\ C * k \in Int
  BY <1>2
<1> HIDE DEF x, d, m
<1>5. ~(d < k)
  BY <1>2, <1>3, <1>4, IntMulStep
<1>6. ~(k < d)
  BY <1>2, <1>3, <1>4, IntMulStep
<1>7. d = k
  BY <1>2, <1>5, <1>6
<1>8. m = r
  BY <1>7, <1>3, <1>4, <1>2
<1> QED BY <1>7, <1>8, Zenon DEF x, d, m

\* A queue position: within the queue, and found again from its distance.
LEMMA SlotOffset ==
  ASSUME NEW C \in Nat \ {0}, NEW t \in Int, NEW i \in 0 .. C - 1
  PROVE  (((t + i) % C) - t) % C = i
<1> DEFINE d == (t + i) \div C
           m == (t + i) % C
<1>0. t + i \in Int
  OBVIOUS
<1>1. t + i = C * d + m /\ d \in Int /\ m \in 0 .. C - 1
  BY <1>0, IntDivMod, Zenon
<1> HIDE DEF d, m
<1>2. -d \in Int /\ C * d \in Int /\ C * (-d) = -(C * d)
  BY <1>1
<1>3. m - t = C * (-d) + i
  BY <1>1, <1>2
<1>4. (C * (-d) + i) % C = i
  BY <1>2, IntDigits, Zenon
<1> QED BY <1>3, <1>4, Zenon DEF m

\* Within one lap, the slot identifies the position.
LEMMA SlotUnique ==
  ASSUME NEW C \in Nat \ {0}, NEW t \in Int, NEW i \in 0 .. C - 1,
         NEW j \in 0 .. C - 1, (t + i) % C = (t + j) % C
  PROVE  i = j
<1>1. (((t + i) % C) - t) % C = i /\ (((t + j) % C) - t) % C = j
  BY SlotOffset, Zenon
<1> QED BY <1>1, Zenon

\* One lap further: the same slot, the other phase.
LEMMA NextLap ==
  ASSUME NEW C \in Nat \ {0}, NEW x \in Int
  PROVE  /\ (x + C) % C = x % C
         /\ ((x + C) \div C) % 2 # (x \div C) % 2
<1> DEFINE d == x \div C
           m == x % C
<1>1. x = C * d + m /\ d \in Int /\ m \in 0 .. C - 1
  BY IntDivMod, Zenon
<1> HIDE DEF d, m
<1>2. x + C = C * (d + 1) + m /\ d + 1 \in Int
  <2>1. C * d \in Int /\ C * (d + 1) = C * d + C
    BY <1>1
  <2> QED BY <2>1, <1>1
<1>3. (C * (d + 1) + m) % C = m /\ (C * (d + 1) + m) \div C = d + 1
  BY <1>1, <1>2, IntDigits, Zenon
<1>4. (d + 1) % 2 # d % 2
  BY <1>1
<1> QED BY <1>2, <1>3, <1>4, Zenon DEF d, m

\* What a queue size is.
LEMMA SizeFacts ==
  ASSUME qs \in Sizes
  PROVE  qs \in Nat \ {0} /\ qs <= NCids /\ NCids \in Nat \ {0}
  BY QueueAssumption

\* Positions, laps and phases of the queue.
LEMMA SlotFacts ==
  ASSUME qs \in Sizes, NEW x \in Int
  PROVE  /\ Slot(x) \in 0 .. qs - 1
         /\ PhaseOf(x) \in {0, 1}
         /\ Slot(x + qs) = Slot(x)
         /\ PhaseOf(x + qs) # PhaseOf(x)
<1>1. qs \in Nat \ {0}
  BY SizeFacts, Zenon
<1>2. x % qs \in 0 .. qs - 1 /\ x \div qs \in Int
  BY <1>1, IntDivMod, Zenon
<1>3. x + qs \in Int
  BY <1>1
<1>4. (x + qs) \div qs \in Int
  BY <1>1, <1>3, IntDivMod, Zenon
<1>5. (x + qs) % qs = x % qs /\ ((x + qs) \div qs) % 2 # (x \div qs) % 2
  BY <1>1, NextLap, Zenon
<1> DEFINE a == x \div qs
           b == (x + qs) \div qs
<1>6. a \in Int /\ b \in Int /\ b % 2 # a % 2
  BY <1>2, <1>4, <1>5, Zenon
<1> HIDE DEF a, b
<1>7. 1 - (a % 2) \in {0, 1} /\ 1 - (b % 2) # 1 - (a % 2)
  BY <1>6
<1> QED BY <1>2, <1>5, <1>7, Zenon DEF Slot, PhaseOf, a, b

---------------------------------------------------------------------------
(* A queue pair at rest *)

\* The last user of a slot is one lap before the next, if there was one.
LEMMA LastUseIsLapBack ==
  ASSUME qs \in Sizes, NEW n \in Nat, NEW k \in 0 .. qs - 1
  PROVE  LET s == Slot(n + k)
         IN  /\ LastUse(s, n) \in Int
             /\ s < n => LastUse(s, n) = n + k - qs
             /\ ~(s < n) => LastUse(s, n) = -1 /\ (n + k) \div qs = 0
<1> DEFINE s == (n + k) % qs
           d == (n + k) \div qs
           e == (n - 1 - s) \div qs
<1>1. qs \in Nat \ {0} /\ n + k \in Int
  BY SizeFacts
<1>2. n + k = qs * d + s /\ d \in Int /\ s \in 0 .. qs - 1
  BY <1>1, IntDivMod, Zenon
<1> HIDE DEF s, d
<1>3. d - 1 \in Int /\ qs * d \in Int /\ qs * (d - 1) = qs * d - qs
  BY <1>1, <1>2
<1>4. n - 1 - s = qs * (d - 1) + (qs - 1 - k)
  BY <1>1, <1>2, <1>3
<1>5. qs - 1 - k \in 0 .. qs - 1
  BY <1>1
<1>6. (qs * (d - 1) + (qs - 1 - k)) \div qs = d - 1
  BY <1>1, <1>3, <1>5, IntDigits, Zenon
<1>7. e = d - 1
  BY <1>4, <1>6, Zenon
<1> HIDE DEF e
<1>8. s + qs * e = n + k - qs
  BY <1>1, <1>2, <1>3, <1>7
<1>9. ~(s < n) => d = 0
  <2>1. SUFFICES ASSUME n <= s PROVE d = 0
    BY <1>2
  <2>2. ~(d > 0)
    BY <2>1, <1>1, <1>2, IntMulStep
  <2>3. ~(d < 0)
    BY <2>1, <1>1, <1>2, IntMulStep
  <2> QED BY <2>2, <2>3, <1>2
<1>10. LastUse(s, n) = IF n > s THEN s + qs * e ELSE -1
  BY Zenon DEF LastUse, e
<1>11. /\ LastUse(s, n) \in Int
       /\ s < n => LastUse(s, n) = n + k - qs
       /\ ~(s < n) => LastUse(s, n) = -1 /\ d = 0
  BY <1>1, <1>2, <1>8, <1>9, <1>10
<1> QED BY <1>11 DEF Slot, s, d

\* A queue pair at rest holds no completion of the coming lap.
LEMMA InitPhases ==
  ASSUME QueueInit
  PROVE  PhasesTell /\ cq_mem \in [0 .. qs - 1 -> [cid : Int, phase : {0, 1}, sqhd : Int]]
<1>1. qs \in Sizes /\ cq_head = Used /\ dev_tail = Used
  BY DEF QueueInit
<1>2. qs \in Nat \ {0} /\ NCids \in Nat \ {0} /\ Used \in Nat
  BY <1>1, SizeFacts, QueueAssumption
<1> DEFINE Entry(n) == [cid |-> n % NCids, phase |-> PhaseOf(n), sqhd |-> Slot(n + 1)]
<1>3. cq_mem = [s \in 0 .. qs - 1 |-> Entry(LastUse(s, Used))]
  BY DEF QueueInit
<1>4. ASSUME NEW n \in Int PROVE Entry(n) \in [cid : Int, phase : {0, 1}, sqhd : Int]
  <2>1. n % NCids \in Int
    BY <1>2
  <2>2. n + 1 \in Int
    OBVIOUS
  <2>3. PhaseOf(n) \in {0, 1} /\ Slot(n + 1) \in 0 .. qs - 1
    BY <1>1, <2>2, SlotFacts, Zenon
  <2> QED BY <1>2, <2>1, <2>3
<1>5. ASSUME NEW s \in 0 .. qs - 1 PROVE LastUse(s, Used) \in Int
  <2>1. Used - 1 - s \in Int
    BY <1>2
  <2>2. (Used - 1 - s) \div qs \in Int
    BY <1>2, <2>1, IntDivMod, Zenon
  <2> QED BY <1>2, <2>2 DEF LastUse
<1>6. cq_mem \in [0 .. qs - 1 -> [cid : Int, phase : {0, 1}, sqhd : Int]]
  <2> HIDE DEF Entry
  <2> QED BY Zenon, <1>3, <1>4, <1>5
<1>7. ASSUME NEW k \in 0 .. qs - 1
      PROVE  cq_mem[Slot(Used + k)].phase # PhaseOf(Used + k)
  <2> DEFINE s == Slot(Used + k)
             u == LastUse(s, Used)
  <2>1. Used + k \in Int /\ Used + k - qs \in Int /\ Used + k = Used + k - qs + qs
    BY <1>2
  <2>2. s \in 0 .. qs - 1
    BY <1>1, <2>1, SlotFacts, Zenon
  <2>3. cq_mem[s].phase = PhaseOf(u)
    BY <1>3, <2>2
  <2>4. /\ s < Used => u = Used + k - qs
        /\ ~(s < Used) => u = -1 /\ (Used + k) \div qs = 0
    BY <1>1, <1>2, LastUseIsLapBack
  <2> HIDE DEF s, u
  <2>5. CASE s < Used
    <3>1. PhaseOf(u) # PhaseOf(Used + k - qs + qs)
      BY <1>1, <2>1, <2>4, <2>5, SlotFacts, Zenon
    <3> QED BY <3>1, <2>1, <2>3, Zenon DEF s
  <2>6. CASE ~(s < Used)
    <3>1. (-1) \div qs = -1
      <4>1. -1 \in Int /\ qs - 1 \in 0 .. qs - 1 /\ qs * (-1) + (qs - 1) = -1
        BY <1>2
      <4>2. (qs * (-1) + (qs - 1)) \div qs = -1
        BY <1>2, <4>1, IntDigits, Zenon
      <4> QED BY <4>1, <4>2
    <3>2. PhaseOf(-1) = 0
      BY <3>1 DEF PhaseOf
    <3>3. PhaseOf(Used + k) = 1
      BY <2>4, <2>6 DEF PhaseOf
    <3> QED BY <3>2, <3>3, <2>3, <2>4, <2>6 DEF s
  <2> QED BY <2>5, <2>6
<1>8. PhasesTell
  <2>1. \A k \in 0 .. qs - 1 : ~(Used + k < Used)
    BY <1>2
  <2> QED BY <1>1, <1>7, <2>1, Zenon DEF PhasesTell
<1> QED BY <1>6, <1>8

\* A queue pair at rest may be given to an owner of batch calls.
LEMMA InitUse == UseInit => UseInv
<1> SUFFICES ASSUME UseInit PROVE UseInv
  OBVIOUS
<1>1. QueueInit /\ call = None /\ made = 0 /\ call.at = "idle"
  BY DEF UseInit, Init, BatchInit, None
<1>2. qs \in Sizes /\ Used \in Nat /\ NCids \in Nat \ {0}
  BY <1>1, SizeFacts, QueueAssumption DEF QueueInit
<1>3. Used % NCids \in 0 .. NCids - 1
  BY <1>2, IntDivMod
<1>4. BatchTypes
  BY <1>1, <1>2, <1>3, InitPhases DEF BatchTypes, QueueInit
<1>5. IsFiniteSet(executing) /\ Cardinality(executing) = 0
  BY <1>1, FS_EmptySet DEF QueueInit
<1>6. Quiet /\ sq_db = Slot(sq_tail) /\ done = {} /\ dev_tail + 0 = dev_head
  BY <1>1, <1>2 DEF Quiet, QueueInit
<1> QED BY <1>1, <1>4, <1>5, <1>6, InitPhases DEF UseInv, BatchInv

---------------------------------------------------------------------------
(* The steps of the owner *)

\* The states of a call.
LEMMA CallStates ==
  ASSUME BatchInv
  PROVE  /\ call.at \in {"idle", "poll", "release"}
         /\ call.at = "idle" => call = None
         /\ call.at # "idle" => call \in Calls /\ made > 0
  BY DEF BatchInv, BatchTypes, Calls, None

\* The commands of a call are told apart by their place in it.
LEMMA CommandsDiffer ==
  ASSUME NEW i, NEW j, Command(i) = Command(j)
  PROVE  i = j
  BY DEF Command

\* Writing a batch: the commands follow the tail, the controller is told.
LEMMA SubmitKeeps ==
  ASSUME BatchInv, NEW n \in 0 .. qs - 1, NEW put \in BOOLEAN, Submit(n, put),
         UNCHANGED qs
  PROVE  BatchInv'
<1>1. /\ qs \in Sizes /\ qs \in Nat \ {0} /\ NCids \in Nat \ {0}
      /\ cq_head \in Nat /\ cid_ticket \in 0 .. NCids - 1 /\ made \in Nat
  BY SizeFacts DEF BatchInv, BatchTypes
<1>2. Quiet
  BY DEF BatchInv, Submit
<1>3. /\ made' = made + 1
      /\ sq_mem' = Commands(n)
      /\ sq_tail' = sq_tail + n /\ sq_db' = Slot(sq_tail + n)
      /\ cid_ticket' = (cid_ticket + n) % NCids
      /\ call' = [at |-> "poll", n |-> n, put |-> put, base_tail |-> sq_tail,
                  base_cid |-> cid_ticket]
      /\ UNCHANGED <<cq_head, cq_mem, dev_head, dev_tail, executing, done>>
  BY DEF Submit, cqVars, devVars
<1>4. made' - 1 = made /\ made' > 0 /\ made' \in Nat
  BY <1>1, <1>3
<1>5. BatchTypes'
  <2>1. cid_ticket + n \in Int
    BY <1>1
  <2>2. cid_ticket' \in 0 .. NCids - 1
    BY <1>1, <1>3, <2>1, IntDivMod, Zenon
  <2>3. sq_tail' \in Nat /\ sq_tail \in Nat
    BY <1>1, <1>2, <1>3 DEF Quiet
  <2>4. call' \in Calls'
    BY <1>1, <1>3, <2>3 DEF Calls
  <2> QED BY SMTT(20), <1>1, <1>3, <1>4, <2>2, <2>3, <2>4 DEF BatchInv, BatchTypes
<1>6. ASSUME NEW i \in 0 .. n - 1
      PROVE  sq_mem'[Slot(cq_head + i)] = [cid |-> (cid_ticket + i) % NCids, call |-> <<made, i>>]
  <2> DEFINE s == Slot(cq_head + i)
  <2>1. i \in 0 .. qs - 1 /\ cq_head + i \in Int /\ cq_head \in Int
    BY <1>1
  <2>2. s \in 0 .. qs - 1
    BY <1>1, <2>1, SlotFacts, Zenon
  <2>3. Slot(s - cq_head) = i
    BY <1>1, <2>1, SlotOffset, Zenon DEF Slot
  <2> HIDE DEF s
  <2>4. Slot(s - sq_tail) = i /\ i < n
    BY <1>2, <2>3 DEF Quiet
  <2>5. sq_mem'[s] = [cid |-> (cid_ticket + i) % NCids, call |-> <<made, i>>]
    BY <1>3, <2>2, <2>4 DEF Commands
  <2> QED BY <2>5, Zenon DEF s
<1>7. ASSUME NEW i \in 0 .. n - 1 PROVE <<made, i>> \notin done
  <2>1. SUFFICES ASSUME <<made, i>> \in done PROVE FALSE
    BY Zenon
  <2>2. <<made, i>>[1] < made
    BY <2>1, Zenon DEF BatchInv
  <2> QED BY <2>2, <1>1
<1>8. Waiting'
  <2>1. \A i \in 0 .. n - 1 : Command(i)' = [cid |-> (cid_ticket + i) % NCids, call |-> <<made, i>>]
    BY <1>3, <1>4 DEF Command
  <2>2. \A i \in 0 .. n - 1 : ~(i < dev_head - cq_head)
    BY <1>1, <1>2 DEF Quiet
  <2>3. dev_tail \in cq_head .. dev_head /\ dev_head <= cq_head + n
    BY <1>1, <1>2 DEF Quiet
  <2>4. /\ call'.n = n
        /\ sq_tail' = cq_head + n
        /\ dev_tail' \in cq_head' .. dev_head' /\ dev_head' <= sq_tail'
    BY <1>2, <1>3, <2>3 DEF Quiet
  <2>5. \A i \in 0 .. n - 1 : (sq_mem[Slot(cq_head + i)] = Command(i))'
    BY <1>3, <1>6, <2>1, Zenon DEF Slot
  <2>6. executing' = {}
    BY <1>2, <1>3 DEF Quiet
  <2>7. \A i \in 0 .. n - 1 : <<made' - 1, i>> \notin done' /\ ~(i < dev_head' - cq_head')
    BY <1>3, <1>4, <1>7, <2>2, Zenon
  <2> QED BY <1>3, <2>4, <2>5, <2>6, <2>7, Zenon DEF Waiting
<1>9. PhasesTell'
  BY <1>3, Zenon DEF BatchInv, PhasesTell, Slot, PhaseOf
<1>10. \A d \in done' : d \in Nat \X Nat /\ d[1] < made'
  <2>1. ASSUME NEW d \in done PROVE d \in Nat \X Nat /\ d[1] < made'
    <3>1. d \in Nat \X Nat /\ d[1] < made
      BY Zenon DEF BatchInv
    <3> QED BY <3>1, <1>1, <1>3
  <2> QED BY <2>1, <1>3, Zenon
<1>11. (IsFiniteSet(executing) /\ dev_tail + Cardinality(executing) = dev_head)'
  BY <1>3, Zenon DEF BatchInv
<1>12. sq_db' = Slot(sq_tail)' /\ call'.at = "poll"
  BY <1>3 DEF Slot
<1> QED BY <1>5, <1>8, <1>9, <1>10, <1>11, <1>12 DEF BatchInv

\* The last completion is there: so are the others, and nothing is in flight.
LEMMA LastIsAll ==
  ASSUME BatchInv, call.at = "poll", LastPosted
  PROVE  /\ dev_tail = cq_head + call.n /\ dev_head = dev_tail /\ sq_tail = dev_tail
         /\ executing = {}
<1>1. /\ qs \in Sizes /\ qs \in Nat \ {0} /\ cq_head \in Nat /\ dev_head \in Nat
      /\ dev_tail \in Nat /\ sq_tail \in Nat
  BY SizeFacts DEF BatchInv, BatchTypes
<1>2. call.n \in 0 .. qs - 1
  BY CallStates DEF Calls
<1>3. /\ sq_tail = cq_head + call.n /\ dev_tail \in cq_head .. dev_head
      /\ dev_head <= sq_tail
  BY Zenon DEF BatchInv, Waiting
<1>4. ~(dev_tail < cq_head + call.n)
  <2>1. SUFFICES ASSUME dev_tail < cq_head + call.n PROVE FALSE
    OBVIOUS
  <2> DEFINE k == call.n - 1
  <2>2. k \in 0 .. qs - 1 /\ Target = cq_head + k /\ ~(cq_head + k < dev_tail)
    BY <1>1, <1>2, <1>3, <2>1 DEF Target
  <2> HIDE DEF k
  <2>3. cq_mem[Slot(cq_head + k)].phase = PhaseOf(cq_head + k) <=> cq_head + k < dev_tail
    BY <2>2, Zenon DEF BatchInv, PhasesTell
  <2> QED BY <2>2, <2>3, Zenon DEF LastPosted
<1>5. dev_tail = cq_head + call.n /\ dev_head = dev_tail /\ sq_tail = dev_tail
  BY <1>1, <1>2, <1>3, <1>4
<1>6. IsFiniteSet(executing) /\ dev_tail + Cardinality(executing) = dev_head
  BY Zenon DEF BatchInv
<1>7. Cardinality(executing) = 0
  <2>1. Cardinality(executing) \in Nat
    BY <1>6, FS_CardinalityType, Zenon
  <2> QED BY <2>1, <1>1, <1>5, <1>6
<1> QED BY <1>5, <1>6, <1>7, FS_EmptySet, Zenon

\* Consuming the completions: those consumed are of the lap before.
LEMMA ReleaseCqKeeps ==
  ASSUME BatchInv, ReleaseCq, UNCHANGED qs
  PROVE  BatchInv'
<1>1. /\ qs \in Sizes /\ qs \in Nat \ {0} /\ cq_head \in Nat /\ dev_tail \in Nat
  BY SizeFacts DEF BatchInv, BatchTypes
<1>2. call \in Calls /\ made > 0 /\ call.at = "poll" /\ call.n \in 0 .. qs - 1
  BY CallStates DEF ReleaseCq, Calls
<1>3. /\ dev_tail = cq_head + call.n /\ dev_head = dev_tail /\ sq_tail = dev_tail
      /\ executing = {}
  BY LastIsAll, Zenon DEF ReleaseCq
<1>4. /\ cq_head' = cq_head + call.n
      /\ call' = [call EXCEPT !.at = "release"]
      /\ UNCHANGED <<sq_mem, sq_tail, sq_db, cq_mem, cid_ticket, dev_head, dev_tail,
                     executing, done, made>>
  BY DEF ReleaseCq, sqVars, cidVars, devVars
<1>5. call' \in Calls' /\ call'.at = "release" /\ call'.n = call.n
  BY <1>2, <1>4 DEF Calls
<1>6. BatchTypes'
  <2>1. cq_head' \in Nat
    BY <1>1, <1>3, <1>4
  <2> QED BY <1>2, <1>4, <1>5, <2>1 DEF BatchInv, BatchTypes
<1>7. PhasesTell'
  <2>1. ASSUME NEW k \in 0 .. qs - 1
        PROVE  cq_mem[Slot(dev_tail + k)].phase # PhaseOf(dev_tail + k)
    <3>1. CASE call.n + k < qs
      <4> DEFINE j == call.n + k
      <4>1. j \in 0 .. qs - 1 /\ cq_head + j = dev_tail + k /\ ~(cq_head + j < dev_tail)
        BY <1>1, <1>2, <1>3, <3>1
      <4> HIDE DEF j
      <4> QED BY <4>1, Zenon DEF BatchInv, PhasesTell
    <3>2. CASE ~(call.n + k < qs)
      <4> DEFINE j == call.n + k - qs
                 x == cq_head + j
      <4>1. /\ j \in 0 .. qs - 1 /\ x \in Int /\ x + qs = dev_tail + k /\ cq_head + j < dev_tail
        BY <1>1, <1>2, <1>3, <3>2
      <4> HIDE DEF j
      <4>2. cq_mem[Slot(x)].phase = PhaseOf(x)
        BY <4>1, Zenon DEF BatchInv, PhasesTell
      <4> HIDE DEF x
      <4>3. Slot(x + qs) = Slot(x) /\ PhaseOf(x + qs) # PhaseOf(x)
        BY <1>1, <4>1, SlotFacts, Zenon
      <4> QED BY <4>1, <4>2, <4>3, Zenon
    <3> QED BY <3>1, <3>2
  <2>2. \A k \in 0 .. qs - 1 : ~(dev_tail + k < dev_tail)
    BY <1>1
  <2>3. cq_head' = dev_tail
    BY <1>3, <1>4
  <2> QED BY <1>4, <2>1, <2>2, <2>3, Zenon DEF PhasesTell, Slot, PhaseOf
<1>8. Quiet'
  BY <1>3, <1>4 DEF Quiet
<1>9. \A i \in 0 .. call.n - 1 : <<made - 1, i>> \in done
  <2>1. \A i \in 0 .. call.n - 1 : i < dev_head - cq_head
    BY <1>1, <1>2, <1>3
  <2> QED BY <1>2, <1>3, <2>1, Zenon DEF BatchInv, Waiting
<1>10. (\A i \in 0 .. call.n - 1 : <<made - 1, i>> \in done)'
  BY <1>4, <1>5, <1>9, Zenon
<1>11. /\ (IsFiniteSet(executing) /\ dev_tail + Cardinality(executing) = dev_head)'
       /\ (\A d \in done : d \in Nat \X Nat /\ d[1] < made)'
       /\ sq_db' = Slot(sq_tail)'
  BY <1>4, Zenon DEF BatchInv, Slot
<1> QED BY <1>5, <1>6, <1>7, <1>8, <1>10, <1>11 DEF BatchInv

\* The call returns: nothing of it is left.
LEMMA ReleaseSqKeeps ==
  ASSUME BatchInv, ReleaseSq, UNCHANGED qs
  PROVE  BatchInv'
<1>1. /\ call' = None /\ call.at = "release"
      /\ UNCHANGED <<sq_mem, sq_tail, sq_db, cq_head, cq_mem, cid_ticket, dev_head,
                     dev_tail, executing, done, made>>
  BY DEF ReleaseSq, cqVars, devVars
<1>2. BatchTypes'
  BY <1>1, Zenon DEF BatchInv, BatchTypes
<1>3. call'.at = "idle"
  BY <1>1 DEF None
<1>4. Quiet
  BY <1>1 DEF BatchInv
<1>5. Quiet'
  BY <1>1, <1>4, Zenon DEF Quiet
<1>6. /\ (IsFiniteSet(executing) /\ dev_tail + Cardinality(executing) = dev_head)'
      /\ (\A d \in done : d \in Nat \X Nat /\ d[1] < made)'
      /\ sq_db' = Slot(sq_tail)'
      /\ PhasesTell'
  BY <1>1, Zenon DEF BatchInv, Slot, PhasesTell, PhaseOf
<1> QED BY <1>2, <1>3, <1>5, <1>6 DEF BatchInv

\* Every batch call is a submission of fewer commands than the queue holds.
LEMMA OwnerKeeps ==
  ASSUME BatchInv, Owner, UNCHANGED qs
  PROVE  BatchInv'
<1>1. CASE ReleaseCq
  BY <1>1, ReleaseCqKeeps, Zenon
<1>2. CASE ReleaseSq
  BY <1>2, ReleaseSqKeeps, Zenon
<1>3. CASE ~ReleaseCq /\ ~ReleaseSq
  <2>1. \E n \in 0 .. qs - 1, put \in BOOLEAN : Submit(n, put)
    <3>1. qs \in Nat \ {0}
      BY SizeFacts DEF BatchInv, BatchTypes
    <3>2. \/ WarpLanes < qs /\ Submit(WarpLanes, FALSE)
          \/ \E n \in 0 .. BatchMax : n < qs /\ Submit(n, TRUE)
          \/ \E n \in 0 .. qs - 1 : Submit(n, TRUE)
          \/ \E n \in 1 .. qs - 1 : Submit(n, TRUE)
      BY <1>3, Zenon DEF Owner, read_data_batch_warp32, read_data_batch_warp32_profile,
         read_data_batch, write_data_batch, write_data_batch_large, read_data_batch_large,
         sched_batch_rw, sched_batch_merged_rw
    <3>3. /\ WarpLanes < qs => WarpLanes \in 0 .. qs - 1
          /\ \A n \in 0 .. BatchMax : n < qs => n \in 0 .. qs - 1
          /\ \A n \in 1 .. qs - 1 : n \in 0 .. qs - 1
      BY <3>1, BatchAssumption
    <3> QED BY <3>2, <3>3, Zenon
  <2> QED BY <2>1, SubmitKeeps, Zenon
<1> QED BY <1>1, <1>2, <1>3

---------------------------------------------------------------------------
(* The steps of the controller *)

\* The controller moves only while the owner waits.
LEMMA FetchKeeps ==
  ASSUME BatchInv, Fetch,
         UNCHANGED <<qs, sq_mem, sq_tail, sq_db, cq_head, cid_ticket, call, made>>
  PROVE  BatchInv'
<1>1. /\ qs \in Sizes /\ qs \in Nat \ {0} /\ cq_head \in Nat /\ dev_head \in Nat
      /\ dev_tail \in Nat /\ sq_tail \in Nat
  BY SizeFacts DEF BatchInv, BatchTypes
<1>2. /\ Slot(dev_head) # sq_db /\ sq_db = Slot(sq_tail)
      /\ dev_head' = dev_head + 1
      /\ executing' = executing \cup {sq_mem[Slot(dev_head)]}
      /\ UNCHANGED <<cq_mem, dev_tail, done>>
  BY DEF Fetch, BatchInv
<1>3. call.at = "poll" /\ Waiting
  BY <1>2, Zenon DEF BatchInv, Quiet
<1>4. call \in Calls /\ call.n \in 0 .. qs - 1
  BY <1>3, CallStates DEF Calls
<1>5. /\ sq_tail = cq_head + call.n /\ dev_tail \in cq_head .. dev_head
      /\ dev_head <= sq_tail
  BY <1>3, Zenon DEF Waiting
<1>6. dev_head < sq_tail
  BY <1>1, <1>2, <1>5
<1> DEFINE f == dev_head - cq_head
<1>7. f \in 0 .. call.n - 1 /\ cq_head + f = dev_head /\ dev_head' - cq_head' = f + 1
  BY <1>1, <1>2, <1>4, <1>5, <1>6
<1>8. executing \subseteq {Command(i) : i \in 0 .. f - 1}
  BY <1>3, Zenon DEF Waiting
<1>9. \A i \in 0 .. call.n - 1 :
        <<made - 1, i>> \in done <=> i < f /\ Command(i) \notin executing
  BY <1>3, Zenon DEF Waiting
<1> HIDE DEF f
<1>10. sq_mem[Slot(dev_head)] = Command(f)
  BY <1>3, <1>7, Zenon DEF Waiting
<1>11. Command(f) \notin executing
  <2>1. \A i \in 0 .. f - 1 : i # f
    BY <1>7
  <2>2. SUFFICES ASSUME Command(f) \in executing PROVE FALSE
    BY Zenon
  <2>3. PICK i \in 0 .. f - 1 : Command(f) = Command(i)
    BY <2>2, <1>8, Zenon
  <2> QED BY <2>1, <2>3, CommandsDiffer, Zenon
<1>12. IsFiniteSet(executing) /\ dev_tail + Cardinality(executing) = dev_head
  BY Zenon DEF BatchInv
<1>13. IsFiniteSet(executing') /\ dev_tail' + Cardinality(executing') = dev_head'
  <2>1. IsFiniteSet(executing') /\ Cardinality(executing') = Cardinality(executing) + 1
    BY <1>2, <1>10, <1>11, <1>12, FS_AddElement, Zenon
  <2>2. Cardinality(executing) \in Nat
    BY <1>12, FS_CardinalityType, Zenon
  <2>3. dev_tail + (Cardinality(executing) + 1) = dev_head + 1
    BY <1>1, <1>12, <2>2
  <2> QED BY <1>2, <2>1, <2>3, Zenon
<1>14. \A i : Command(i)' = Command(i)
  BY Zenon DEF Command
<1>15. executing' \subseteq {Command(i) : i \in 0 .. f}
  <2>1. \A i \in 0 .. f - 1 : i \in 0 .. f
    BY <1>7
  <2>2. f \in 0 .. f
    BY <1>7
  <2> QED BY <1>2, <1>8, <1>10, <2>1, <2>2
<1>16. ASSUME NEW i \in 0 .. call.n - 1
       PROVE  <<made - 1, i>> \in done <=> i < f + 1 /\ Command(i) \notin executing'
  <2>1. CASE i = f
    <3>1. ~(i < f) /\ Command(i) \in executing'
      BY <2>1, <1>2, <1>7, <1>10
    <3> QED BY <3>1, <1>9
  <2>2. CASE i # f
    <3>1. Command(i) # Command(f)
      BY <2>2, CommandsDiffer, Zenon
    <3>2. Command(i) \in executing' <=> Command(i) \in executing
      BY <3>1, <1>2, <1>10, Zenon
    <3>3. i < f + 1 <=> i < f
      BY <2>2, <1>7
    <3> QED BY <3>2, <3>3, <1>9, Zenon
  <2> QED BY <2>1, <2>2
<1>17. Waiting'
  <2>1. dev_tail' \in cq_head' .. dev_head' /\ dev_head' <= sq_tail'
    BY <1>1, <1>2, <1>5, <1>6
  <2>2. sq_tail' = cq_head' + call'.n
    BY <1>5, Zenon
  <2>3. \A i \in 0 .. call.n - 1 : (sq_mem[Slot(cq_head + i)] = Command(i))'
    BY <1>3, <1>14, Zenon DEF Waiting, Slot
  <2>4. executing' \subseteq {Command(i)' : i \in 0 .. dev_head' - cq_head' - 1}
    <3>1. dev_head' - cq_head' - 1 = f
      BY <1>7
    <3> QED BY <3>1, <1>14, <1>15
  <2>5. \A i \in 0 .. call'.n - 1 :
          <<made' - 1, i>> \in done' <=> i < dev_head' - cq_head' /\ Command(i)' \notin executing'
    BY <1>2, <1>7, <1>14, <1>16, Zenon
  <2> QED BY <2>1, <2>2, <2>3, <2>4, <2>5, Zenon DEF Waiting
<1>18. BatchTypes'
  <2>1. dev_head' \in Nat
    BY <1>1, <1>2
  <2> QED BY <1>2, <2>1, Zenon DEF BatchInv, BatchTypes, Calls
<1>19. /\ (\A d \in done : d \in Nat \X Nat /\ d[1] < made)'
       /\ sq_db' = Slot(sq_tail)'
       /\ PhasesTell'
  BY <1>2, Zenon DEF BatchInv, Slot, PhasesTell, PhaseOf
<1>20. call'.at = "poll"
  BY <1>3, Zenon
<1> QED BY <1>13, <1>17, <1>18, <1>19, <1>20 DEF BatchInv

\* A completion takes the next position of the CQ and no other.
LEMMA CompleteKeeps ==
  ASSUME BatchInv, NEW c \in executing, Complete(c),
         UNCHANGED <<qs, sq_mem, sq_tail, sq_db, cq_head, cid_ticket, call, made>>
  PROVE  BatchInv'
<1>1. /\ qs \in Sizes /\ qs \in Nat \ {0} /\ cq_head \in Nat /\ dev_head \in Nat
      /\ dev_tail \in Nat /\ sq_tail \in Nat /\ made \in Nat /\ NCids \in Nat \ {0}
  BY SizeFacts DEF BatchInv, BatchTypes
<1> DEFINE entry == [cid |-> c.cid, phase |-> PhaseOf(dev_tail), sqhd |-> Slot(dev_head)]
<1>2. /\ cq_mem' = [cq_mem EXCEPT ![Slot(dev_tail)] = entry]
      /\ dev_tail' = dev_tail + 1
      /\ executing' = executing \ {c}
      /\ done' = done \cup {c.call}
      /\ UNCHANGED dev_head
  BY Zenon DEF Complete
<1>3. call.at = "poll" /\ Waiting
  BY Zenon DEF BatchInv, Quiet
<1>4. call \in Calls /\ call.n \in 0 .. qs - 1 /\ made > 0 /\ call.base_cid \in 0 .. NCids - 1
  BY <1>3, CallStates DEF Calls
<1>5. /\ sq_tail = cq_head + call.n /\ dev_tail \in cq_head .. dev_head
      /\ dev_head <= sq_tail
  BY <1>3, Zenon DEF Waiting
<1> DEFINE f == dev_head - cq_head
<1>6. executing \subseteq {Command(i) : i \in 0 .. f - 1}
  BY <1>3, Zenon DEF Waiting
<1>7. \A i \in 0 .. call.n - 1 :
        <<made - 1, i>> \in done <=> i < f /\ Command(i) \notin executing
  BY <1>3, Zenon DEF Waiting
<1>8. PICK j \in 0 .. f - 1 : c = Command(j)
  BY <1>6, Zenon
<1>9. f \in Nat /\ f <= call.n /\ j \in Nat /\ j < f
  BY <1>1, <1>4, <1>5
<1> HIDE DEF f
<1>10. c.call = <<made - 1, j>> /\ c.cid \in Int
  <2>1. call.base_cid + j \in Int
    BY <1>1, <1>4, <1>9
  <2>2. (call.base_cid + j) % NCids \in 0 .. NCids - 1
    BY <1>1, <2>1, IntDivMod, Zenon
  <2>3. c.call = <<made - 1, j>> /\ c.cid = (call.base_cid + j) % NCids
    BY <1>8 DEF Command
  <2> QED BY <1>1, <2>2, <2>3
<1>11. IsFiniteSet(executing) /\ dev_tail + Cardinality(executing) = dev_head
  BY Zenon DEF BatchInv
<1>12. /\ IsFiniteSet(executing') /\ dev_tail' + Cardinality(executing') = dev_head'
       /\ dev_tail < dev_head
  <2>1. IsFiniteSet(executing') /\ Cardinality(executing') = Cardinality(executing) - 1
    BY <1>2, <1>11, FS_RemoveElement, Zenon
  <2>2. Cardinality(executing) \in Nat /\ Cardinality(executing') \in Nat
    BY <1>11, <2>1, FS_CardinalityType, Zenon
  <2> QED BY <1>1, <1>2, <1>11, <2>1, <2>2
<1> DEFINE t == dev_tail - cq_head
<1>13. t \in 0 .. qs - 1 /\ cq_head + t = dev_tail
  BY <1>1, <1>4, <1>5, <1>12
<1>14. Slot(dev_tail) \in 0 .. qs - 1 /\ Slot(dev_head) \in 0 .. qs - 1
       /\ PhaseOf(dev_tail) \in {0, 1}
  <2>1. dev_tail \in Int /\ dev_head \in Int
    BY <1>1
  <2> QED BY <1>1, <2>1, SlotFacts, Zenon
<1>15. cq_mem \in [0 .. qs - 1 -> [cid : Int, phase : {0, 1}, sqhd : Int]]
  BY Zenon DEF BatchInv, BatchTypes
<1>16. BatchTypes'
  <2>1. dev_tail' \in Nat
    BY <1>1, <1>2
  <2>2. entry \in [cid : Int, phase : {0, 1}, sqhd : Int]
    BY <1>1, <1>10, <1>14
  <2> HIDE DEF entry
  <2>3. cq_mem' \in [0 .. qs - 1 -> [cid : Int, phase : {0, 1}, sqhd : Int]]
    BY <1>2, <1>14, <1>15, <2>2
  <2> QED BY <1>2, <2>1, <2>3, Zenon DEF BatchInv, BatchTypes, Calls
<1>17. PhasesTell'
  <2>1. ASSUME NEW k \in 0 .. qs - 1
        PROVE  cq_mem'[Slot(cq_head + k)].phase = PhaseOf(cq_head + k)
                 <=> cq_head + k < dev_tail + 1
    <3> DEFINE s == Slot(cq_head + k)
    <3>1. cq_head + k \in Int /\ cq_head \in Int
      BY <1>1
    <3>2. s \in 0 .. qs - 1
      BY <1>1, <3>1, SlotFacts, Zenon
    <3>3. CASE k = t
      <4>1. cq_head + k = dev_tail /\ cq_head + k < dev_tail + 1
        BY <3>3, <1>1, <1>13
      <4>2. cq_mem'[Slot(dev_tail)] = entry
        BY <1>2, <1>14, <1>15, Zenon
      <4>3. cq_mem'[Slot(dev_tail)].phase = PhaseOf(dev_tail)
        BY <4>2
      <4> QED BY <4>1, <4>3, Zenon
    <3>4. CASE k # t
      <4>1. s # Slot(dev_tail)
        BY <3>1, <3>4, <1>1, <1>13, SlotUnique, Zenon DEF Slot
      <4>2. cq_mem'[s] = cq_mem[s]
        BY <1>2, <1>15, <3>2, <4>1, Zenon
      <4>3. cq_mem[s].phase = PhaseOf(cq_head + k) <=> cq_head + k < dev_tail
        BY Zenon DEF BatchInv, PhasesTell
      <4>4. cq_head + k < dev_tail + 1 <=> cq_head + k < dev_tail
        BY <1>1, <1>13, <3>4
      <4> QED BY <4>2, <4>3, <4>4, Zenon
    <3> QED BY <3>3, <3>4
  <2> QED BY <1>2, <2>1, Zenon DEF PhasesTell, Slot, PhaseOf
<1>18. \A d \in done' : d \in Nat \X Nat /\ d[1] < made'
  <2>1. made - 1 \in Nat /\ made - 1 < made
    BY <1>1, <1>4
  <2>2. <<made - 1, j>> \in Nat \X Nat /\ <<made - 1, j>>[1] < made
    BY <1>9, <2>1
  <2>3. \A d \in done : d \in Nat \X Nat /\ d[1] < made
    BY Zenon DEF BatchInv
  <2> QED BY <1>2, <1>10, <2>2, <2>3, Zenon
<1>19. \A i : Command(i)' = Command(i)
  BY Zenon DEF Command
<1>20. ASSUME NEW i \in 0 .. call.n - 1
       PROVE  <<made - 1, i>> \in done' <=> i < f /\ Command(i) \notin executing'
  <2>1. CASE i = j
    BY <2>1, <1>2, <1>8, <1>9, <1>10, Zenon
  <2>2. CASE i # j
    <3>1. Command(i) # c
      BY <2>2, <1>8, CommandsDiffer, Zenon
    <3>2. <<made - 1, i>> # c.call
      BY <2>2, <1>10
    <3> QED BY <3>1, <3>2, <1>2, <1>7, Zenon
  <2> QED BY <2>1, <2>2
<1>21. Waiting'
  <2>1. dev_tail' \in cq_head' .. dev_head' /\ dev_head' <= sq_tail'
    BY <1>1, <1>2, <1>5, <1>12
  <2>2. sq_tail' = cq_head' + call'.n
    BY <1>5, Zenon
  <2>3. \A i \in 0 .. call.n - 1 : (sq_mem[Slot(cq_head + i)] = Command(i))'
    BY <1>3, <1>19, Zenon DEF Waiting, Slot
  <2>4. executing' \subseteq {Command(i)' : i \in 0 .. dev_head' - cq_head' - 1}
    BY <1>2, <1>6, <1>19, Zenon DEF f
  <2>5. \A i \in 0 .. call'.n - 1 :
          <<made' - 1, i>> \in done' <=> i < dev_head' - cq_head' /\ Command(i)' \notin executing'
    BY <1>2, <1>19, <1>20, Zenon DEF f
  <2> QED BY <2>1, <2>2, <2>3, <2>4, <2>5, Zenon DEF Waiting
<1>22. sq_db' = Slot(sq_tail)' /\ call'.at = "poll"
  BY <1>3, Zenon DEF BatchInv, Slot
<1> QED BY SMTT(20), <1>12, <1>16, <1>17, <1>18, <1>21, <1>22 DEF BatchInv

---------------------------------------------------------------------------
(* The invariant of both uses *)

\* A step that changes neither queue nor call keeps the invariant.
LEMMA UseStutter ==
  ASSUME UseInv, UNCHANGED <<queueVars, call, made, use>>
  PROVE  UseInv'
<1>1. UNCHANGED <<qs, sq_mem, sq_tail, sq_db, cq_mem, cq_head, cid_ticket, dev_head,
                  dev_tail, executing, done, call, made, use>>
  BY DEF queueVars, sqVars, cqVars, cidVars, devVars
<1>2. CASE use = "threads"
  BY <1>1, <1>2 DEF UseInv
<1>3. CASE use # "threads"
  <2>1. ASSUME BatchInv PROVE BatchInv'
    <3>1. BatchTypes'
      BY <1>1, <2>1, Zenon DEF BatchInv, BatchTypes, Calls
    <3>2. PhasesTell'
      BY <1>1, <2>1, Zenon DEF BatchInv, PhasesTell, Slot, PhaseOf
    <3>3. Quiet' = Quiet
      BY <1>1, Zenon DEF Quiet
    <3>4. \A i : Command(i)' = Command(i)
      BY <1>1, Zenon DEF Command
    <3>5. ASSUME Waiting PROVE Waiting'
      <4>1. /\ sq_tail' = cq_head' + call'.n
            /\ dev_tail' \in cq_head' .. dev_head' /\ dev_head' <= sq_tail'
        BY <1>1, <3>5, Zenon DEF Waiting
      <4>2. \A i \in 0 .. call'.n - 1 : (sq_mem[Slot(cq_head + i)] = Command(i))'
        BY <1>1, <3>4, <3>5, Zenon DEF Waiting, Slot
      <4>3. executing' \subseteq {Command(i)' : i \in 0 .. dev_head' - cq_head' - 1}
        BY <1>1, <3>4, <3>5, Zenon DEF Waiting
      <4>4. \A i \in 0 .. call'.n - 1 :
              <<made' - 1, i>> \in done'
                <=> i < dev_head' - cq_head' /\ Command(i)' \notin executing'
        BY <1>1, <3>4, <3>5, Zenon DEF Waiting
      <4> QED BY <4>1, <4>2, <4>3, <4>4, Zenon DEF Waiting
    <3>6. /\ (IsFiniteSet(executing) /\ dev_tail + Cardinality(executing) = dev_head)'
          /\ (\A d \in done : d \in Nat \X Nat /\ d[1] < made)'
          /\ sq_db' = Slot(sq_tail)'
      BY <1>1, <2>1, Zenon DEF BatchInv, Slot
    <3>7. (call.at = "release" => \A i \in 0 .. call.n - 1 : <<made - 1, i>> \in done)'
      BY <1>1, <2>1, Zenon DEF BatchInv
    <3>8. (call'.at = "poll" => Waiting') /\ (call'.at # "poll" => Quiet')
      BY <1>1, <2>1, <3>3, <3>5, Zenon DEF BatchInv
    <3> QED BY <3>1, <3>2, <3>6, <3>7, <3>8, Zenon DEF BatchInv
  <2> QED BY <1>1, <1>3, <2>1, Zenon DEF UseInv
<1> QED BY <1>2, <1>3

\* Every step of either use keeps UseInv.
LEMMA UseStep == UseInv /\ [UseNext]_useVars => UseInv'
<1> SUFFICES ASSUME UseInv, [UseNext]_useVars PROVE UseInv'
  OBVIOUS
<1>1. CASE Threaded
  <2>1. use = "threads" /\ call' = call /\ use' = use
    BY <1>1 DEF Threaded, batchVars
  <2>2. "threads" # "batches"
    OBVIOUS
  <2> QED BY <2>1, <2>2, Zenon DEF UseInv
<1>2. CASE Batched
  <2>1. use = "batches" /\ Owner /\ qs' = qs /\ use' = use
    BY <1>2 DEF Batched
  <2>2. BatchInv'
    BY <2>1, OwnerKeeps, Zenon DEF UseInv
  <2>3. "threads" # "batches"
    OBVIOUS
  <2> QED BY <2>1, <2>2, <2>3, Zenon DEF UseInv
<1>3. CASE Device /\ UNCHANGED use
  <2>1. /\ Fetch \/ \E c \in executing : Complete(c)
        /\ UNCHANGED <<qs, sq_mem, sq_tail, sq_db, cq_head, cid_ticket, call, made>>
        /\ use' = use
    BY <1>3 DEF Device, Controller, sqVars, cqVars, cidVars, batchVars
  <2>2. ASSUME BatchInv PROVE BatchInv'
    <3>1. CASE Fetch
      BY <2>1, <2>2, <3>1, FetchKeeps, Zenon
    <3>2. CASE \E c \in executing : Complete(c)
      BY <2>1, <2>2, <3>2, CompleteKeeps, Zenon
    <3> QED BY <2>1, <3>1, <3>2, Zenon
  <2> QED BY <2>1, <2>2, Zenon DEF UseInv
<1>4. CASE UNCHANGED useVars
  <2>1. UNCHANGED <<queueVars, call, made, use>>
    BY <1>4 DEF useVars, vars, batchVars
  <2> QED BY <2>1, UseStutter, Zenon
<1> QED BY <1>1, <1>2, <1>3, <1>4, Zenon DEF UseNext

\* UseInv holds throughout: a batch call finds the queue pair as the last one left it.
THEOREM UseInvariance == UseSpec => []UseInv
<1>1. UseInit => UseInv
  BY InitUse
<1>2. UseInv /\ [UseNext]_useVars => UseInv'
  BY UseStep
<1> QED BY <1>1, <1>2, PTL DEF UseSpec

---------------------------------------------------------------------------
(* What the owner of batch calls may rely on *)

\* Nothing is in flight unless the owner waits.
LEMMA QuietQueue ==
  ASSUME BatchInv, call.at # "poll"
  PROVE  Slot(sq_db - dev_head) = 0 /\ Rung = {} /\ InFlight = {}
<1>1. qs \in Nat \ {0} /\ cq_head \in Int /\ 0 \in 0 .. qs - 1 /\ cq_head + 0 = cq_head
  BY SizeFacts DEF BatchInv, BatchTypes
<1>2. Quiet /\ sq_db = Slot(sq_tail)
  BY DEF BatchInv
<1>3. (((cq_head + 0) % qs) - cq_head) % qs = 0
  BY <1>1, SlotOffset, Zenon
<1>4. Slot(sq_db - dev_head) = 0
  BY <1>1, <1>2, <1>3, Zenon DEF Slot, Quiet
<1>5. Rung = {}
  BY <1>4 DEF Rung
<1> QED BY <1>2, <1>4, <1>5, Zenon DEF InFlight, Quiet

\* The commands the owner waits for, fetched or not, are those of its call.
LEMMA InFlightCommands ==
  ASSUME BatchInv, call.at = "poll"
  PROVE  LET f == dev_head - cq_head
             m == sq_tail - dev_head
         IN  /\ f \in Nat /\ m \in Nat /\ f + m = call.n /\ call.n \in 0 .. qs - 1
             /\ Slot(sq_db - dev_head) = m
             /\ Rung = {Command(f + k) : k \in 0 .. m - 1}
             /\ InFlight \subseteq {Command(i) : i \in 0 .. call.n - 1}
<1> DEFINE f == dev_head - cq_head
           m == sq_tail - dev_head
<1>1. /\ qs \in Nat \ {0} /\ cq_head \in Nat /\ dev_head \in Nat /\ sq_tail \in Nat
      /\ dev_tail \in Nat
  BY SizeFacts DEF BatchInv, BatchTypes
<1>2. call.n \in 0 .. qs - 1
  BY CallStates DEF Calls
<1>3. Waiting /\ sq_db = Slot(sq_tail)
  BY DEF BatchInv
<1>4. /\ sq_tail = cq_head + call.n /\ dev_tail \in cq_head .. dev_head
      /\ dev_head <= sq_tail
  BY <1>3, Zenon DEF Waiting
<1>5. f \in Nat /\ m \in 0 .. qs - 1 /\ m \in Nat /\ f + m = call.n /\ dev_head + m = sq_tail
      /\ dev_head \in Int
  BY <1>1, <1>2, <1>4
<1>6. ASSUME NEW k \in 0 .. m - 1
      PROVE  f + k \in 0 .. call.n - 1 /\ dev_head + k = cq_head + (f + k)
  BY <1>1, <1>2, <1>5
<1>7. executing \subseteq {Command(i) : i \in 0 .. f - 1}
  BY <1>3, Zenon DEF Waiting
<1> HIDE DEF f, m
<1>8. Slot(sq_db - dev_head) = m
  <2>1. (((dev_head + m) % qs) - dev_head) % qs = m
    BY <1>1, <1>5, SlotOffset, Zenon
  <2> QED BY <1>3, <1>5, <2>1, Zenon DEF Slot
<1>9. \A k \in 0 .. m - 1 : sq_mem[Slot(dev_head + k)] = Command(f + k)
  BY <1>3, <1>6, Zenon DEF Waiting
<1>10. Rung = {Command(f + k) : k \in 0 .. m - 1}
  BY <1>8, <1>9 DEF Rung
<1>11. InFlight \subseteq {Command(i) : i \in 0 .. call.n - 1}
  <2>1. 0 .. f - 1 \subseteq 0 .. call.n - 1
    BY <1>5
  <2>2. executing \subseteq {Command(i) : i \in 0 .. call.n - 1}
    BY <1>7, <2>1, Zenon
  <2>3. Rung \subseteq {Command(i) : i \in 0 .. call.n - 1}
    BY <1>6, <1>10, Zenon
  <2> QED BY <2>2, <2>3, Zenon DEF InFlight
<1> QED BY <1>2, <1>5, <1>8, <1>10, <1>11, Zenon DEF f, m

\* Consecutive CIDs of a batch differ: a batch is shorter than the CID space.
LEMMA CommandCids ==
  ASSUME BatchInv, call.at = "poll", NEW i \in 0 .. call.n - 1, NEW j \in 0 .. call.n - 1
  PROVE  /\ Command(i).cid \in 0 .. NCids - 1
         /\ Command(i).cid = Command(j).cid => i = j
<1>1. /\ NCids \in Nat \ {0} /\ qs \in Nat \ {0} /\ qs <= NCids
  BY SizeFacts DEF BatchInv, BatchTypes
<1>2. call.n \in 0 .. qs - 1 /\ call.base_cid \in 0 .. NCids - 1
  BY CallStates DEF Calls
<1>3. /\ i \in 0 .. NCids - 1 /\ j \in 0 .. NCids - 1
      /\ call.base_cid \in Int /\ call.base_cid + i \in Int
  BY <1>1, <1>2
<1>4. /\ Command(i).cid = (call.base_cid + i) % NCids
      /\ Command(j).cid = (call.base_cid + j) % NCids
  BY DEF Command
<1>5. (call.base_cid + i) % NCids \in 0 .. NCids - 1
  BY <1>1, <1>3, IntDivMod, Zenon
<1>6. (call.base_cid + i) % NCids = (call.base_cid + j) % NCids => i = j
  BY <1>1, <1>3, SlotUnique, Zenon
<1> QED BY <1>4, <1>5, <1>6, Zenon

\* The commands rung and not fetched are as many as the doorbell says.
LEMMA RungCount ==
  ASSUME BatchInv, call.at = "poll"
  PROVE  Cardinality(Rung) = Slot(sq_db - dev_head)
<1> DEFINE f == dev_head - cq_head
           m == sq_tail - dev_head
           g == [k \in 0 .. m - 1 |-> Command(f + k)]
<1>1. /\ f \in Nat /\ m \in Nat
      /\ Slot(sq_db - dev_head) = m
      /\ Rung = {Command(f + k) : k \in 0 .. m - 1}
  BY InFlightCommands, Zenon
<1> HIDE DEF f, m
<1>2. g \in [0 .. m - 1 -> Rung]
  BY <1>1
<1>3. \A c \in Rung : \E k \in 0 .. m - 1 : g[k] = c
  BY <1>1
<1>4. ASSUME NEW a \in 0 .. m - 1, NEW b \in 0 .. m - 1, g[a] = g[b] PROVE a = b
  <2>1. f + a = f + b
    <3>1. Command(f + a) = Command(f + b)
      BY <1>4
    <3> QED BY <3>1, CommandsDiffer, Zenon
  <2> QED BY <2>1, <1>1
<1> HIDE DEF g
<1>5. ExistsBijection(0 .. m - 1, Rung)
  <2>1. g \in Surjection(0 .. m - 1, Rung)
    BY <1>2, <1>3, Zenon DEF Surjection
  <2>2. g \in Injection(0 .. m - 1, Rung)
    BY <1>2, <1>4, Zenon DEF Injection, IsInjective
  <2> QED BY <2>1, <2>2, Zenon DEF ExistsBijection, Bijection
<1>6. IsFiniteSet(0 .. m - 1) /\ Cardinality(0 .. m - 1) = m
  <2>1. 0 \in Int /\ m - 1 \in Int
    BY <1>1
  <2>2. /\ IsFiniteSet(0 .. m - 1)
        /\ Cardinality(0 .. m - 1) = IF 0 > m - 1 THEN 0 ELSE m - 1 - 0 + 1
    BY <2>1, FS_Interval, Zenon
  <2> QED BY <1>1, <2>2
<1>7. Cardinality(Rung) = Cardinality(0 .. m - 1)
  BY <1>5, <1>6, FS_Bijection, Zenon
<1> QED BY <1>1, <1>6, <1>7, Zenon

\* Under the invariant, a CID names one command in flight.
LEMMA CidsFollow == BatchInv => CidsDistinct
<1> SUFFICES ASSUME BatchInv PROVE CidsDistinct
  OBVIOUS
<1>1. CASE call.at # "poll"
  <2>1. Slot(sq_db - dev_head) = 0 /\ Rung = {} /\ InFlight = {}
    BY <1>1, QuietQueue, Zenon
  <2> QED BY <2>1, FS_EmptySet, Zenon DEF CidsDistinct
<1>2. CASE call.at = "poll"
  <2>1. InFlight \subseteq {Command(i) : i \in 0 .. call.n - 1}
    BY <1>2, InFlightCommands, Zenon
  <2>2. ASSUME NEW c \in InFlight, NEW d \in InFlight, c.cid = d.cid PROVE c = d
    <3>1. PICK i \in 0 .. call.n - 1 : c = Command(i)
      BY <2>1, Zenon
    <3>2. PICK j \in 0 .. call.n - 1 : d = Command(j)
      BY <2>1, Zenon
    <3> QED BY <1>2, <2>2, <3>1, <3>2, CommandCids, Zenon
  <2> QED BY <1>2, <2>2, RungCount, Zenon DEF CidsDistinct
<1> QED BY <1>1, <1>2, Zenon

\* Under the invariant, what is in flight was written by its call and is not done.
LEMMA FetchesFollow == BatchInv => FetchedOnce
<1> SUFFICES ASSUME BatchInv, NEW c \in InFlight
             PROVE  c.call \notin done /\ c # NoCommand
  BY Zenon DEF FetchedOnce
<1>1. call.at = "poll"
  BY QuietQueue, Zenon
<1> DEFINE f == dev_head - cq_head
           m == sq_tail - dev_head
<1>2. /\ f \in Nat /\ m \in Nat /\ f + m = call.n
      /\ Rung = {Command(f + k) : k \in 0 .. m - 1}
      /\ InFlight \subseteq {Command(i) : i \in 0 .. call.n - 1}
  BY <1>1, InFlightCommands, Zenon
<1>3. \A i \in 0 .. call.n - 1 :
        <<made - 1, i>> \in done <=> i < f /\ Command(i) \notin executing
  BY <1>1, Zenon DEF BatchInv, Waiting
<1> HIDE DEF f, m
<1>4. PICK i \in 0 .. call.n - 1 : c = Command(i)
  BY <1>2, Zenon
<1>5. c.call = <<made - 1, i>>
  BY <1>4 DEF Command
<1>6. c.call \notin done
  <2>1. CASE c \in executing
    BY <2>1, <1>3, <1>4, <1>5, Zenon
  <2>2. CASE c \in Rung
    <3>1. PICK k \in 0 .. m - 1 : c = Command(f + k)
      BY <2>2, <1>2, Zenon
    <3>2. i = f + k
      BY <3>1, <1>4, CommandsDiffer, Zenon
    <3>3. ~(i < f)
      BY <3>2, <1>2
    <3> QED BY <3>3, <1>3, <1>5, Zenon
  <2> QED BY <2>1, <2>2, Zenon DEF InFlight
<1>7. c.cid \in 0 .. NCids - 1
  BY <1>1, <1>4, CommandCids, Zenon
<1>8. NCids \in Nat /\ NoCommand.cid = -1
  BY QueueAssumption DEF NoCommand
<1>9. c # NoCommand
  BY <1>7, <1>8
<1> QED BY <1>6, <1>9

(***************************************************************************)
(* Waiting for the last completion is waiting for all: in every execution, *)
(* when a batch call gives its queue entries back, the controller has      *)
(* completed all of its commands (step 4 of write_data_batch polls one).   *)
(***************************************************************************)
THEOREM BatchesComplete == UseSpec => []WholeBatchDone
<1>1. UseInit => use \in {"threads", "batches"}
  BY DEF UseInit
<1>2. use \in {"threads", "batches"} /\ [UseNext]_useVars => (use \in {"threads", "batches"})'
  BY DEF UseNext, Threaded, Batched, useVars
<1>3. use \in {"threads", "batches"} /\ UseInv => WholeBatchDone
  <2> SUFFICES ASSUME use \in {"threads", "batches"}, UseInv, call.at = "release"
               PROVE  WholeBatchDone
    BY Zenon DEF WholeBatchDone
  <2>1. BatchInv
    BY DEF UseInv, None
  <2>2. InFlight = {}
    BY <2>1, QuietQueue
  <2> QED BY <2>1, <2>2, Zenon DEF WholeBatchDone, BatchInv
<1> QED BY <1>1, <1>2, <1>3, UseInvariance, PTL DEF UseSpec

(***************************************************************************)
(* The batch calls take CIDs by count and lock none; still no two commands *)
(* in flight share one, at any wrap of the CID counter.                    *)
(***************************************************************************)
THEOREM BatchCids == UseSpec => [](use = "batches" => CidsDistinct)
<1>1. UseInv => (use = "batches" => CidsDistinct)
  BY CidsFollow, Zenon DEF UseInv
<1> QED BY <1>1, UseInvariance, PTL

(***************************************************************************)
(* With a doorbell per batch, the controller fetches every slot once, and  *)
(* only after the batch has written its command there.                     *)
(***************************************************************************)
THEOREM BatchFetches == UseSpec => [](use = "batches" => FetchedOnce)
<1>1. UseInv => (use = "batches" => FetchedOnce)
  BY FetchesFollow, Zenon DEF UseInv
<1> QED BY <1>1, UseInvariance, PTL
=============================================================================
