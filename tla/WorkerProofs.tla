--------------------------- MODULE WorkerProofs ---------------------------
(***************************************************************************)
(* What the workers of the benchmark ask for: every page once, so that the *)
(* slot counter cannot wrap in a run of fewer than SeqMod pages, and each  *)
(* request in the window position whose DMA buffer it names, so that no    *)
(* buffer is reused before its write has completed.  No claimed slot is    *)
(* abandoned, so the scheduler leaves only when the ring is empty.         *)
(***************************************************************************)
EXTENDS ServiceInv, AlgorithmProofs

(* Every page is asked for once *)

\* Two requests of a run address different pages.
LEMMA PageAtInjective ==
  ASSUME NEW l \in 0 .. Batches - 1, NEW m \in 0 .. Batches - 1,
         NEW p \in Producers, NEW q \in Producers,
         NEW i \in 0 .. Count - 1, NEW j \in 0 .. Count - 1,
         PageAt(l, p, i) = PageAt(m, q, j)
  PROVE  l = m /\ p = q /\ i = j
<1> DEFINE v == ae_worker(p, Workers, Transpose, WarpSize)
           w == ae_worker(q, Workers, Transpose, WarpSize)
           x == ae_index(v, i, PagesPerLaunch, Workers, Tile)
           y == ae_index(w, j, PagesPerLaunch, Workers, Tile)
<1>0. Workers \in Nat \ {0} /\ p \in 0 .. Workers - 1 /\ q \in 0 .. Workers - 1
  BY RunConstants
<1>1. v \in 0 .. Workers - 1 /\ w \in 0 .. Workers - 1
  BY <1>0, TransferAssumption, WorkerInRange, Zenon
<1>2. v = w => p = q
  BY <1>0, TransferAssumption, WorkerInjective, Zenon
<1> HIDE DEF v, w
<1>3. x \in 0 .. PagesPerLaunch - 1 /\ y \in 0 .. PagesPerLaunch - 1
  BY Zenon, <1>0, <1>1, RunConstants, IndexInRange DEF PagesPerLaunch
<1>4. x = y => v = w /\ i = j
  <2>1. Count \in Nat \ {0} /\ Tile \in Nat /\ PagesPerLaunch = Workers * Count
    BY Zenon, RunConstants
  <2>2. x = y => ae_index(v, i, Workers * Count, Workers, Tile)
                   = ae_index(w, j, Workers * Count, Workers, Tile)
    BY Zenon, <2>1
  <2> HIDE DEF x, y
  <2> QED BY <2>1, <2>2, <1>0, <1>1, IndexInjective
<1>5. l * PagesPerLaunch + PageOrder[x] = m * PagesPerLaunch + PageOrder[y]
  BY Zenon DEF PageAt, v, w
<1> HIDE DEF x, y
<1>6. /\ PageOrder[x] \in 0 .. PagesPerLaunch - 1 /\ PageOrder[y] \in 0 .. PagesPerLaunch - 1
      /\ PagesPerLaunch \in Nat \ {0} /\ l \in Nat /\ m \in Nat
  BY <1>3, RunConstants
<1>7. PagesPerLaunch * l + PageOrder[x] = PagesPerLaunch * m + PageOrder[y]
  <2>1. l * PagesPerLaunch = PagesPerLaunch * l /\ m * PagesPerLaunch = PagesPerLaunch * m
    BY <1>6
  <2> QED BY Zenon, <2>1, <1>5
<1>8. l = m /\ PageOrder[x] = PageOrder[y]
  <2> DEFINE n == PagesPerLaunch
             a == PageOrder[x]
             b == PageOrder[y]
  <2>1. n \in Nat \ {0} /\ a \in 0 .. n - 1 /\ b \in 0 .. n - 1 /\ n * l + a = n * m + b
    BY Zenon, <1>6, <1>7
  <2> HIDE DEF n, a, b
  <2>2. l = m /\ a = b
    BY <2>1, <1>6, DigitsUnique
  <2> QED BY Zenon, <2>2 DEF a, b
<1>9. x = y
  BY Zenon, <1>8, <1>3, TransferAssumption
<1> QED BY Zenon, <1>8, <1>9, <1>4, <1>2

\* A step that claims no slot keeps PagesInv if what has begun stays begun.
LEMMA PagesFrame ==
  ASSUME PagesInv, UNCHANGED <<asked, prod_tail>>,
         \A l \in 0 .. Batches - 1, p \in Producers, i \in 0 .. Count - 1 :
           Begun(l, p, i) => Begun(l, p, i)'
  PROVE  PagesInv'
<1>1. ASSUME NEW s \in 0 .. prod_tail - 1
      PROVE  \E l \in 0 .. Batches - 1, p \in Producers, i \in 0 .. Count - 1 :
               Begun(l, p, i)' /\ asked[s + 1].off = PageAt(l, p, i)
  <2>1. PICK l \in 0 .. Batches - 1, p \in Producers, i \in 0 .. Count - 1 :
          Begun(l, p, i) /\ Asked(s).off = PageAt(l, p, i)
    BY Zenon DEF PagesInv
  <2>2. Begun(l, p, i)' /\ asked[s + 1].off = PageAt(l, p, i)
    BY Zenon, <2>1 DEF Asked
  <2> QED BY Zenon, <2>2
<1>2. \A r, s \in 0 .. prod_tail - 1 : asked[r + 1].off = asked[s + 1].off => r = s
  BY Zenon DEF PagesInv, Asked
<1>3. \A l, p, i : PageAt(l, p, i)' = PageAt(l, p, i)
  BY Zenon DEF PageAt
<1> QED BY <1>1, <1>2, <1>3 DEF PagesInv, Asked

\* The request a worker is about to make is for a page nobody has asked for.
LEMMA StartKeepsPages ==
  ASSUME IndInv, IndInv', PagesInv, NEW p \in Producers, StartEnqueue(p)
  PROVE  PagesInv'
<1>t. /\ CoreInv /\ WorkerTypeOK /\ prod_tail \in Nat /\ asked \in Seq(Request_t)
      /\ Len(asked) = prod_tail /\ pc \in [Producers -> EnqueuePcs]
  BY Zenon, DrainTypes DEF IndInv, CoreInv, RingTypeOK
<1>1. /\ iter[p] < Count /\ pc[p] = "out" /\ pc' = [pc EXCEPT ![p] = "full"]
      /\ asked' = Append(asked, Request(p)) /\ prod_tail' = prod_tail + 1
      /\ UNCHANGED <<launch, iter>>
  BY Zenon DEF StartEnqueue, ClaimSlot, Goto, clientVars, workerVars
<1>2. /\ launch \in 0 .. Batches - 1 /\ iter[p] \in 0 .. Count - 1
  BY SMTT(20), <1>1, <1>t, RunConstants DEF WorkerTypeOK
<1>3. /\ \A s \in 0 .. prod_tail - 1 : asked'[s + 1] = asked[s + 1]
      /\ asked'[prod_tail + 1].off = PageAt(launch, p, iter[p])
  <2>1. Request(p) \in Request_t
    BY Zenon, <1>1, <1>t, RequestType
  <2>2. Request(p).off = PageAt(launch, p, iter[p])
    BY Zenon DEF Request, Address
  <2> QED BY Zenon, <2>1, <2>2, <1>1, <1>t, AskedAppend
<1>4. \A l, q, i : PageAt(l, q, i)' = PageAt(l, q, i)
  BY Zenon DEF PageAt
<1>5. ASSUME NEW l \in 0 .. Batches - 1, NEW q \in Producers, NEW i \in 0 .. Count - 1,
             Begun(l, q, i)
      PROVE  Begun(l, q, i)' /\ PageAt(l, q, i) # PageAt(launch, p, iter[p])
  <2>1. Begun(l, q, i)'
    BY Zenon, <1>5, <1>1, <1>t DEF Begun, Enqueuing
  <2>2. PageAt(l, q, i) # PageAt(launch, p, iter[p])
    <3> SUFFICES ASSUME PageAt(l, q, i) = PageAt(launch, p, iter[p]) PROVE FALSE
      BY Zenon
    <3>1. l = launch /\ q = p /\ i = iter[p]
      BY <1>2, PageAtInjective
    <3> QED BY <3>1, <1>1, <1>2, <1>5 DEF Begun, Enqueuing
  <2> QED BY Zenon, <2>1, <2>2
<1>6. \A l, i : l = launch /\ i = iter[p] => Begun(l, p, i)'
  BY Zenon, <1>1, <1>2, <1>t DEF Begun, Enqueuing
<1>7. ASSUME NEW s \in 0 .. prod_tail - 1
      PROVE  /\ \E l \in 0 .. Batches - 1, q \in Producers, i \in 0 .. Count - 1 :
                  Begun(l, q, i)' /\ asked'[s + 1].off = PageAt(l, q, i)
             /\ asked'[s + 1].off # asked'[prod_tail + 1].off
  <2>1. PICK l \in 0 .. Batches - 1, q \in Producers, i \in 0 .. Count - 1 :
          Begun(l, q, i) /\ Asked(s).off = PageAt(l, q, i)
    BY Zenon DEF PagesInv
  <2> QED BY Zenon, <2>1, <1>3, <1>5 DEF Asked
<1>8. \A s \in 0 .. prod_tail : s \in 0 .. prod_tail - 1 \/ s = prod_tail
  BY <1>t
<1>9. prod_tail' - 1 = prod_tail
  BY <1>1, <1>t
<1>10. ASSUME NEW s \in 0 .. prod_tail' - 1
       PROVE  \E l \in 0 .. Batches - 1, q \in Producers, i \in 0 .. Count - 1 :
                Begun(l, q, i)' /\ asked'[s + 1].off = PageAt(l, q, i)
  <2>1. CASE s \in 0 .. prod_tail - 1
    BY Zenon, <2>1, <1>7
  <2>2. CASE s = prod_tail
    BY Zenon, <2>2, <1>2, <1>3, <1>6
  <2> QED BY Zenon, <2>1, <2>2, <1>8, <1>9
<1>11. ASSUME NEW r \in 0 .. prod_tail' - 1, NEW s \in 0 .. prod_tail' - 1,
              asked'[r + 1].off = asked'[s + 1].off
       PROVE  r = s
  <2>1. CASE r = prod_tail \/ s = prod_tail
    BY Zenon, <2>1, <1>7, <1>8, <1>9, <1>11
  <2>2. CASE r \in 0 .. prod_tail - 1 /\ s \in 0 .. prod_tail - 1
    BY Zenon, <2>2, <1>3, <1>11 DEF PagesInv, Asked
  <2> QED BY Zenon, <2>1, <2>2, <1>8, <1>9
<1> QED BY Zenon, <1>4, <1>10, <1>11 DEF PagesInv, Asked

\* What has begun stays begun, whatever the other steps do.
LEMMA NextKeepsPages ==
  ASSUME IndInv, IndInv', PagesInv, [Next]_vars
  PROVE  PagesInv'
<1>t. /\ launch \in 0 .. Batches - 1 /\ iter \in [Producers -> 0 .. Count]
      /\ pc \in [Producers -> EnqueuePcs] /\ Count \in Nat /\ Batches \in Nat
  BY Zenon, RunConstants DEF IndInv, WorkerTypeOK, CoreInv, RingTypeOK
<1>1. ASSUME NEW p \in Producers, AwaitOldest(p) PROVE PagesInv'
  <2>1. UNCHANGED <<asked, prod_tail, pc, launch, iter>>
    BY Zenon, <1>1 DEF AwaitOldest, ringVars, enqueuing
  <2> QED BY Zenon, <2>1, PagesFrame DEF Begun, Enqueuing
<1>2. ASSUME NEW p \in Producers, ContinueEnqueue(p) PROVE PagesInv'
  <2>1. /\ UNCHANGED <<asked, prod_tail, launch, iter>> /\ pc[p] # "out"
        /\ pc' \in [Producers -> EnqueuePcs] /\ pc'[p] # "out"
        /\ \A q \in Producers : q # p => pc'[q] = pc[q]
    BY Zenon, <1>2, <1>t DEF ContinueEnqueue, EnqueueStep, LeaveFull, ClearFlag, WriteEntry, Goto,
       clientVars, workerVars, EnqueuePcs
  <2> QED BY Zenon, <2>1, PagesFrame DEF Begun, Enqueuing
<1>3. ASSUME NEW p \in Producers, FinishEnqueue(p) PROVE PagesInv'
  <2>1. /\ UNCHANGED <<asked, prod_tail, launch>> /\ iter'[p] = iter[p] + 1
        /\ \A q \in Producers : q # p => pc'[q] = pc[q] /\ iter'[q] = iter[q]
    BY Zenon, <1>3, <1>t DEF FinishEnqueue, Publish, Goto
  <2>2. iter[p] \in Nat
    BY <1>t
  <2> QED BY <2>1, <2>2, PagesFrame DEF Begun, Enqueuing
<1>4. CASE NextLaunch
  <2>1. UNCHANGED <<asked, prod_tail>> /\ launch' = launch + 1
    BY Zenon, <1>4 DEF NextLaunch, ringVars, enqueuing
  <2> QED BY <2>1, <1>t, PagesFrame DEF Begun
<1>5. CASE shutdown_queue \/ SchedulerStep \/ ControllerStep \/ UNCHANGED vars
  <2>1. UNCHANGED <<asked, prod_tail, pc, launch, iter>>
    <3>1. CASE shutdown_queue
      BY Zenon, <3>1 DEF shutdown_queue, SetShutdown, enqueuing, clientVars, workerVars
    <3>2. CASE SchedulerStep \/ ControllerStep
      BY Zenon, <3>2, SchedStepFrame, DeviceStepFrame
         DEF SchedulerStep, ControllerStep, clientVars, workerVars
    <3>3. CASE UNCHANGED vars
      BY Zenon, <3>3 DEF vars, ringVars, enqueuing, clientVars, workerVars
    <3> QED BY Zenon, <3>1, <3>2, <3>3, <1>5
  <2> QED BY Zenon, <2>1, PagesFrame DEF Begun, Enqueuing
<1> QED BY Zenon, <1>1, <1>2, <1>3, <1>4, <1>5, StartKeepsPages DEF Next, WorkerStep, Terminated

---------------------------------------------------------------------------
(* The slot counter *)

\* No more slots are claimed than there are pages.
LEMMA ClaimsBounded ==
  ASSUME IndInv, PagesInv
  PROVE  prod_tail <= Batches * PagesPerLaunch
<1> DEFINE N == Batches * PagesPerLaunch
           f == [s \in 0 .. prod_tail - 1 |-> Asked(s).off]
<1>t. /\ prod_tail \in Nat /\ asked \in Seq(Request_t) /\ Len(asked) = prod_tail
  BY Zenon DEF IndInv, CoreInv, RingTypeOK
<1>n. N \in Nat /\ Pages = 0 .. N - 1
  <2>1. Batches \in Nat /\ PagesPerLaunch \in Nat
    BY Zenon, RunConstants
  <2> QED BY <2>1, RunConstants
<1>1. f \in [0 .. prod_tail - 1 -> Pages]
  <2>1. ASSUME NEW s \in 0 .. prod_tail - 1 PROVE Asked(s).off \in Pages
    <3>1. asked[s + 1] \in Request_t
      BY <1>t
    <3> QED BY Zenon, <3>1 DEF Asked, Request_t
  <2> QED BY Zenon, <2>1
<1>2. ~ \E x, y \in 0 .. prod_tail - 1 : x # y /\ f[x] = f[y]
  <2>1. \A r, s \in 0 .. prod_tail - 1 : Asked(r).off = Asked(s).off => r = s
    BY Zenon DEF PagesInv
  <2>2. \A s \in 0 .. prod_tail - 1 : f[s] = Asked(s).off
    BY Zenon
  <2> HIDE DEF f
  <2> QED BY Zenon, <2>1, <2>2
<1> HIDE DEF f, N
<1>3. /\ IsFiniteSet(0 .. prod_tail - 1) /\ Cardinality(0 .. prod_tail - 1) = prod_tail
      /\ IsFiniteSet(Pages) /\ Cardinality(Pages) = N
  BY Zenon, <1>t, <1>n, IntervalSize
<1>4. ~ (Cardinality(Pages) < Cardinality(0 .. prod_tail - 1))
  BY Zenon, <1>1, <1>2, <1>3, FS_PigeonHole
<1> QED BY <1>3, <1>4, <1>t, <1>n DEF N

---------------------------------------------------------------------------
(* Windows *)

\* Positions of two laps of the window.
LEMMA WindowMod ==
  ASSUME NEW a \in Nat, a < 2 * Window
  PROVE  a % Window = IF a < Window THEN a ELSE a - Window
<1>w. Window \in Nat \ {0}
  BY Zenon, RunConstants
<1>1. CASE a < Window
  BY <1>1, <1>w, ModSmall
<1>2. CASE a >= Window
  <2> DEFINE d == a \div Window
             r == a % Window
  <2>1. a = Window * d + r /\ d \in Nat /\ r \in 0 .. Window - 1
    BY Zenon, <1>w, DivMod
  <2> HIDE DEF d, r
  <2>2. d # 0
    BY <2>1, <1>2, <1>w
  <2>3. ~ (1 < d)
    <3> SUFFICES ASSUME 1 < d PROVE FALSE
      BY Zenon
    <3>1. Window * 1 + Window <= Window * d
      BY Zenon, <2>1, <1>w, MulStep
    <3>2. Window * d \in Nat
      BY <2>1, <1>w
    <3> QED BY <3>1, <3>2, <2>1, <1>w
  <2>4. d = 1
    BY <2>1, <2>2, <2>3
  <2>5. r = a - Window
    BY <2>1, <2>4, <1>w
  <2> QED BY <2>5, <1>2, <1>w DEF r
<1> QED BY <1>1, <1>2, <1>w

\* Taking the next position extends the window by it.
LEMMA WindowNext ==
  ASSUME NEW h \in 0 .. Window - 1, NEW n \in 0 .. Window - 1
  PROVE  /\ (h + n) % Window \in (0 .. Window - 1) \ WindowFrom(h, n)
         /\ WindowFrom(h, n + 1) = WindowFrom(h, n) \cup {(h + n) % Window}
<1>w. Window \in Nat \ {0}
  BY Zenon, RunConstants
<1> DEFINE x == (h + n) % Window
<1>1. x = IF h + n < Window THEN h + n ELSE h + n - Window
  BY <1>w, WindowMod
<1> HIDE DEF x
<1>2. x \in (0 .. Window - 1) \ WindowFrom(h, n)
  BY <1>1, <1>w DEF WindowFrom
<1>3. WindowFrom(h, n + 1) = WindowFrom(h, n) \cup {x}
  BY <1>1, <1>w DEF WindowFrom
<1> QED BY Zenon, <1>2, <1>3 DEF x

\* Giving up the oldest position shrinks the window by it.
LEMMA WindowOldest ==
  ASSUME NEW h \in 0 .. Window - 1, NEW n \in 1 .. Window
  PROVE  /\ h \in WindowFrom(h, n)
         /\ (h + 1) % Window \in 0 .. Window - 1
         /\ WindowFrom((h + 1) % Window, n - 1) = WindowFrom(h, n) \ {h}
<1>w. Window \in Nat \ {0}
  BY Zenon, RunConstants
<1> DEFINE x == (h + 1) % Window
<1>1. x = IF h + 1 < Window THEN h + 1 ELSE 0
  BY <1>w, WindowMod
<1> HIDE DEF x
<1>2. h \in WindowFrom(h, n) /\ x \in 0 .. Window - 1
  BY <1>1, <1>w DEF WindowFrom
<1>3. WindowFrom(x, n - 1) = WindowFrom(h, n) \ {h}
  BY <1>1, <1>w DEF WindowFrom
<1> QED BY Zenon, <1>2, <1>3 DEF x

\* The buffer number tells the worker and the window position.
LEMMA BufferUnique ==
  ASSUME NEW p \in Producers, NEW q \in Producers,
         NEW x \in 0 .. Window - 1, NEW y \in 0 .. Window - 1,
         p * Window + x = q * Window + y
  PROVE  p = q /\ x = y
<1>1. Window \in Nat \ {0} /\ p \in Nat /\ q \in Nat
  BY RunConstants
<1>2. Window * p + x = Window * q + y
  <2>1. p * Window = Window * p /\ q * Window = Window * q
    BY <1>1
  <2> QED BY Zenon, <2>1
<1> QED BY <1>1, <1>2, DigitsUnique

\* A worker that holds a slot holds it in the window position the slot's buffer names.
LEMMA HolderFacts ==
  ASSUME IndInv, WindowInv, NEW p \in Producers, NEW s, Holds(p, s)
  PROVE  \E x \in 0 .. Window - 1 :
           /\ Asked(s).pe = p * Window + x
           /\ \/ Enqueuing(p) /\ my_slot[p] = s /\ x \notin Outstanding(p)
              \/ x \in Outstanding(p) /\ slots[p][x] = s
<1>t. head[p] \in 0 .. Window - 1 /\ pending[p] \in 0 .. Window /\ Window \in Nat \ {0}
  BY Zenon, RunConstants DEF IndInv, WorkerTypeOK
<1>1. CASE Enqueuing(p) /\ my_slot[p] = s
  <2>1. pending[p] \in 0 .. Window - 1
    BY <1>1, <1>t DEF IndInv, TicketsAreSlots
  <2>2. NextWindowPos(p) \in (0 .. Window - 1) \ Outstanding(p)
    BY Zenon, <2>1, <1>t, WindowNext DEF NextWindowPos, Outstanding
  <2>3. Asked(s).pe = p * Window + NextWindowPos(p)
    BY Zenon, <1>1 DEF WindowInv
  <2> HIDE DEF NextWindowPos
  <2> QED BY Zenon, <2>2, <2>3, <1>1
<1>2. ASSUME NEW x \in Outstanding(p), slots[p][x] = s
      PROVE  x \in 0 .. Window - 1 /\ Asked(s).pe = p * Window + x
  BY Zenon, <1>2 DEF WindowInv, Outstanding, WindowFrom
<1> QED BY Zenon, <1>1, <1>2 DEF Holds

\* No slot has two holders, and no worker holds two slots in one position.
LEMMA HolderUnique ==
  ASSUME IndInv, WindowInv, NEW p \in Producers, NEW q \in Producers, NEW r, NEW s,
         Holds(p, r), Holds(q, s), Asked(r).pe = Asked(s).pe
  PROVE  p = q /\ r = s
<1>1. PICK x \in 0 .. Window - 1 :
           /\ Asked(r).pe = p * Window + x
           /\ \/ Enqueuing(p) /\ my_slot[p] = r /\ x \notin Outstanding(p)
              \/ x \in Outstanding(p) /\ slots[p][x] = r
  BY Zenon, HolderFacts
<1>2. PICK y \in 0 .. Window - 1 :
           /\ Asked(s).pe = q * Window + y
           /\ \/ Enqueuing(q) /\ my_slot[q] = s /\ y \notin Outstanding(q)
              \/ y \in Outstanding(q) /\ slots[q][y] = s
  BY Zenon, HolderFacts
<1>3. p = q /\ x = y
  BY Zenon, <1>1, <1>2, BufferUnique
<1> QED BY Zenon, <1>1, <1>2, <1>3

\* What is not retired is held, so two requests in work never share a buffer.
LEMMA WindowsSeparateBuffers ==
  ASSUME IndInv, WindowInv
  PROVE  BufferNotReused
<1> SUFFICES ASSUME NEW r \in 0 .. prod_tail - 1, NEW s \in 0 .. prod_tail - 1,
                    r # s, ~Performed(Asked(r)), ~Performed(Asked(s)),
                    Asked(r).pe = Asked(s).pe
             PROVE  FALSE
  BY Zenon DEF BufferNotReused
<1>1. r \notin retired /\ s \notin retired
  BY Zenon DEF IndInv, RetiredInv
<1>2. PICK p \in Producers : Holds(p, r)
  BY Zenon, <1>1 DEF WindowInv
<1>3. PICK q \in Producers : Holds(q, s)
  BY Zenon, <1>1 DEF WindowInv
<1> QED BY Zenon, <1>2, <1>3, HolderUnique

---------------------------------------------------------------------------
(* The steps of a worker keep WindowInv *)

\* Nothing of the windows changes.
LEMMA WindowFrame ==
  ASSUME WindowInv, UNCHANGED <<asked, prod_tail, head, pending, slots, retired, my_slot>>,
         \A p \in Producers : Enqueuing(p)' = Enqueuing(p)
  PROVE  WindowInv'
<1>1. \A p \in Producers : Outstanding(p)' = Outstanding(p) /\ NextWindowPos(p)' = NextWindowPos(p)
  BY Zenon DEF Outstanding, WindowFrom, NextWindowPos
<1>2. \A p \in Producers : \A s : Holds(p, s)' = Holds(p, s)
  BY Zenon, <1>1 DEF Holds
<1>3. \A s : Asked(s)' = Asked(s)
  BY Zenon DEF Asked
<1> QED BY Zenon, <1>1, <1>2, <1>3 DEF WindowInv

\* The claimed slot goes to the next position of its worker's window.
LEMMA StartKeepsWindow ==
  ASSUME IndInv, WindowInv, NEW p \in Producers, StartEnqueue(p)
  PROVE  WindowInv'
<1>t. /\ CoreInv /\ WorkerTypeOK /\ prod_tail \in Nat /\ asked \in Seq(Request_t)
      /\ Len(asked) = prod_tail /\ pc \in [Producers -> EnqueuePcs]
      /\ my_slot \in [Producers -> Nat]
  BY Zenon, DrainTypes DEF IndInv, CoreInv, RingTypeOK
<1>1. /\ iter[p] < Count /\ pc[p] = "out" /\ pc' = [pc EXCEPT ![p] = "full"]
      /\ asked' = Append(asked, Request(p)) /\ prod_tail' = prod_tail + 1
      /\ my_slot' = [my_slot EXCEPT ![p] = prod_tail]
      /\ UNCHANGED <<head, pending, slots, retired>>
  BY Zenon DEF StartEnqueue, ClaimSlot, Goto, clientVars, workerVars
<1>2. /\ \A s \in 0 .. prod_tail - 1 : Asked(s)' = Asked(s)
      /\ asked'[prod_tail + 1].pe = p * Window + NextWindowPos(p)
  <2>1. Request(p) \in Request_t
    BY Zenon, <1>1, <1>t, RequestType
  <2>2. Request(p).pe = p * Window + NextWindowPos(p)
    BY Zenon DEF Request
  <2> QED BY Zenon, <2>1, <2>2, <1>1, <1>t, AskedAppend DEF Asked
<1>3. \A q \in Producers : /\ Outstanding(q)' = Outstanding(q)
                           /\ NextWindowPos(q)' = NextWindowPos(q)
  BY Zenon, <1>1 DEF Outstanding, WindowFrom, NextWindowPos
<1>4. prod_tail \notin retired
  BY <1>t DEF IndInv, RetiredInv, WorkerTypeOK
<1>5. /\ Enqueuing(p)' /\ my_slot'[p] = prod_tail /\ ~Enqueuing(p)
      /\ \A q \in Producers : q # p => Enqueuing(q)' = Enqueuing(q) /\ my_slot'[q] = my_slot[q]
  BY Zenon, <1>1, <1>t DEF Enqueuing
<1>6. ASSUME NEW q \in Producers, NEW x \in Outstanding(q)
      PROVE  /\ slots[q][x] \in (0 .. prod_tail') \ retired /\ slots[q][x] < prod_tail'
             /\ Asked(slots[q][x])'.pe = q * Window + x
  <2>1. slots[q][x] \in (0 .. prod_tail - 1) \ retired /\ Asked(slots[q][x]).pe = q * Window + x
    BY Zenon DEF WindowInv
  <2>2. slots'[q][x] = slots[q][x]
    BY Zenon, <1>1
  <2>3. Asked(slots[q][x])' = Asked(slots[q][x])
    BY <2>1, <2>2, <1>2 DEF Asked
  <2> QED BY SMTT(20), <2>1, <2>3, <1>1, <1>t
<1>7. ASSUME NEW q \in Producers, Enqueuing(q)'
      PROVE  my_slot'[q] \notin retired /\ asked'[my_slot'[q] + 1].pe = q * Window + NextWindowPos(q)
  <2>1. CASE q = p
    BY Zenon, <2>1, <1>2, <1>4, <1>5
  <2>2. CASE q # p
    <3>1. /\ Enqueuing(q) /\ my_slot'[q] = my_slot[q] /\ my_slot[q] \notin retired
          /\ Asked(my_slot[q]).pe = q * Window + NextWindowPos(q)
      BY Zenon, <2>2, <1>5, <1>7 DEF WindowInv
    <3>2. my_slot[q] \in 0 .. prod_tail - 1
      BY <3>1, <1>t DEF CoreInv, RingInv, SlotsOwned, RingTypeOK
    <3> QED BY Zenon, <3>1, <3>2, <1>2 DEF Asked
  <2> QED BY Zenon, <2>1, <2>2
<1>8. ASSUME NEW s \in (0 .. prod_tail) \ retired
      PROVE  \E q \in Producers : Holds(q, s)'
  <2>1. CASE s = prod_tail
    BY Zenon, <2>1, <1>5 DEF Holds
  <2>2. CASE s \in 0 .. prod_tail - 1
    <3>1. PICK q \in Producers : Holds(q, s)
      BY Zenon, <2>2 DEF WindowInv
    <3>2. Holds(q, s)'
      BY Zenon, <3>1, <1>1, <1>3, <1>5 DEF Holds
    <3> QED BY Zenon, <3>2
  <2> QED BY <2>1, <2>2, <1>t
<1>9. prod_tail' - 1 = prod_tail
  BY SMTT(20), <1>1, <1>t
<1>10. \A q \in Producers : \A x \in Outstanding(q)' :
         /\ slots'[q][x] \in (0 .. prod_tail' - 1) \ retired'
         /\ Asked(slots[q][x])'.pe = q * Window + x
  BY <1>1, <1>3, <1>6, <1>t
<1>11. \A q \in Producers : Enqueuing(q)' =>
         /\ my_slot'[q] \notin retired'
         /\ asked'[my_slot'[q] + 1].pe = q * Window + NextWindowPos(q)'
  BY Zenon, <1>1, <1>3, <1>7
<1> QED BY Zenon, <1>1, <1>8, <1>9, <1>10, <1>11 DEF WindowInv, Asked

\* The enqueued slot is recorded in the position it was claimed for.
LEMMA FinishKeepsWindow ==
  ASSUME IndInv, WindowInv, NEW p \in Producers, FinishEnqueue(p)
  PROVE  WindowInv'
<1> DEFINE w == NextWindowPos(p)
           m == my_slot[p]
<1>t. /\ CoreInv /\ pc \in [Producers -> EnqueuePcs]
      /\ head \in [Producers -> 0 .. Window - 1] /\ pending \in [Producers -> 0 .. Window]
      /\ slots \in [Producers -> [0 .. Window - 1 -> Nat]] /\ Window \in Nat \ {0}
  BY Zenon, RunConstants DEF IndInv, WorkerTypeOK, CoreInv, RingTypeOK
<1>1. /\ pc[p] = "publish" /\ pc' = [pc EXCEPT ![p] = "out"]
      /\ slots' = [slots EXCEPT ![p] = [slots[p] EXCEPT ![w] = m]]
      /\ pending' = [pending EXCEPT ![p] = pending[p] + 1]
      /\ UNCHANGED <<asked, prod_tail, my_slot, head, retired>>
  BY Zenon DEF FinishEnqueue, Publish, Goto
<1>2. Enqueuing(p) /\ head[p] \in 0 .. Window - 1 /\ pending[p] \in 0 .. Window - 1
  <2>1. Enqueuing(p)
    BY Zenon, <1>1 DEF Enqueuing
  <2>2. pending[p] < Window
    BY <2>1, Zenon DEF IndInv, TicketsAreSlots
  <2>3. head[p] \in 0 .. Window - 1 /\ pending[p] \in 0 .. Window
    BY Zenon, <1>t
  <2> QED BY <2>1, <2>2, <2>3, <1>t
<1>3. /\ w \in (0 .. Window - 1) \ Outstanding(p)
      /\ WindowFrom(head[p], pending[p] + 1) = Outstanding(p) \cup {w}
  <2> DEFINE h == head[p]
             n == pending[p]
  <2>1. h \in 0 .. Window - 1 /\ n \in 0 .. Window - 1
    BY Zenon, <1>2
  <2> HIDE DEF h, n
  <2>2. /\ (h + n) % Window \in (0 .. Window - 1) \ WindowFrom(h, n)
        /\ WindowFrom(h, n + 1) = WindowFrom(h, n) \cup {(h + n) % Window}
    BY Zenon, <2>1, WindowNext
  <2> QED BY <2>2, Zenon DEF NextWindowPos, Outstanding, h, n
<1> HIDE DEF w
<1>4. /\ Outstanding(p)' = Outstanding(p) \cup {w}
      /\ \A q \in Producers : q # p => /\ Outstanding(q)' = Outstanding(q)
                                       /\ NextWindowPos(q)' = NextWindowPos(q)
  <2>1. head' = head /\ pending'[p] = pending[p] + 1
    BY Zenon, <1>1, <1>t
  <2>2. \A h, n : WindowFrom(h, n)' = WindowFrom(h, n)
    BY Zenon DEF WindowFrom
  <2>3. Outstanding(p)' = WindowFrom(head[p], pending[p] + 1)
    BY Zenon, <2>1, <2>2 DEF Outstanding
  <2>4. \A q \in Producers : q # p => pending'[q] = pending[q]
    BY Zenon, <1>1, <1>t
  <2>5. \A q \in Producers : q # p => Outstanding(q)' = Outstanding(q)
    BY Zenon, <2>1, <2>2, <2>4 DEF Outstanding
  <2> QED BY Zenon, <2>1, <2>3, <2>4, <2>5, <1>3 DEF NextWindowPos
<1>5. /\ slots'[p][w] = m
      /\ \A q \in Producers : \A x \in Outstanding(q) : slots'[q][x] = slots[q][x]
  <2>1. slots[p] \in [0 .. Window - 1 -> Nat]
    BY Zenon, <1>t
  <2>2. slots'[p] = [slots[p] EXCEPT ![w] = m] /\ \A q \in Producers : q # p => slots'[q] = slots[q]
    BY Zenon, <1>1, <1>t
  <2>3. \A x \in 0 .. Window - 1 : slots'[p][x] = IF x = w THEN m ELSE slots[p][x]
    BY Zenon, <2>1, <2>2
  <2>4. Outstanding(p) \subseteq 0 .. Window - 1
    BY Zenon DEF Outstanding, WindowFrom
  <2> QED BY Zenon, <2>2, <2>3, <2>4, <1>3
<1>6. m \in (0 .. prod_tail - 1) \ retired /\ Asked(m).pe = p * Window + w
  <2>1. m \in 0 .. prod_tail - 1
    BY <1>2, <1>t DEF CoreInv, RingInv, SlotsOwned, RingTypeOK
  <2> QED BY Zenon, <2>1, <1>2 DEF WindowInv, w
<1>7. \A q \in Producers : Enqueuing(q)' => q # p /\ Enqueuing(q)
  BY Zenon, <1>1, <1>t DEF Enqueuing
<1>8. ASSUME NEW q \in Producers, NEW x \in Outstanding(q)'
      PROVE  /\ slots'[q][x] \in (0 .. prod_tail - 1) \ retired
             /\ Asked(slots'[q][x]).pe = q * Window + x
  <2>1. CASE x \in Outstanding(q)
    <3>1. slots'[q][x] = slots[q][x]
      BY Zenon, <2>1, <1>5
    <3> QED BY Zenon, <2>1, <3>1 DEF WindowInv
  <2>2. CASE x \notin Outstanding(q)
    <3>1. q = p /\ x = w
      BY Zenon, <2>2, <1>4
    <3> QED BY Zenon, <3>1, <1>5, <1>6
  <2> QED BY Zenon, <2>1, <2>2
<1>9. ASSUME NEW q \in Producers, Enqueuing(q)'
      PROVE  my_slot[q] \notin retired /\ Asked(my_slot[q]).pe = q * Window + NextWindowPos(q)'
  BY Zenon, <1>4, <1>7, <1>9 DEF WindowInv
<1>10. ASSUME NEW s \in (0 .. prod_tail - 1) \ retired
       PROVE  \E q \in Producers : Holds(q, s)'
  <2>1. PICK q \in Producers : Holds(q, s)
    BY Zenon DEF WindowInv
  <2>2. CASE \E x \in Outstanding(q) : slots[q][x] = s
    BY Zenon, <2>2, <1>4, <1>5 DEF Holds
  <2>3. CASE Enqueuing(q) /\ my_slot[q] = s /\ q = p
    <3>1. w \in Outstanding(p)' /\ slots'[p][w] = s
      BY Zenon, <2>3, <1>4, <1>5
    <3> QED BY Zenon, <3>1 DEF Holds
  <2>4. CASE Enqueuing(q) /\ my_slot[q] = s /\ q # p
    <3>1. pc'[q] = pc[q] /\ my_slot' = my_slot
      BY Zenon, <2>4, <1>1, <1>t
    <3> QED BY Zenon, <2>4, <3>1 DEF Holds, Enqueuing
  <2> QED BY Zenon, <2>1, <2>2, <2>3, <2>4 DEF Holds
<1> QED BY Zenon, <1>1, <1>8, <1>9, <1>10 DEF WindowInv, Asked

\* The oldest request leaves the window when it returns.
LEMMA AwaitKeepsWindow ==
  ASSUME IndInv, WindowInv, NEW p \in Producers, AwaitOldest(p)
  PROVE  WindowInv'
<1> DEFINE ticket == slots[p][head[p]]
<1>t. /\ head \in [Producers -> 0 .. Window - 1] /\ pending \in [Producers -> 0 .. Window]
      /\ head[p] \in 0 .. Window - 1 /\ pending[p] \in 0 .. Window /\ Window \in Nat \ {0}
  BY Zenon, RunConstants DEF IndInv, WorkerTypeOK
<1>1. /\ pending[p] > 0 /\ pc[p] = "out"
      /\ head' = [head EXCEPT ![p] = (head[p] + 1) % Window]
      /\ pending' = [pending EXCEPT ![p] = pending[p] - 1]
      /\ retired' = retired \cup {ticket}
      /\ UNCHANGED <<asked, prod_tail, my_slot, pc, slots>>
  BY Zenon DEF AwaitOldest, MustWait, ringVars, enqueuing
<1>2. /\ head[p] \in Outstanding(p)
      /\ WindowFrom((head[p] + 1) % Window, pending[p] - 1) = Outstanding(p) \ {head[p]}
  <2> DEFINE h == head[p]
             n == pending[p]
  <2>1. h \in 0 .. Window - 1 /\ n \in 1 .. Window
    BY <1>1, <1>t
  <2> HIDE DEF h, n
  <2>2. /\ h \in WindowFrom(h, n)
        /\ WindowFrom((h + 1) % Window, n - 1) = WindowFrom(h, n) \ {h}
    BY <2>1, WindowOldest, Zenon
  <2> QED BY <2>2, Zenon DEF Outstanding, h, n
<1>3. /\ Outstanding(p)' = Outstanding(p) \ {head[p]}
      /\ \A q \in Producers : q # p => /\ Outstanding(q)' = Outstanding(q)
                                       /\ NextWindowPos(q)' = NextWindowPos(q)
  <2>1. head'[p] = (head[p] + 1) % Window /\ pending'[p] = pending[p] - 1
    BY Zenon, <1>1, <1>t
  <2>2. \A h, n : WindowFrom(h, n)' = WindowFrom(h, n)
    BY Zenon DEF WindowFrom
  <2>3. Outstanding(p)' = WindowFrom((head[p] + 1) % Window, pending[p] - 1)
    BY Zenon, <2>1, <2>2 DEF Outstanding
  <2>4. \A q \in Producers : q # p => head'[q] = head[q] /\ pending'[q] = pending[q]
    BY Zenon, <1>1, <1>t
  <2>5. \A q \in Producers : q # p => Outstanding(q)' = Outstanding(q)
    BY Zenon, <2>2, <2>4 DEF Outstanding
  <2> QED BY Zenon, <2>3, <2>4, <2>5, <1>2 DEF NextWindowPos
<1>4. Holds(p, ticket)
  BY Zenon, <1>2 DEF Holds
<1> HIDE DEF ticket
<1>5. ASSUME NEW q \in Producers, NEW x \in Outstanding(q)'
      PROVE  /\ x \in Outstanding(q) /\ slots[q][x] # ticket
             /\ slots[q][x] \in (0 .. prod_tail - 1) \ retired
             /\ Asked(slots[q][x]).pe = q * Window + x
  <2>1. x \in Outstanding(q) /\ (q = p => x # head[p])
    BY Zenon, <1>3
  <2>2. /\ slots[q][x] \in (0 .. prod_tail - 1) \ retired
        /\ Asked(slots[q][x]).pe = q * Window + x
    BY Zenon, <2>1 DEF WindowInv
  <2>3. slots[q][x] # ticket
    <3> SUFFICES ASSUME slots[q][x] = ticket PROVE FALSE
      BY Zenon
    <3>1. Asked(ticket).pe = p * Window + head[p]
      BY Zenon, <1>2 DEF WindowInv, ticket
    <3>2. x \in 0 .. Window - 1
      BY Zenon, <2>1 DEF Outstanding, WindowFrom
    <3>3. q = p /\ x = head[p]
      BY SMTT(20), <3>1, <3>2, <2>2, <1>t, BufferUnique
    <3> QED BY Zenon, <3>3, <2>1
  <2> QED BY Zenon, <2>1, <2>2, <2>3
<1>6. ASSUME NEW q \in Producers, Enqueuing(q)
      PROVE  /\ my_slot[q] \notin retired /\ my_slot[q] # ticket /\ q # p
             /\ Asked(my_slot[q]).pe = q * Window + NextWindowPos(q)
  <2>1. q # p
    BY Zenon, <1>1, <1>6 DEF Enqueuing
  <2>2. my_slot[q] # ticket
    <3> SUFFICES ASSUME my_slot[q] = ticket PROVE FALSE
      BY Zenon
    <3>1. Holds(q, ticket)
      BY Zenon, <1>6 DEF Holds
    <3> QED BY Zenon, <3>1, <1>4, <2>1, HolderUnique
  <2> QED BY Zenon, <2>1, <2>2, <1>6 DEF WindowInv
<1>7. ASSUME NEW s \in (0 .. prod_tail - 1) \ retired'
      PROVE  \E q \in Producers : Holds(q, s)'
  <2>1. s \in (0 .. prod_tail - 1) \ retired /\ s # ticket
    BY Zenon, <1>1
  <2>2. PICK q \in Producers : Holds(q, s)
    BY Zenon, <2>1 DEF WindowInv
  <2>3. CASE Enqueuing(q) /\ my_slot[q] = s
    BY Zenon, <2>3, <1>1 DEF Holds, Enqueuing
  <2>4. ASSUME NEW x \in Outstanding(q), slots[q][x] = s
        PROVE  Holds(q, s)'
    <3>1. x \in Outstanding(q)'
      BY Zenon, <2>1, <2>4, <1>3 DEF ticket
    <3> QED BY Zenon, <3>1, <2>4, <1>1 DEF Holds
  <2> QED BY Zenon, <2>2, <2>3, <2>4 DEF Holds
<1>8. \A q \in Producers : Enqueuing(q)' = Enqueuing(q)
  BY Zenon, <1>1 DEF Enqueuing
<1>9. \A q \in Producers : Enqueuing(q)' => NextWindowPos(q)' = NextWindowPos(q)
  BY Zenon, <1>3, <1>6, <1>8
<1> QED BY Zenon, <1>1, <1>5, <1>6, <1>7, <1>8, <1>9 DEF WindowInv, Asked

\* Every step keeps WindowInv.
LEMMA NextKeepsWindow ==
  ASSUME IndInv, IndInv', WindowInv, [Next]_vars
  PROVE  WindowInv'
<1>t. /\ pc \in [Producers -> EnqueuePcs] /\ prod_tail \in Nat /\ Window \in Nat \ {0}
      /\ head \in [Producers -> 0 .. Window - 1]
  BY Zenon, RunConstants DEF IndInv, WorkerTypeOK, CoreInv, RingTypeOK
<1>1. ASSUME NEW p \in Producers, ContinueEnqueue(p) PROVE WindowInv'
  <2>1. /\ UNCHANGED <<asked, prod_tail, head, pending, slots, retired, my_slot>>
        /\ pc[p] # "out" /\ pc'[p] # "out"
        /\ \A q \in Producers : q # p => pc'[q] = pc[q]
    BY Zenon, <1>1, <1>t DEF ContinueEnqueue, EnqueueStep, LeaveFull, ClearFlag, WriteEntry, Goto,
       clientVars, workerVars, EnqueuePcs
  <2> QED BY Zenon, <2>1, WindowFrame DEF Enqueuing
<1>2. CASE NextLaunch
  <2>1. /\ LaunchEnded /\ UNCHANGED <<asked, prod_tail, pc, my_slot, retired>>
        /\ pending' = [p \in Producers |-> 0] /\ head' = [p \in Producers |-> 0]
    BY Zenon, <1>2 DEF NextLaunch, ringVars, enqueuing
  <2>2. \A p \in Producers : ~Enqueuing(p) /\ ~Enqueuing(p)' /\ pending[p] = 0
    BY Zenon, <2>1 DEF LaunchEnded, Ended, Enqueuing
  <2>3. \A p \in Producers : Outstanding(p) = {} /\ Outstanding(p)' = {}
    BY <2>1, <2>2, <1>t DEF Outstanding, WindowFrom
  <2>4. (0 .. prod_tail - 1) \ retired = {}
    BY Zenon, <2>2, <2>3 DEF WindowInv, Holds
  <2> QED BY Zenon, <2>1, <2>2, <2>3, <2>4 DEF WindowInv
<1>3. CASE shutdown_queue \/ SchedulerStep \/ ControllerStep \/ UNCHANGED vars
  <2>1. UNCHANGED <<asked, prod_tail, pc, my_slot, head, pending, slots, retired>>
    <3>1. CASE shutdown_queue
      BY Zenon, <3>1 DEF shutdown_queue, SetShutdown, enqueuing, clientVars, workerVars
    <3>2. CASE SchedulerStep \/ ControllerStep
      BY Zenon, <3>2, SchedStepFrame, DeviceStepFrame
         DEF SchedulerStep, ControllerStep, clientVars, workerVars
    <3>3. CASE UNCHANGED vars
      BY Zenon, <3>3 DEF vars, ringVars, enqueuing, clientVars, workerVars
    <3> QED BY Zenon, <3>1, <3>2, <3>3, <1>3
  <2> QED BY Zenon, <2>1, WindowFrame DEF Enqueuing
<1> QED BY Zenon, <1>1, <1>2, <1>3, StartKeepsWindow, FinishKeepsWindow, AwaitKeepsWindow
        DEF Next, WorkerStep, Terminated

\* Before the first request every window is empty.
LEMMA WindowInit == Init => WindowInv
<1> SUFFICES ASSUME Init PROVE WindowInv
  BY Zenon
<1>1. /\ prod_tail = 0 /\ Window \in Nat
      /\ \A p \in Producers : head[p] = 0 /\ pending[p] = 0 /\ ~Enqueuing(p)
  BY Zenon, RunConstants DEF Init, RingInit, Enqueuing
<1>2. \A p \in Producers : Outstanding(p) = {}
  BY <1>1 DEF Outstanding, WindowFrom
<1> QED BY <1>1, <1>2 DEF WindowInv

---------------------------------------------------------------------------
(* Claimed slots *)

\* A step that leaves the producers and their sequence numbers alone.
LEMMA ClaimedFrame ==
  ASSUME ClaimedInv, UNCHANGED <<pc, my_slot, prod_seq, prod_tail>>,
         cons_head \in Nat, cons_head' \in Nat, prod_tail \in Nat, cons_head' >= cons_head
  PROVE  ClaimedInv'
<1>1. ASSUME NEW s \in cons_head' .. prod_tail - 1
      PROVE  \/ prod_seq[Idx(s)] = s + 1
             \/ \E p \in Producers : pc[p] # "out" /\ my_slot[p] = s
  <2>1. s \in cons_head .. prod_tail - 1
    OBVIOUS
  <2> QED BY Zenon, <2>1 DEF ClaimedInv, Published, Enqueuing
<1> QED BY Zenon, <1>1 DEF ClaimedInv, Published, Enqueuing

\* A slot is being filled from the moment it is claimed until it is published.
LEMMA WorkerKeepsClaimed ==
  ASSUME IndInv, ClaimedInv, NEW p \in Producers,
         StartEnqueue(p) \/ ContinueEnqueue(p) \/ FinishEnqueue(p)
  PROVE  ClaimedInv'
<1>t. /\ prod_tail \in Nat /\ cons_head \in Nat /\ pc \in [Producers -> EnqueuePcs]
      /\ my_slot \in [Producers -> Nat] /\ prod_seq \in [RingIdx -> Nat]
      /\ RingTypeOK /\ RingInv
  BY Zenon DEF IndInv, CoreInv, RingTypeOK
<1>1. CASE StartEnqueue(p)
  <2>1. /\ pc[p] = "out" /\ pc' = [pc EXCEPT ![p] = "full"]
        /\ my_slot' = [my_slot EXCEPT ![p] = prod_tail] /\ prod_tail' = prod_tail + 1
        /\ UNCHANGED <<prod_seq, cons_head>>
    BY Zenon, <1>1 DEF StartEnqueue, ClaimSlot, Goto, memory
  <2>2. ASSUME NEW s \in cons_head .. prod_tail
        PROVE  Published(s)' \/ \E q \in Producers : Enqueuing(q)' /\ my_slot'[q] = s
    <3>1. CASE s = prod_tail
      BY Zenon, <3>1, <2>1, <1>t DEF Enqueuing
    <3>2. CASE s # prod_tail
      <4>1. s \in cons_head .. prod_tail - 1
        BY <3>2, <1>t
      <4>2. CASE Published(s)
        BY Zenon, <4>2, <2>1 DEF Published
      <4>3. ASSUME NEW q \in Producers, Enqueuing(q), my_slot[q] = s
            PROVE  Enqueuing(q)' /\ my_slot'[q] = s
        BY Zenon, <4>3, <2>1, <1>t DEF Enqueuing
      <4> QED BY Zenon, <4>1, <4>2, <4>3 DEF ClaimedInv
    <3> QED BY Zenon, <3>1, <3>2
  <2>3. prod_tail' - 1 = prod_tail
    BY <2>1, <1>t
  <2> QED BY Zenon, <2>1, <2>2, <2>3 DEF ClaimedInv
<1>2. CASE ContinueEnqueue(p)
  <2>1. /\ UNCHANGED <<my_slot, prod_seq, prod_tail, cons_head>>
        /\ \A q \in Producers : Enqueuing(q)' = Enqueuing(q)
    BY Zenon, <1>2, <1>t DEF ContinueEnqueue, EnqueueStep, LeaveFull, ClearFlag, WriteEntry, Goto,
       memory, Enqueuing
  <2> QED BY Zenon, <2>1 DEF ClaimedInv, Published
<1>3. CASE FinishEnqueue(p)
  <2>1. /\ pc[p] = "publish" /\ pc' = [pc EXCEPT ![p] = "out"] /\ Publish(p)
        /\ prod_seq' = [prod_seq EXCEPT ![Idx(my_slot[p])] = my_slot[p] + 1]
        /\ UNCHANGED <<my_slot, prod_tail, cons_head>>
    BY Zenon, <1>3 DEF FinishEnqueue, Publish, Goto
  <2>2. ASSUME NEW s \in cons_head .. prod_tail - 1, Published(s)
        PROVE  Published(s)'
    <3>1. Idx(s) # Idx(my_slot[p])
      BY Zenon, <2>1, <2>2, <1>t, SlotsInLapDiffer DEF Published
    <3>2. Idx(s) \in RingIdx
      BY <1>t, IdxType
    <3> QED BY Zenon, <3>1, <3>2, <2>1, <2>2, <1>t DEF Published
  <2>3. prod_seq'[Idx(my_slot[p])] = my_slot[p] + 1
    <3>1. Idx(my_slot[p]) \in RingIdx
      BY Zenon, <1>t, IdxType
    <3> QED BY Zenon, <3>1, <2>1, <1>t
  <2>4. ASSUME NEW s \in cons_head .. prod_tail - 1
        PROVE  Published(s)' \/ \E q \in Producers : Enqueuing(q)' /\ my_slot[q] = s
    <3>1. ASSUME NEW q \in Producers, Enqueuing(q), my_slot[q] = s, q # p
          PROVE  Enqueuing(q)'
      BY Zenon, <3>1, <2>1, <1>t DEF Enqueuing
    <3>2. my_slot[p] = s => Published(s)'
      BY Zenon, <2>3 DEF Published
    <3> QED BY Zenon, <3>1, <3>2, <2>2 DEF ClaimedInv
  <2> QED BY Zenon, <2>1, <2>4 DEF ClaimedInv
<1> QED BY Zenon, <1>1, <1>2, <1>3

---------------------------------------------------------------------------
(* Leaving *)

\* The second scan after the shutdown sees every slot that is left.
LEMMA RescanFindsAll ==
  ASSUME IndInv, NoWrap, ClaimedInv, ExitInv, shutdown, phase = "empty",
         ~ScanFindsReady(sh_base_head, Capacity)
  PROVE  cons_head = prod_tail
<1>t. /\ prod_tail \in Nat /\ cons_head \in Nat /\ cons_head <= prod_tail
      /\ Capacity \in Nat /\ Capacity > 0 /\ prod_seq \in [RingIdx -> Nat]
  BY Zenon, DrainTypes DEF IndInv
<1>s. SeqMod \in Nat
  BY Zenon, SeqModAssumption
<1>b. sh_base_head = cons_head
  BY Zenon DEF IndInv, CoreInv, SchedulerInv, BatchIsAsked
<1> SUFFICES ASSUME cons_head < prod_tail PROVE FALSE
  BY <1>t
<1>1. cons_head \in cons_head .. prod_tail - 1
  BY <1>t
<1>2. Published(cons_head)
  BY Zenon, <1>1, EndedStopsWorkers DEF ClaimedInv, ExitInv
<1>3. ReadyAt(cons_head)
  BY Zenon, <1>2 DEF Published, ReadyAt
<1>4. U32(prod_tail - cons_head) > 0
  <2>1. prod_tail - cons_head \in 0 .. SeqMod - 1 /\ prod_tail - cons_head > 0
    BY <1>t, <1>s DEF NoWrap
  <2> QED BY Zenon, <2>1, U32Small
<1> QED BY Zenon, <1>3, <1>4, <1>b, <1>t DEF ScanFindsReady

\* Every step keeps ClaimedInv.
LEMMA NextKeepsClaimed ==
  ASSUME IndInv, ClaimedInv, [Next]_vars
  PROVE  ClaimedInv'
<1>t. prod_tail \in Nat /\ cons_head \in Nat /\ sh_accumulated \in Nat
  BY Zenon, DrainTypes DEF IndInv
<1>1. ASSUME NEW p \in Producers, AwaitOldest(p) PROVE ClaimedInv'
  <2>1. UNCHANGED <<pc, my_slot, prod_seq, prod_tail, cons_head>>
    BY Zenon, <1>1 DEF AwaitOldest, ringVars, memory, enqueuing
  <2> QED BY <2>1, <1>t, ClaimedFrame
<1>2. CASE NextLaunch \/ shutdown_queue \/ UNCHANGED vars
  <2>1. UNCHANGED <<pc, my_slot, prod_seq, prod_tail, cons_head>>
    BY Zenon, <1>2 DEF NextLaunch, shutdown_queue, SetShutdown, vars, ringVars, memory, enqueuing
  <2> QED BY <2>1, <1>t, ClaimedFrame
<1>3. CASE Gather \/ EmptyRound \/ SubmitDone \/ DeviceStep
  <2>1. UNCHANGED ringVars
    BY Zenon, <1>3, GatherFrame DEF EmptyRound, SubmitDone, DeviceStep, DeviceComplete
  <2>2. UNCHANGED <<pc, my_slot, prod_seq, prod_tail, cons_head>>
    BY Zenon, <2>1 DEF ringVars, memory, enqueuing
  <2> QED BY <2>2, <1>t, ClaimedFrame
<1>4. CASE Advance \/ \E pos \in RingIdx : Notify(pos)
  <2>1. UNCHANGED <<pc, my_slot, prod_seq, prod_tail>>
    BY Zenon, <1>4 DEF Advance, Notify, memory, enqueuing
  <2>2. cons_head' = cons_head \/ cons_head' = cons_head + sh_accumulated
    BY Zenon, <1>4 DEF Advance, Notify
  <2>3. cons_head' \in Nat /\ cons_head' >= cons_head
    BY <2>2, <1>t
  <2> QED BY Zenon, <2>1, <2>3, <1>t, ClaimedFrame
<1>5. CASE SchedulerStep \/ ControllerStep
  BY Zenon, <1>3, <1>4, <1>5 DEF SchedulerStep, ControllerStep, SchedStep, Gather
<1> QED BY Zenon, <1>1, <1>2, <1>5, WorkerKeepsClaimed DEF Next, WorkerStep, Terminated

\* What ExitInv says of the workers and of the counters, for a step that leaves them alone.
LEMMA ExitFrame ==
  ASSUME ExitInv, UNCHANGED <<shutdown, pc, iter, pending, launch, cons_head, prod_tail>>,
         UNCHANGED <<submitted_ios, merged_ios>>,
         phase' \in {"empty", "exit"} => sh_accumulated' = 0,
         phase' = "exit" => shutdown /\ cons_head = prod_tail
  PROVE  ExitInv'
<1>1. LaunchEnded' = LaunchEnded
  BY Zenon DEF LaunchEnded, Ended
<1> QED BY Zenon, <1>1 DEF ExitInv

\* Every step keeps ExitInv.
LEMMA NextKeepsExit ==
  ASSUME IndInv, NoWrap, ClaimedInv, ExitInv, [Next]_vars
  PROVE  ExitInv'
<1>t. /\ CoreInv /\ prod_tail \in Nat /\ cons_head \in Nat /\ sh_accumulated \in Nat
      /\ submitted_ios \in Nat /\ merged_ios \in Nat /\ launch \in Nat /\ Batches \in Nat
  <2>1. CoreInv /\ launch \in Nat /\ Batches \in Nat
    BY RunConstants DEF IndInv, WorkerTypeOK
  <2>2. submitted_ios \in Nat /\ merged_ios \in Nat
    BY Zenon, <2>1 DEF CoreInv, SchedTypeOK
  <2> QED BY Zenon, <2>1, <2>2, DrainTypes
<1>1. ASSUME NEW p \in Producers, WorkerStep(p) PROVE ExitInv'
  <2>1. ~shutdown
    BY Zenon, <1>1, EndedStopsWorkers DEF ExitInv
  <2>2. UNCHANGED <<schedVars, shutdown, cons_head>>
    <3>1. CASE AwaitOldest(p)
      BY Zenon, <3>1 DEF AwaitOldest, ringVars
    <3>2. CASE StartEnqueue(p)
      BY Zenon, <3>2 DEF StartEnqueue, ClaimSlot
    <3>3. CASE ContinueEnqueue(p)
      BY Zenon, <3>3 DEF ContinueEnqueue, EnqueueStep, LeaveFull, ClearFlag, WriteEntry
    <3>4. CASE FinishEnqueue(p)
      BY Zenon, <3>4 DEF FinishEnqueue, Publish
    <3> QED BY Zenon, <1>1, <3>1, <3>2, <3>3, <3>4 DEF WorkerStep
  <2>3. UNCHANGED <<phase, sh_accumulated, submitted_ios, merged_ios, shutdown, cons_head>>
    BY Zenon, <2>2 DEF schedVars, batchVars
  <2> QED BY Zenon, <2>1, <2>3 DEF ExitInv
<1>2. CASE NextLaunch
  <2>1. launch < Batches - 1 /\ UNCHANGED <<ringVars, schedVars>>
    BY Zenon, <1>2 DEF NextLaunch
  <2>2. UNCHANGED <<phase, sh_accumulated, submitted_ios, merged_ios, shutdown, cons_head>>
    BY Zenon, <2>1 DEF schedVars, batchVars, ringVars
  <2>3. ~shutdown
    BY <2>1, <1>t DEF ExitInv
  <2> QED BY Zenon, <2>2, <2>3 DEF ExitInv
<1>3. CASE shutdown_queue
  <2>1. /\ LaunchEnded /\ launch = Batches - 1 /\ ~shutdown /\ shutdown' = TRUE
        /\ UNCHANGED <<pc, iter, pending, launch, cons_head, prod_tail, phase, sh_accumulated,
                       submitted_ios, merged_ios>>
    BY Zenon, <1>3 DEF shutdown_queue, SetShutdown, enqueuing, schedVars, batchVars, clientVars, workerVars
  <2>2. LaunchEnded'
    BY Zenon, <2>1 DEF LaunchEnded, Ended
  <2> QED BY Zenon, <2>1, <2>2 DEF ExitInv
<1>4. CASE UNCHANGED vars
  <2>1. UNCHANGED <<shutdown, pc, iter, pending, launch, cons_head, prod_tail, submitted_ios,
                    merged_ios, phase, sh_accumulated>>
    BY Zenon, <1>4 DEF vars, ringVars, enqueuing, schedVars, batchVars, clientVars, workerVars
  <2> QED BY Zenon, <2>1, ExitFrame DEF ExitInv
<1>5. CASE (SchedStep \/ DeviceStep) /\ UNCHANGED clientVars
  <2>1. UNCHANGED <<iter, pending, launch>>
    BY Zenon, <1>5 DEF clientVars, workerVars
  <2>2. CASE Gather
    <3>1. /\ UNCHANGED <<shutdown, pc, cons_head, prod_tail, submitted_ios, merged_ios>>
          /\ phase' # "exit" /\ (phase' = "empty" => sh_accumulated' = 0)
      BY Zenon, <2>2, GatherFrame DEF ringVars, enqueuing
    <3> QED BY Zenon, <2>1, <3>1, ExitFrame
  <2>3. CASE EmptyRound
    <3>1. /\ UNCHANGED <<shutdown, pc, cons_head, prod_tail, submitted_ios, merged_ios,
                         sh_accumulated>>
          /\ phase = "empty"
          /\ phase' = "exit" => shutdown /\ ~ScanFindsReady(sh_base_head, Capacity)
      BY Zenon, <2>3 DEF EmptyRound, ringVars, enqueuing, batchVars
    <3>2. phase' = "exit" => shutdown /\ cons_head = prod_tail
      BY Zenon, <3>1, RescanFindsAll
    <3>3. sh_accumulated' = 0
      BY Zenon, <3>1 DEF ExitInv
    <3> QED BY Zenon, <2>1, <3>1, <3>2, <3>3, ExitFrame
  <2>4. CASE SubmitDone \/ (\E pos \in RingIdx : Notify(pos)) \/ DeviceStep
    <3>1. /\ UNCHANGED <<shutdown, pc, cons_head, prod_tail, submitted_ios, merged_ios>>
          /\ phase' \in {"notify", "poll"}
      <4>1. CASE SubmitDone
        BY Zenon, <4>1 DEF SubmitDone, GotoPhase, ringVars, enqueuing
      <4>2. CASE \E pos \in RingIdx : Notify(pos)
        BY Zenon, <4>2 DEF Notify, enqueuing
      <4>3. CASE DeviceStep
        BY Zenon, <4>3, <1>t DEF DeviceStep, DeviceComplete, ringVars, enqueuing, CoreInv, SchedulerInv,
           SubmitInv
      <4> QED BY Zenon, <2>4, <4>1, <4>2, <4>3
    <3> QED BY Zenon, <2>1, <3>1, ExitFrame
  <2>5. CASE Advance
    <3>1. /\ phase = "notify" /\ phase' = "base" /\ cons_head' = cons_head + sh_accumulated
          /\ submitted_ios' = submitted_ios + sh_accumulated
          /\ merged_ios' = merged_ios + Cardinality(g_starts)
          /\ UNCHANGED <<shutdown, pc, prod_tail>>
      BY Zenon, <2>5 DEF Advance, GotoPhase, enqueuing
    <3>2. Cardinality(g_starts) \in Nat /\ Cardinality(g_starts) <= sh_accumulated
      <4>1. /\ g_starts \in SUBSET (0 .. sh_accumulated - 1) /\ Cardinality(g_starts) \in Nat
        BY Zenon, <3>1, <1>t, GroupFacts DEF Positions
      <4>2. /\ IsFiniteSet(0 .. sh_accumulated - 1)
            /\ Cardinality(0 .. sh_accumulated - 1) = sh_accumulated
        BY Zenon, <1>t, IntervalSize
      <4>3. Cardinality(g_starts) <= Cardinality(0 .. sh_accumulated - 1)
        BY Zenon, <4>1, <4>2, FS_Subset
      <4> QED BY Zenon, <4>1, <4>2, <4>3
    <3>3. submitted_ios' = cons_head' /\ merged_ios' <= submitted_ios'
      BY <3>1, <3>2, <1>t DEF ExitInv
    <3>4. LaunchEnded' = LaunchEnded
      BY Zenon, <2>1, <3>1 DEF LaunchEnded, Ended
    <3> QED BY Zenon, <2>1, <3>1, <3>3, <3>4 DEF ExitInv
  <2> QED BY Zenon, <1>5, <2>2, <2>3, <2>4, <2>5 DEF SchedStep, Gather
<1> QED BY Zenon, <1>1, <1>2, <1>3, <1>4, <1>5 DEF Next, SchedulerStep, ControllerStep, Terminated

=============================================================================
