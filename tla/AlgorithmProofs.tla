-------------------------- MODULE AlgorithmProofs -------------------------
(***************************************************************************)
(* What the other proofs rest on.  First the pure parts of the system, for *)
(* every input: remainders (ring indices are slot numbers modulo the       *)
(* capacity), the pages a worker addresses (ae_index gives every request of*)
(* a launch a page of its own), and the merge of a batch (the groups cover *)
(* the sorted positions without gaps, and a group is one contiguous range).*)
(* Then what the invariants say of a single state, and what a step that    *)
(* leaves the ring, the batch or the groups alone keeps.                   *)
(***************************************************************************)
EXTENDS SchedInv, Transfer, WellFoundedInduction, FiniteSetTheorems, TLAPS

(* Remainders and least elements *)

\* Quotient and remainder determine the dividend.
LEMMA DivMod ==
  ASSUME NEW C \in Nat \ {0}, NEW x \in Nat
  PROVE  /\ x = C * (x \div C) + (x % C)
         /\ x \div C \in Nat
         /\ x % C \in 0 .. C - 1
  OBVIOUS

\* A remainder leaves smaller numbers alone: no wrap below the modulus.
LEMMA ModSmall ==
  ASSUME NEW C \in Nat \ {0}, NEW x \in 0 .. C - 1
  PROVE  x % C = x
  OBVIOUS

\* A product grows with its second factor.
LEMMA MulStep ==
  ASSUME NEW C \in Nat \ {0}, NEW a \in Nat, NEW b \in Nat, a < b
  PROVE  C * a + C <= C * b
<1>1. PICK d \in Nat : b = a + 1 + d
  <2>1. b - a - 1 \in Nat /\ b = a + 1 + (b - a - 1)
    OBVIOUS
  <2> QED BY Zenon, <2>1
<1>2. C * b = C * a + C + C * d
  BY <1>1
<1>3. C * d >= 0
  OBVIOUS
<1> QED BY <1>2, <1>3

\* Two numbers that share a ring index are a whole lap apart.
LEMMA ModLap ==
  ASSUME NEW C \in Nat \ {0}, NEW x \in Nat, NEW y \in Nat,
         x % C = y % C, x < y
  PROVE  x + C <= y
<1> DEFINE a == x \div C
           b == y \div C
           r == x % C
<1>1. x = C * a + r /\ a \in Nat
  BY DivMod, Zenon
<1>2. y = C * b + r /\ b \in Nat
  BY DivMod, Zenon
<1>3. C * a \in Nat /\ C * b \in Nat /\ r \in Nat
  BY <1>1, <1>2, DivMod
<1> HIDE DEF a, b, r
<1>4. a < b
  <2>1. SUFFICES ASSUME b <= a PROVE FALSE
    BY <1>1, <1>2
  <2>2. CASE a = b
    BY <2>2, <1>1, <1>2, <1>3
  <2>3. CASE b < a
    BY <2>3, <1>1, <1>2, <1>3, MulStep
  <2> QED BY <2>1, <2>2, <2>3, <1>1, <1>2
<1>5. C * a + C <= C * b
  BY Zenon, <1>1, <1>2, <1>4, MulStep
<1> QED BY <1>1, <1>2, <1>3, <1>5

\* Within one lap, the ring index identifies the slot.
LEMMA ModUnique ==
  ASSUME NEW C \in Nat \ {0}, NEW x \in Nat, NEW y \in Nat,
         x % C = y % C, x < y + C, y < x + C
  PROVE  x = y
<1>1. x < y => x + C <= y
  BY ModLap, Zenon
<1>2. y < x => y + C <= x
  BY ModLap, Zenon
<1> QED BY <1>1, <1>2

\* Every non-empty set of naturals has a least element.
LEMMA LeastNat ==
  ASSUME NEW T \in SUBSET Nat, T # {}
  PROVE  \E x \in T : \A y \in T : x <= y
<1>1. PICK x \in T : \A y \in T : ~ (<<y, x>> \in OpToRel(<, Nat))
  BY Zenon, WFMin, NatLessThanWellFounded
<1>2. \A y \in T : ~(y < x)
  BY <1>1, Zenon DEF OpToRel
<1> QED BY <1>2

\* Every non-empty bounded set of naturals has a greatest element.
LEMMA GreatestNat ==
  ASSUME NEW T \in SUBSET Nat, T # {}, NEW n \in Nat, \A y \in T : y <= n
  PROVE  \E x \in T : \A y \in T : y <= x
<1> DEFINE D == {n - y : y \in T}
<1>1. D \in SUBSET Nat /\ D # {}
  <2>1. \A y \in T : n - y \in Nat
    OBVIOUS
  <2>2. PICK y \in T : TRUE
    BY Zenon
  <2>3. n - y \in D
    BY Zenon, <2>2
  <2> QED BY Zenon, <2>1, <2>3
<1>2. PICK d \in D : \A e \in D : d <= e
  BY <1>1, LeastNat, Zenon
<1>3. PICK x \in T : d = n - x
  BY Zenon, <1>2
<1>4. \A y \in T : n - x <= n - y
  BY Zenon, <1>2, <1>3
<1> QED BY <1>4

---------------------------------------------------------------------------
(* ae_index *)

\* The two digits of a number are unique.
LEMMA DigitsUnique ==
  ASSUME NEW t \in Nat \ {0}, NEW m \in Nat, NEW k \in Nat,
         NEW r \in 0 .. t - 1, NEW q \in 0 .. t - 1, t * m + r = t * k + q
  PROVE  m = k /\ r = q
<1>1. t * m \in Nat /\ t * k \in Nat
  OBVIOUS
<1>2. m < k => t * m + t <= t * k
  BY Zenon, MulStep
<1>3. k < m => t * k + t <= t * m
  BY Zenon, MulStep
<1>4. m = k
  BY <1>1, <1>2, <1>3
<1> QED BY <1>1, <1>4

\* The tile the code uses is not zero.
LEMMA TileFacts ==
  ASSUME NEW C \in Nat \ {0}, NEW tile \in Nat
  PROVE  EffectiveTile(tile, C) \in Nat \ {0}
  BY Zenon DEF EffectiveTile

\* The share of one worker, as the code computes it.
LEMMA ShareFacts ==
  ASSUME NEW W \in Nat \ {0}, NEW C \in Nat \ {0}
  PROVE  (W * C) \div W = C
<1> DEFINE q == (W * C) \div W
           r == (W * C) % W
<1>1. W * C \in Nat
  OBVIOUS
<1>2. W * C = W * q + r /\ q \in Nat /\ r \in 0 .. W - 1
  BY <1>1, DivMod, Zenon
<1> HIDE DEF q, r
<1>3. W * C + 0 = W * q + r /\ 0 \in 0 .. W - 1
  BY <1>2
<1>4. C = q
  BY Zenon, <1>2, <1>3, DigitsUnique
<1> QED BY Zenon, <1>4 DEF q

\* Two requests of a launch that get the same index are the same request.
THEOREM IndexInjective ==
  ASSUME NEW W \in Nat \ {0}, NEW C \in Nat \ {0}, NEW tile \in Nat,
         NEW v \in 0 .. W - 1, NEW w \in 0 .. W - 1,
         NEW i \in 0 .. C - 1, NEW j \in 0 .. C - 1,
         ae_index(v, i, W * C, W, tile) = ae_index(w, j, W * C, W, tile)
  PROVE  v = w /\ i = j
<1> DEFINE t == EffectiveTile(tile, C)
<1>1. t \in Nat \ {0}
  BY Zenon, TileFacts
<1> DEFINE a == i \div t
           b == j \div t
<1>2. /\ (a * W + v) * t + (i % t) = (b * W + w) * t + (j % t)
  BY Zenon, ShareFacts DEF ae_index
<1> HIDE DEF t
<1>3. /\ i = t * a + (i % t) /\ a \in Nat /\ i % t \in 0 .. t - 1
      /\ j = t * b + (j % t) /\ b \in Nat /\ j % t \in 0 .. t - 1
  <2>1. i \in Nat /\ j \in Nat
    OBVIOUS
  <2>2. i = t * (i \div t) + (i % t) /\ i \div t \in Nat /\ i % t \in 0 .. t - 1
    BY <2>1, <1>1, DivMod, Zenon
  <2>3. j = t * (j \div t) + (j % t) /\ j \div t \in Nat /\ j % t \in 0 .. t - 1
    BY <2>1, <1>1, DivMod, Zenon
  <2> QED BY <2>2, <2>3, Zenon
<1> HIDE DEF a, b
<1>4. a * W + v \in Nat /\ b * W + w \in Nat /\ W * a + v = a * W + v /\ W * b + w = b * W + w
  BY <1>3
<1>5. t * (a * W + v) + (i % t) = t * (b * W + w) + (j % t)
  BY <1>1, <1>2, <1>3, <1>4
<1>6. a * W + v = b * W + w /\ i % t = j % t
  <2> DEFINE m == a * W + v
             k == b * W + w
             r == i % t
             q == j % t
  <2>1. m \in Nat /\ k \in Nat /\ r \in 0 .. t - 1 /\ q \in 0 .. t - 1
    BY Zenon, <1>3, <1>4
  <2>2. t * m + r = t * k + q
    BY Zenon, <1>5
  <2> HIDE DEF m, k, r, q
  <2>3. m = k /\ r = q
    BY <2>1, <2>2, <1>1, DigitsUnique
  <2> QED BY Zenon, <2>3 DEF m, k, r, q
<1>7. a = b /\ v = w
  BY <1>3, <1>4, <1>6, DigitsUnique
<1> QED BY Zenon, <1>3, <1>6, <1>7

\* Every index is inside the launch's range.
THEOREM IndexInRange ==
  ASSUME NEW W \in Nat \ {0}, NEW C \in Nat \ {0}, NEW tile \in Nat,
         C % EffectiveTile(tile, C) = 0, NEW w \in 0 .. W - 1, NEW i \in 0 .. C - 1
  PROVE  ae_index(w, i, W * C, W, tile) \in 0 .. W * C - 1
<1> DEFINE t == EffectiveTile(tile, C)
<1>1. t \in Nat \ {0}
  BY Zenon, TileFacts
<1> DEFINE a == i \div t
           c == C \div t
           m == a * W + w
<1>2. ae_index(w, i, W * C, W, tile) = m * t + (i % t)
  BY Zenon, ShareFacts DEF ae_index
<1> HIDE DEF t
<1>3. /\ i = t * a + (i % t) /\ a \in Nat /\ i % t \in 0 .. t - 1
      /\ C = t * c + (C % t) /\ c \in Nat
  <2>1. i \in Nat /\ C \in Nat
    OBVIOUS
  <2>2. i = t * (i \div t) + (i % t) /\ i \div t \in Nat /\ i % t \in 0 .. t - 1
    BY <2>1, <1>1, DivMod, Zenon
  <2>3. C = t * (C \div t) + (C % t) /\ C \div t \in Nat
    BY <2>1, <1>1, DivMod, Zenon
  <2> QED BY <2>2, <2>3, Zenon
<1> HIDE DEF a, c
<1>z. C % t = 0
  BY Zenon DEF t
<1>4. C = t * c /\ t * c \in Nat /\ t * a \in Nat
  BY <1>1, <1>3, <1>z
<1>5. a < c
  <2>1. c < a => t * c + t <= t * a
    BY Zenon, <1>1, <1>3, MulStep
  <2> QED BY <2>1, <1>1, <1>3, <1>4
<1>6. W * a + W <= W * c /\ W * a \in Nat /\ W * c \in Nat /\ W * a = a * W
  BY <1>3, <1>5, MulStep
<1>7. m \in Nat /\ m < W * c
  BY <1>6
<1> HIDE DEF m
<1>8. t * m + t <= t * (W * c) /\ t * m \in Nat /\ t * m = m * t
  BY <1>1, <1>6, <1>7, MulStep
<1>9. t * (W * c) = W * C
  BY <1>1, <1>3, <1>4
<1> QED BY <1>1, <1>2, <1>3, <1>8, <1>9

---------------------------------------------------------------------------
(* ae_worker *)

\* The digits ae_worker exchanges: lane and warp of a worker of whole warps.
LEMMA WarpDigits ==
  ASSUME NEW S \in Nat \ {0}, NEW W \in Nat \ {0}, W >= S, W % S = 0,
         NEW w \in 0 .. W - 1
  PROVE  /\ W \div S \in Nat \ {0} /\ W = S * (W \div S)
         /\ w % S \in 0 .. S - 1 /\ w \div S \in 0 .. (W \div S) - 1
         /\ w = S * (w \div S) + (w % S)
<1> DEFINE k == W \div S
           q == w \div S
           r == w % S
<1>1. W = S * k + 0 /\ k \in Nat
  BY Zenon, DivMod
<1>2. w = S * q + r /\ q \in Nat /\ r \in 0 .. S - 1
  <2>1. w \in Nat
    OBVIOUS
  <2> QED BY <2>1, DivMod, Zenon
<1> HIDE DEF k, q, r
<1>3. k # 0
  <2>1. k = 0 => S * k = 0
    OBVIOUS
  <2> QED BY <2>1, <1>1
<1>4. q < k
  <2>1. SUFFICES ASSUME k <= q PROVE FALSE
    BY <1>1, <1>2
  <2>2. k = q \/ S * k + S <= S * q
    BY <2>1, <1>1, <1>2, MulStep
  <2>3. S * k \in Nat /\ S * q \in Nat
    BY <1>1, <1>2
  <2> QED BY <2>2, <2>3, <1>1, <1>2
<1>5. k \in Nat \ {0} /\ W = S * k /\ r \in 0 .. S - 1 /\ q \in 0 .. k - 1 /\ w = S * q + r
  <2>1. S * k \in Nat
    BY <1>1
  <2> QED BY <2>1, <1>1, <1>2, <1>3, <1>4
<1> QED BY <1>5, Zenon DEF k, q, r

\* A transposed worker number is a worker number.
LEMMA WorkerInRange ==
  ASSUME NEW S \in Nat \ {0}, NEW W \in Nat \ {0}, NEW transpose \in BOOLEAN,
         transpose /\ W >= S => W % S = 0, NEW w \in 0 .. W - 1
  PROVE  ae_worker(w, W, transpose, S) \in 0 .. W - 1
<1>1. CASE ~(transpose /\ W >= S)
  BY Zenon, <1>1 DEF ae_worker
<1>2. CASE transpose /\ W >= S
  <2> DEFINE k == W \div S
             q == w \div S
             r == w % S
  <2>1. ae_worker(w, W, transpose, S) = r * k + q
    BY Zenon, <1>2 DEF ae_worker
  <2>2. k \in Nat \ {0} /\ W = S * k /\ r \in 0 .. S - 1 /\ q \in 0 .. k - 1
    BY <1>2, WarpDigits, Zenon
  <2> HIDE DEF k, q, r
  <2>3. k * r + k <= k * S
    <3>1. r \in Nat /\ S \in Nat /\ r < S
      BY <2>2
    <3> QED BY Zenon, <3>1, <2>2, MulStep
  <2>4. k * r = r * k /\ k * S = S * k /\ r * k \in Nat
    BY <2>2
  <2> QED BY <2>1, <2>2, <2>3, <2>4
<1> QED BY Zenon, <1>1, <1>2

\* Transposing ownership gives every worker a place of its own: with
\* WorkerInRange, the workers of a launch own the same pages in either order.
THEOREM WorkerInjective ==
  ASSUME NEW S \in Nat \ {0}, NEW W \in Nat \ {0}, NEW transpose \in BOOLEAN,
         transpose /\ W >= S => W % S = 0,
         NEW v \in 0 .. W - 1, NEW w \in 0 .. W - 1,
         ae_worker(v, W, transpose, S) = ae_worker(w, W, transpose, S)
  PROVE  v = w
<1>1. CASE ~(transpose /\ W >= S)
  BY Zenon, <1>1 DEF ae_worker
<1>2. CASE transpose /\ W >= S
  <2> DEFINE k == W \div S
             a == v \div S
             x == v % S
             b == w \div S
             y == w % S
  <2>1. x * k + a = y * k + b
    BY Zenon, <1>2 DEF ae_worker
  <2>2. k \in Nat \ {0} /\ x \in 0 .. S - 1 /\ a \in 0 .. k - 1 /\ v = S * a + x
    BY <1>2, WarpDigits, Zenon
  <2>3. y \in 0 .. S - 1 /\ b \in 0 .. k - 1 /\ w = S * b + y
    BY <1>2, WarpDigits, Zenon
  <2> HIDE DEF k, a, x, b, y
  <2>4. k * x + a = k * y + b
    <3>1. x * k = k * x /\ y * k = k * y
      BY <2>2, <2>3
    <3> QED BY Zenon, <3>1, <2>1
  <2>5. x = y /\ a = b
    <3>1. x \in Nat /\ y \in Nat
      BY <2>2, <2>3
    <3> QED BY <3>1, <2>2, <2>3, <2>4, DigitsUnique
  <2> QED BY Zenon, <2>2, <2>3, <2>5
<1> QED BY Zenon, <1>1, <1>2

---------------------------------------------------------------------------
(* The merge of a batch *)

\* A group ends after its start, at the next start or at the end of the batch.
LEMMA GroupEndFacts ==
  ASSUME NEW n \in Nat, NEW starts \in SUBSET Positions(n), NEW s \in starts
  PROVE  /\ GroupEnd(starts, s, n) \in starts \cup {n}
         /\ GroupEnd(starts, s, n) \in s + 1 .. n
         /\ \A x \in starts : x > s => GroupEnd(starts, s, n) <= x
<1> DEFINE T == {x \in starts \cup {n} : x > s}
<1>1. \A x \in starts : x \in Nat /\ x < n
  BY DEF Positions
<1>2. PICK e \in T : \A y \in T : e <= y
  <2>1. T \in SUBSET Nat
    BY Zenon, <1>1
  <2>2. n \in T
    BY Zenon, <1>1
  <2> QED BY <2>1, <2>2, LeastNat, Zenon
<1>3. e \in starts \cup {n} /\ e > s /\ \A x \in starts : x > s => e <= x
  BY Zenon, <1>2
<1>4. /\ GroupEnd(starts, s, n) \in starts \cup {n}
      /\ GroupEnd(starts, s, n) > s
      /\ \A x \in starts : x > s => GroupEnd(starts, s, n) <= x
  BY Zenon, <1>3 DEF GroupEnd
<1>5. GroupEnd(starts, s, n) \in s + 1 .. n
  <2>1. GroupEnd(starts, s, n) \in Nat /\ GroupEnd(starts, s, n) <= n /\ s \in Nat
    BY <1>1, <1>4
  <2> QED BY <2>1, <1>4
<1> QED BY Zenon, <1>4, <1>5

\* Every position belongs to a group: none is lost by the cuts.
LEMMA GroupsCover ==
  ASSUME NEW n \in Nat, NEW starts \in SUBSET Positions(n), 0 \in starts,
         NEW pos \in Positions(n)
  PROVE  \E s \in starts : pos \in s .. GroupEnd(starts, s, n) - 1
<1> DEFINE T == {x \in starts : x <= pos}
<1>1. pos \in Nat /\ pos < n /\ \A x \in starts : x \in Nat
  BY DEF Positions
<1>2. PICK s \in T : \A y \in T : y <= s
  <2>1. T \in SUBSET Nat /\ \A y \in T : y <= pos
    BY <1>1, Zenon
  <2>2. T # {}
    <3>1. 0 <= pos
      BY <1>1
    <3> QED BY Zenon, <3>1
  <2> HIDE DEF T
  <2> QED BY <2>1, <2>2, <1>1, GreatestNat, Zenon
<1>3. s \in starts /\ s <= pos /\ \A x \in starts : x <= pos => x <= s
  BY Zenon, <1>2
<1> HIDE DEF T
<1>4. /\ GroupEnd(starts, s, n) \in starts \cup {n}
      /\ GroupEnd(starts, s, n) \in s + 1 .. n
  BY <1>3, GroupEndFacts, Zenon
<1>5. s \in Nat
  BY <1>3 DEF Positions
<1>6. GroupEnd(starts, s, n) > pos
  <2>1. CASE GroupEnd(starts, s, n) = n
    BY Zenon, <2>1, <1>1
  <2>2. CASE GroupEnd(starts, s, n) \in starts
    BY <2>2, <1>1, <1>3, <1>4, <1>5
  <2> QED BY Zenon, <2>1, <2>2, <1>4
<1>7. GroupEnd(starts, s, n) \in Nat
  BY <1>4, <1>5
<1> HIDE DEF GroupEnd
<1>8. pos \in s .. GroupEnd(starts, s, n) - 1
  BY <1>1, <1>3, <1>5, <1>6, <1>7
<1> QED BY Zenon, <1>3, <1>8

\* The groups are numbered from 0 in position order.
LEMMA GroupNumberFacts ==
  ASSUME NEW n \in Nat, NEW starts \in SUBSET Positions(n), NEW s \in starts
  PROVE  /\ IsFiniteSet(starts) /\ Cardinality(starts) \in Nat
         /\ GroupNumber(starts, s) \in Nat
         /\ GroupNumber(starts, s) < Cardinality(starts)
<1> DEFINE B == {x \in starts : x < s}
<1>1. IsFiniteSet(Positions(n))
  BY FS_Interval DEF Positions
<1>2. IsFiniteSet(starts)
  BY Zenon, <1>1, FS_Subset
<1>3. B \in SUBSET starts /\ B # starts
  BY DEF Positions
<1>4. IsFiniteSet(B) /\ Cardinality(B) \in Nat /\ Cardinality(starts) \in Nat
  BY Zenon, <1>2, <1>3, FS_Subset, FS_CardinalityType
<1>5. Cardinality(B) < Cardinality(starts)
  BY <1>2, <1>3, <1>4, FS_Subset
<1> QED BY Zenon, <1>2, <1>4, <1>5 DEF GroupNumber

\* Inside a group every request starts where the previous one ended.
LEMMA RunIsContiguous ==
  ASSUME NEW n \in Nat, NEW keys \in [Positions(n) -> Nat],
         NEW bytes, bytes = [pos \in Positions(n) |-> 1],
         NEW starts \in SUBSET Positions(n), Boundaries(keys, bytes, n) \subseteq starts,
         NEW s \in starts, NEW pos \in s .. GroupEnd(starts, s, n) - 1
  PROVE  pos \in Positions(n) /\ keys[pos] = keys[s] + (pos - s)
<1> DEFINE e == GroupEnd(starts, s, n)
           T == {x \in s .. e - 1 : keys[x] # keys[s] + (x - s)}
<1>1. e \in s + 1 .. n /\ s \in Nat /\ \A x \in starts : x > s => e <= x
  BY GroupEndFacts DEF Positions
<1> HIDE DEF e
<1>2. \A x \in s .. e - 1 : x \in Positions(n) /\ x \in Nat
  BY <1>1 DEF Positions
<1>3. T = {}
  <2>1. SUFFICES ASSUME T # {} PROVE FALSE
    BY Zenon
  <2>2. T \in SUBSET Nat
    BY Zenon, <1>2
  <2>3. PICK x \in T : \A y \in T : x <= y
    BY <2>1, <2>2, LeastNat, Zenon
  <2>4. x \in s .. e - 1 /\ keys[x] # keys[s] + (x - s)
    BY Zenon, <2>3
  <2>5. keys[s] \in Nat
    BY Zenon DEF Positions
  <2>6. x > s /\ x \in Nat
    BY <2>4, <2>5, <1>1
  <2>7. x - 1 \in s .. e - 1 /\ x - 1 \notin T
    BY <2>3, <2>4, <2>6, <1>1
  <2>8. keys[x - 1] = keys[s] + (x - 1 - s)
    BY Zenon, <2>7
  <2>9. x \notin Boundaries(keys, bytes, n)
    <3>1. ~(e <= x)
      BY <2>4, <2>6, <1>1
    <3> QED BY <3>1, <2>6, <1>1, Zenon
  <2>10. keys[x] = keys[x - 1] + 1
    BY Zenon, <2>9, <2>4, <2>7, <1>2 DEF Boundaries, IsBoundary
  <2> QED BY <2>4, <2>5, <2>6, <2>8, <2>10, <1>1
<1> QED BY Zenon, <1>2, <1>3 DEF e

\* The refined starts are positions and keep every boundary.
LEMMA GroupStartsFacts ==
  ASSUME NEW n \in Nat, NEW keys, NEW bytes \in [Positions(n) -> Nat \ {0}],
         NEW target \in Nat
  PROVE  /\ GroupStarts(keys, bytes, n, target) \in SUBSET Positions(n)
         /\ Boundaries(keys, bytes, n) \subseteq GroupStarts(keys, bytes, n, target)
<1> DEFINE C == Boundaries(keys, bytes, n)
<1>1. C \in SUBSET Positions(n)
  BY Zenon DEF Boundaries
<1> HIDE DEF C
<1>2. ASSUME NEW s \in C
      PROVE  /\ s \in CutPoints(keys, bytes, s, GroupEnd(C, s, n), target)
             /\ CutPoints(keys, bytes, s, GroupEnd(C, s, n), target) \subseteq Positions(n)
  <2> DEFINE e == GroupEnd(C, s, n)
             d == Stride(bytes[s], target)
  <2>1. e \in s + 1 .. n /\ s \in Positions(n) /\ s \in Nat
    BY <1>1, GroupEndFacts DEF Positions
  <2> HIDE DEF e
  <2>2. d \in Nat \ {0}
    <3>1. bytes[s] \in Nat \ {0}
      BY Zenon, <2>1
    <3>2. target \div bytes[s] \in Nat
      BY <3>1, DivMod, Zenon
    <3> QED BY <3>2 DEF Stride
  <2> HIDE DEF d
  <2>3. (s - s) % d = 0
    BY <2>1, <2>2, ModSmall
  <2>4. s \in s .. e - 1 /\ s .. e - 1 \subseteq Positions(n)
    BY <2>1 DEF Positions
  <2>5. /\ s \in CutPoints(keys, bytes, s, e, target)
        /\ CutPoints(keys, bytes, s, e, target) \subseteq s .. e - 1
    BY Zenon, <2>3, <2>4 DEF CutPoints, d
  <2> QED BY Zenon, <2>4, <2>5 DEF e
<1> QED BY Zenon, <1>2 DEF GroupStarts, Refine, C

\* The sorted keys never decrease, and every drained request has a position.
LEMMA StableOrderFacts ==
  ASSUME NEW n \in Nat, NEW keys \in [Positions(n) -> Nat],
         NEW ord \in StableOrders(keys, n)
  PROVE  /\ ord \in [Positions(n) -> Positions(n)]
         /\ \A i \in Positions(n) : \E pos \in Positions(n) : ord[pos] = i
         /\ \A a, b \in Positions(n) : a <= b => keys[ord[a]] <= keys[ord[b]]
<1>1. /\ ord \in [Positions(n) -> Positions(n)] /\ IsStableOrder(ord, keys, n)
  BY Zenon DEF StableOrders
<1>2. ASSUME NEW a \in Positions(n), NEW b \in Positions(n), a <= b
      PROVE  keys[ord[a]] <= keys[ord[b]]
  <2>1. keys[ord[a]] \in Nat /\ keys[ord[b]] \in Nat
    BY Zenon, <1>1
  <2>2. a < b => Precedes(keys, ord[a], ord[b])
    BY Zenon, <1>1 DEF IsStableOrder
  <2> QED BY SMTT(20), <1>2, <2>1, <2>2 DEF Precedes, Positions
<1> QED BY Zenon, <1>1, <1>2 DEF IsStableOrder

\* The order is a permutation: no drained request has two positions.
LEMMA StableOrderInjective ==
  ASSUME NEW n \in Nat, NEW keys \in [Positions(n) -> Nat],
         NEW ord \in StableOrders(keys, n),
         NEW a \in Positions(n), NEW b \in Positions(n), ord[a] = ord[b]
  PROVE  a = b
<1>1. ord \in [Positions(n) -> Positions(n)] /\ IsStableOrder(ord, keys, n)
  BY Zenon DEF StableOrders
<1>2. keys[ord[a]] \in Nat /\ ord[a] \in Nat /\ a \in Nat /\ b \in Nat
  BY <1>1 DEF Positions
<1>3. /\ a < b => Precedes(keys, ord[a], ord[b])
      /\ b < a => Precedes(keys, ord[b], ord[a])
  BY Zenon, <1>1 DEF IsStableOrder
<1> QED BY <1>2, <1>3 DEF Precedes

\* No position belongs to two groups.
LEMMA GroupsDisjoint ==
  ASSUME NEW n \in Nat, NEW starts \in SUBSET Positions(n),
         NEW s \in starts, NEW t \in starts,
         NEW pos \in s .. GroupEnd(starts, s, n) - 1,
         pos \in t .. GroupEnd(starts, t, n) - 1
  PROVE  s = t
<1>1. s \in Nat /\ t \in Nat
  BY DEF Positions
<1>2. /\ GroupEnd(starts, s, n) \in s + 1 .. n /\ (t > s => GroupEnd(starts, s, n) <= t)
      /\ GroupEnd(starts, t, n) \in t + 1 .. n /\ (s > t => GroupEnd(starts, t, n) <= s)
  BY Zenon, GroupEndFacts
<1> HIDE DEF GroupEnd
<1> QED BY <1>1, <1>2

\* The number of a group grows with its start.
LEMMA GroupNumberOrder ==
  ASSUME NEW n \in Nat, NEW starts \in SUBSET Positions(n),
         NEW s \in starts, NEW t \in starts, GroupNumber(starts, s) = GroupNumber(starts, t)
  PROVE  s = t
<1>1. s \in Nat /\ t \in Nat /\ IsFiniteSet(starts)
  BY GroupNumberFacts DEF Positions
<1>2. ASSUME NEW x \in starts, NEW y \in starts, x < y
      PROVE  GroupNumber(starts, x) < GroupNumber(starts, y)
  <2> DEFINE A == {z \in starts : z < x}
             B == {z \in starts : z < y}
  <2>1. \A z \in starts : z \in Nat
    BY DEF Positions
  <2>2. A \in SUBSET B /\ A # B /\ A \in SUBSET starts /\ B \in SUBSET starts
    <3>1. x \in B /\ x \notin A
      BY <1>2, <2>1
    <3> QED BY <3>1, <2>1, <1>2
  <2> HIDE DEF A, B
  <2>3. IsFiniteSet(A) /\ IsFiniteSet(B)
    BY Zenon, <2>2, <1>1, FS_Subset
  <2>4. Cardinality(A) \in Nat /\ Cardinality(B) \in Nat
    BY Zenon, <2>3, FS_CardinalityType
  <2>5. Cardinality(A) <= Cardinality(B) /\ Cardinality(A) # Cardinality(B)
    BY Zenon, <2>2, <2>3, FS_Subset
  <2> QED BY <2>4, <2>5 DEF GroupNumber, A, B
<1>3. GroupNumber(starts, s) \in Nat /\ GroupNumber(starts, t) \in Nat
  BY Zenon, GroupNumberFacts
<1> HIDE DEF GroupNumber
<1>4. ~(s < t) /\ ~(t < s)
  BY <1>2, <1>3
<1> QED BY <1>1, <1>4

(***************************************************************************)
(* With requests of one size, no group holds more than the merge target:   *)
(* runs above it are cut every target requests.                            *)
(***************************************************************************)
THEOREM GroupsWithinMergeTarget ==
  ASSUME NEW n \in Nat, NEW keys \in [Positions(n) -> Nat],
         NEW bytes, bytes = [pos \in Positions(n) |-> 1], NEW target \in Nat \ {0},
         NEW s \in GroupStarts(keys, bytes, n, target)
  PROVE  GroupEnd(GroupStarts(keys, bytes, n, target), s, n) - s <= target
<1> DEFINE C == Boundaries(keys, bytes, n)
           G == GroupStarts(keys, bytes, n, target)
           E == GroupEnd(G, s, n)
<1>1. C \in SUBSET Positions(n) /\ G \in SUBSET Positions(n) /\ C \subseteq G
  BY GroupStartsFacts DEF Boundaries
<1>2. PICK c \in C : s \in CutPoints(keys, bytes, c, GroupEnd(C, c, n), target)
  BY Zenon DEF GroupStarts, Refine
<1> DEFINE e == GroupEnd(C, c, n)
<1>p. \A pos \in c .. e - 1 :
        pos \in CutPoints(keys, bytes, c, e, target) => pos \in G
  BY Zenon DEF GroupStarts, Refine
<1>3. c \in Nat /\ e \in c + 1 .. n /\ (e \in C \/ e = n)
  <2>1. c \in Positions(n)
    BY Zenon, <1>1
  <2>2. e \in c + 1 .. n /\ (e \in C \/ e = n)
    BY Zenon, <1>1, GroupEndFacts
  <2> HIDE DEF C, e
  <2> QED BY <2>1, <2>2 DEF Positions
<1>4. E \in s + 1 .. n /\ \A x \in G : x > s => E <= x
  BY Zenon, <1>1, GroupEndFacts
<1>5. s \in c .. e - 1
  BY <1>2, <1>3 DEF CutPoints
<1>6. bytes[c] = 1 /\ Stride(1, target) = target
  <2>1. target = 1 * (target \div 1) + (target % 1) /\ target % 1 \in 0 .. 0
    BY DivMod
  <2>2. target \div 1 = target
    BY <2>1
  <2> QED BY Zenon, <2>2, <1>1 DEF Stride
<1>7. RunBytes(keys, bytes, c, e) = e - c
  <2>1. e - 1 \in c .. e - 1
    BY <1>3
  <2>2. e - 1 \in Positions(n) /\ keys[e - 1] = keys[c] + (e - 1 - c)
    BY <2>1, <1>1, RunIsContiguous
  <2>3. keys[c] \in Nat /\ bytes[e - 1] = 1
    BY Zenon, <2>2, <1>1
  <2> QED BY <2>2, <2>3, <1>3 DEF RunBytes
<1> HIDE DEF E, e, G, C
<1>8. E <= e
  <2>1. e \in G \/ e = n
    BY Zenon, <1>1, <1>3
  <2> QED BY <2>1, <1>3, <1>4, <1>5
<1>9. CASE e - c <= target
  BY <1>9, <1>3, <1>4, <1>5, <1>8 DEF E, G
<1>10. CASE e - c > target
  <2>1. \A pos \in c .. e - 1 : (pos - c) % target = 0
                                <=> pos \in CutPoints(keys, bytes, c, e, target)
    BY <1>3, <1>6, <1>7, <1>10 DEF CutPoints
  <2>2. (s - c) % target = 0
    BY Zenon, <2>1, <1>2, <1>5 DEF e
  <2>3. CASE s + target < e
    <3>1. ((s + target) - c) % target = 0
      <4> DEFINE x == s - c
                 y == (s + target) - c
                 d == x \div target
                 f == y \div target
                 r == y % target
      <4>1. x \in Nat /\ y \in Nat /\ y = x + target
        BY <1>3, <1>5
      <4> HIDE DEF x, y
      <4>2. /\ x = target * d + 0 /\ d \in Nat
            /\ y = target * f + r /\ f \in Nat /\ r \in 0 .. target - 1
        BY Zenon, <4>1, <2>2, DivMod DEF x
      <4> HIDE DEF d, f, r
      <4>3. target * (d + 1) + 0 = target * f + r /\ d + 1 \in Nat /\ 0 \in 0 .. target - 1
        BY <4>1, <4>2
      <4>4. r = 0
        BY Zenon, <4>2, <4>3, DigitsUnique
      <4> QED BY Zenon, <4>4 DEF r, y
    <3>2. s + target \in c .. e - 1 /\ s + target > s
      BY <2>3, <1>3, <1>5
    <3>3. s + target \in G
      <4> DEFINE u == s + target
      <4>1. (u - c) % target = 0
        BY <3>1, Zenon
      <4>3. u \in c .. e - 1
        BY Zenon, <3>2
      <4> HIDE DEF u
      <4>2. u \in G
        BY <4>1, <4>3, <2>1, <1>p, Zenon
      <4> QED BY Zenon, <4>2 DEF u
    <3> QED BY <3>2, <3>3, <1>3, <1>4, <1>5 DEF E, G
  <2>4. CASE s + target >= e
    BY <2>4, <1>3, <1>4, <1>5, <1>8 DEF E, G
  <2> QED BY <2>3, <2>4, <1>3, <1>5
<1> QED BY <1>9, <1>10, <1>3

\* An interval from 0 has as many elements as its end says.
LEMMA IntervalSize ==
  ASSUME NEW n \in Nat
  PROVE  IsFiniteSet(0 .. n - 1) /\ Cardinality(0 .. n - 1) = n
<1>1. 0 \in Int /\ n - 1 \in Int
  OBVIOUS
<1>2. /\ IsFiniteSet(0 .. n - 1)
      /\ Cardinality(0 .. n - 1) = IF 0 > n - 1 THEN 0 ELSE (n - 1) - 0 + 1
  BY <1>1, FS_Interval, Zenon
<1> QED BY <1>2

---------------------------------------------------------------------------
(* The ring *)

\* The ring index of a slot.
LEMMA IdxType == ASSUME NEW x \in Nat PROVE Idx(x) \in RingIdx
  BY Zenon, CapacityAssumption, DivMod DEF Idx, RingIdx

\* Two slots within one lap of each other and with one index are the same slot.
LEMMA IdxUnique ==
  ASSUME NEW x \in Nat, NEW y \in Nat, Idx(x) = Idx(y),
         x < y + Capacity, y < x + Capacity
  PROVE  x = y
  BY CapacityAssumption, ModUnique, Zenon DEF Idx

\* Two different slots with one index are at least a lap apart.
LEMMA IdxLap ==
  ASSUME NEW x \in Nat, NEW y \in Nat, Idx(x) = Idx(y), x < y
  PROVE  x + Capacity <= y
  BY CapacityAssumption, ModLap, Zenon DEF Idx

\* Below 2^32 the uint32 comparisons compare the numbers themselves.
LEMMA U32Small == ASSUME NEW x \in 0 .. SeqMod - 1 PROVE U32(x) = x
<1>1. SeqMod \in Nat \ {0}
  BY SeqModAssumption, CapacityAssumption
<1> QED BY Zenon, <1>1, ModSmall DEF U32

\* The slots claimed so far keep their requests when one more is claimed.
LEMMA AskedAppend ==
  ASSUME asked \in Seq(Request_t), NEW e \in Request_t, asked' = Append(asked, e)
  PROVE  /\ asked' \in Seq(Request_t)
         /\ Len(asked') = Len(asked) + 1
         /\ \A s \in 0 .. Len(asked) - 1 : asked'[s + 1] = asked[s + 1]
         /\ asked'[Len(asked) + 1] = e
  BY DEF Asked

\* The owner of a slot past the wait for a full ring is alone at its ring index.
LEMMA SlotsInLapDiffer ==
  ASSUME RingTypeOK, RingInv, NEW p \in Producers,
         pc[p] \in {"clear", "write", "publish"}
  PROVE  /\ my_slot[p] \in cons_head .. prod_tail - 1
         /\ my_slot[p] < cons_head + Capacity
         /\ Idx(my_slot[p]) \in RingIdx
         /\ \A q \in Producers :
              pc[q] \in {"clear", "write", "publish"} /\ q # p
                => Idx(my_slot[q]) # Idx(my_slot[p])
         /\ \A s \in cons_head .. prod_tail - 1 :
              prod_seq[Idx(s)] = s + 1 => Idx(s) # Idx(my_slot[p])
<1>t. /\ prod_tail \in Nat /\ cons_head \in Nat /\ Capacity \in Nat
      /\ my_slot \in [Producers -> Nat] /\ prod_seq \in [RingIdx -> Nat]
  BY Zenon, CapacityAssumption DEF RingTypeOK
<1>1. \A q \in Producers : pc[q] \in {"clear", "write", "publish"} =>
        my_slot[q] \in cons_head .. prod_tail - 1 /\ my_slot[q] < cons_head + Capacity
  BY Zenon DEF RingInv, SlotsOwned, WithinLap, Enqueuing
<1>2. ASSUME NEW q \in Producers, pc[q] \in {"clear", "write", "publish"}, q # p,
             Idx(my_slot[q]) = Idx(my_slot[p])
      PROVE  FALSE
  <2>1. my_slot[q] = my_slot[p]
    BY <1>1, <1>2, <1>t, IdxUnique
  <2> QED BY Zenon, <2>1, <1>2 DEF RingInv, SlotsOwned, Enqueuing
<1>3. ASSUME NEW s \in cons_head .. prod_tail - 1, prod_seq[Idx(s)] = s + 1,
             Idx(s) = Idx(my_slot[p])
      PROVE  FALSE
  <2>1. s \in Nat /\ Idx(s) \in RingIdx
    BY <1>t, IdxType
  <2>2. s + 1 <= cons_head + Capacity
    BY Zenon, <1>3, <2>1, <1>t DEF RingInv, WithinLap
  <2>3. s = my_slot[p]
    BY <1>1, <1>3, <1>t, <2>1, <2>2, IdxUnique
  <2> QED BY Zenon, <2>3, <1>3 DEF RingInv, SlotsOwned, Enqueuing
<1> QED BY Zenon, <1>1, <1>2, <1>3, <1>t, IdxType

---------------------------------------------------------------------------
(* Facts about the state of a run *)

\* The sorted batch, its groups and their commands are functions of these variables.
LEMMA BatchFrame ==
  ASSUME UNCHANGED <<sh_accumulated, gsort, g_vals>>
  PROVE  BatchKeys' = BatchKeys /\ SortedKeys' = SortedKeys /\ SortedBytes' = SortedBytes
  BY Zenon DEF BatchKeys, SortedKeys, SortedBytes

\* Groups and commands are functions of the batch alone.
LEMMA GroupFrame ==
  ASSUME UNCHANGED <<sh_accumulated, gsort, g_vals, g_starts>>
  PROVE  /\ \A s : Command(s)' = Command(s)
         /\ \A s : GroupOf(s)' = GroupOf(s)
<1>1. SortedKeys' = SortedKeys /\ SortedBytes' = SortedBytes
  BY Zenon, BatchFrame
<1>2. \A s : Command(s)' = Command(s)
  BY Zenon, <1>1 DEF Command
<1> QED BY Zenon, <1>2 DEF GroupOf

\* Nothing in the merge and submission state changes.
LEMMA MergeStateFrame ==
  ASSUME SortInv, MergeInv, SubmitInv,
         UNCHANGED <<phase, sh_accumulated, gsort, g_vals, g_starts, gpos, inflight, disk>>
  PROVE  SortInv' /\ MergeInv' /\ SubmitInv'
<1>1. BatchKeys' = BatchKeys /\ SortedKeys' = SortedKeys /\ SortedBytes' = SortedBytes
  BY Zenon, BatchFrame
<1>2. /\ \A s : Command(s)' = Command(s)
      /\ \A s : GroupOf(s)' = GroupOf(s)
  BY Zenon, GroupFrame
<1>3. \A s : GroupDone(s)' = GroupDone(s)
  BY Zenon, <1>2 DEF GroupDone, Performed
<1>4. RoundSize' = RoundSize
  BY Zenon DEF RoundSize, ChunkLeft
<1>5. SortInv'
  BY Zenon, <1>1 DEF SortInv
<1>6. MergeInv'
  BY Zenon, <1>1 DEF MergeInv
<1>7. SubmitInv'
  BY Zenon, <1>2, <1>3, <1>4 DEF SubmitInv
<1> QED BY Zenon, <1>5, <1>6, <1>7

\* The ring invariant is about the ring's variables only.
LEMMA RingFrame ==
  ASSUME RingTypeOK, RingInv, UNCHANGED ringVars
  PROVE  /\ RingTypeOK' /\ RingInv'
         /\ \A s : Published(s)' = Published(s)
         /\ \A s : Asked(s)' = Asked(s)
<1>1. UNCHANGED <<entries, done_flags, done_seq, prod_seq, prod_tail, cons_head, shutdown,
                  pc, my_slot, my_req, asked>>
  BY Zenon DEF ringVars, memory, enqueuing
<1>2. RingTypeOK'
  BY Zenon, <1>1 DEF RingTypeOK
<1>3. SlotsOwned' /\ WithinLap' /\ PublishedIsAsked'
  BY Zenon, <1>1 DEF RingInv, SlotsOwned, WithinLap, PublishedIsAsked, Enqueuing, Asked
<1> QED BY Zenon, <1>1, <1>2, <1>3 DEF RingInv, Published, Asked

\* The types the drain rounds work with.
LEMMA DrainTypes ==
  ASSUME CoreInv
  PROVE  /\ prod_tail \in Nat /\ cons_head \in Nat /\ cons_head <= prod_tail
         /\ Capacity \in Nat /\ Capacity > 0 /\ MaxDrain \in Nat /\ MaxDrain > 0
         /\ SchedThreads \in Nat /\ SchedThreads > 0
         /\ sh_accumulated \in 0 .. Capacity /\ sh_avail \in 0 .. SchedThreads
         /\ sh_base_head \in Nat /\ ns \in 0 .. MaxDrain /\ sh_drain_ns \in 1 .. MaxDrain
         /\ sh_accumulated \in Nat /\ sh_avail \in Nat
         /\ ballot \in [Lanes -> BOOLEAN] /\ prod_seq \in [RingIdx -> Nat]
         /\ gsort \in [RingIdx -> [off : Nat, pe : Nat]]
         /\ entries \in [RingIdx -> [off : Nat, pe : Nat]]
  BY CapacityAssumption, SchedAssumption
     DEF CoreInv, RingTypeOK, SchedTypeOK, SchedulerInv, DoneSeqInv

\* What is known of the batch once it is sorted.
LEMMA SortedFacts ==
  ASSUME CoreInv, phase \in {"merge", "submit", "poll", "notify"}
  PROVE  /\ sh_accumulated \in Nat /\ sh_accumulated > 0
         /\ g_vals \in [Positions(sh_accumulated) -> Positions(sh_accumulated)]
         /\ \A i \in Positions(sh_accumulated) :
              \E pos \in Positions(sh_accumulated) : g_vals[pos] = i
         /\ SortedKeys \in [Positions(sh_accumulated) -> Nat]
         /\ \A a, b \in Positions(sh_accumulated) : a <= b => SortedKeys[a] <= SortedKeys[b]
         /\ \A i \in Positions(sh_accumulated) : gsort[i] \in Request_t
<1>t. /\ sh_accumulated \in 0 .. Capacity /\ sh_accumulated \in Nat /\ Capacity \in Nat
      /\ cons_head \in Nat /\ prod_tail \in Nat
      /\ gsort \in [RingIdx -> [off : Nat, pe : Nat]]
  BY Zenon, DrainTypes
<1>1. Positions(sh_accumulated) \subseteq RingIdx
  BY <1>t DEF Positions, RingIdx
<1>2. BatchKeys \in [Positions(sh_accumulated) -> Nat]
  BY Zenon, <1>1, <1>t DEF BatchKeys
<1>3. g_vals \in StableOrders(BatchKeys, sh_accumulated)
  BY Zenon DEF CoreInv, SchedulerInv, SortInv
<1>4. /\ g_vals \in [Positions(sh_accumulated) -> Positions(sh_accumulated)]
      /\ \A i \in Positions(sh_accumulated) :
           \E pos \in Positions(sh_accumulated) : g_vals[pos] = i
      /\ \A a, b \in Positions(sh_accumulated) :
           a <= b => BatchKeys[g_vals[a]] <= BatchKeys[g_vals[b]]
  BY Zenon, <1>2, <1>3, <1>t, StableOrderFacts
<1>5. \A a \in Positions(sh_accumulated) :
        SortedKeys[a] = BatchKeys[g_vals[a]] /\ SortedKeys[a] \in Nat
  BY Zenon, <1>4, <1>2 DEF SortedKeys, BatchKeys
<1>6. SortedKeys \in [Positions(sh_accumulated) -> Nat]
  BY Zenon, <1>5 DEF SortedKeys
<1>7. sh_accumulated > 0
  BY Zenon DEF CoreInv, SchedulerInv, BatchNotEmpty
<1>8. ASSUME NEW i \in Positions(sh_accumulated)
      PROVE  gsort[i] \in Request_t
  <2>1. gsort[i] = asked[cons_head + i + 1] /\ cons_head + sh_accumulated <= prod_tail
    BY Zenon DEF CoreInv, SchedulerInv, BatchIsAsked, Positions, Asked
  <2>2. cons_head + i + 1 \in 1 .. Len(asked)
    BY <2>1, <1>t, SMTT(30) DEF CoreInv, RingTypeOK, Positions
  <2>3. asked \in Seq(Request_t)
    BY Zenon DEF CoreInv, RingTypeOK
  <2> QED BY <2>1, <2>2, <2>3
<1> QED BY Zenon, <1>4, <1>5, <1>6, <1>7, <1>8, <1>t

\* What is known of the groups while they are submitted.
LEMMA GroupFacts ==
  ASSUME CoreInv, phase \in {"submit", "poll", "notify"}
  PROVE  /\ g_starts \in SUBSET Positions(sh_accumulated)
         /\ Boundaries(SortedKeys, SortedBytes, sh_accumulated) \subseteq g_starts
         /\ 0 \in g_starts /\ Cardinality(g_starts) \in Nat
         /\ \A s \in g_starts : /\ GroupNumber(g_starts, s) \in Nat
                                /\ GroupNumber(g_starts, s) < Cardinality(g_starts)
<1>1. sh_accumulated \in Nat /\ sh_accumulated > 0
  BY Zenon, SortedFacts
<1>2. /\ g_starts \in SUBSET Positions(sh_accumulated)
      /\ Boundaries(SortedKeys, SortedBytes, sh_accumulated) \subseteq g_starts
  BY Zenon DEF CoreInv, SchedulerInv, MergeInv
<1>3. 0 \in Positions(sh_accumulated)
  BY <1>1 DEF Positions
<1>4. 0 \in g_starts
  BY Zenon, <1>2, <1>3 DEF Boundaries, IsBoundary
<1> QED BY Zenon, <1>1, <1>2, <1>4, GroupNumberFacts

\* A submission round never runs past the last group.
LEMMA RoundSizeFacts ==
  ASSUME CoreInv, phase \in {"submit", "poll"}
  PROVE  /\ gpos \in Nat /\ gpos <= Cardinality(g_starts)
         /\ RoundSize \in Nat /\ gpos + RoundSize <= Cardinality(g_starts)
<1>1. gpos \in Nat /\ gpos <= Cardinality(g_starts) /\ Cardinality(g_starts) \in Nat
  BY Zenon, GroupFacts DEF CoreInv, SchedTypeOK, SchedulerInv, SubmitInv
<1>2. PrpSlots \in Nat /\ KneeLimit \in Nat
  BY Zenon, SchedAssumption
<1>3. ChunkLeft \in Nat
  <2>1. PrpSlots # 0 => gpos % PrpSlots \in 0 .. PrpSlots - 1
    BY Zenon, <1>1, <1>2, DivMod
  <2> QED BY <2>1, <1>2 DEF ChunkLeft
<1>4. RoundSize \in Nat /\ RoundSize <= Cardinality(g_starts) - gpos
  BY <1>1, <1>2, <1>3 DEF RoundSize, Min2
<1> QED BY <1>1, <1>4

\* A merged command covers exactly the pages of its group, one buffer each.
LEMMA CommandFacts ==
  ASSUME CoreInv, phase \in {"submit", "poll"}, NEW s \in g_starts
  PROVE  LET e == GroupEnd(g_starts, s, sh_accumulated) IN
         /\ s \in Nat /\ e \in s + 1 .. sh_accumulated
         /\ Command(s).lba = SortedKeys[s] /\ SortedKeys[s] \in Nat
         /\ Command(s).nblks = e - s
         /\ Command(s).prps \in [0 .. e - s - 1 -> Nat]
         /\ \A pos \in s .. e - 1 : /\ pos \in Positions(sh_accumulated)
                                    /\ SortedKeys[pos] = SortedKeys[s] + (pos - s)
                                    /\ gsort[g_vals[pos]].off = SortedKeys[pos]
                                    /\ gsort[g_vals[pos]] \in Request_t
<1> DEFINE e == GroupEnd(g_starts, s, sh_accumulated)
<1>1. /\ sh_accumulated \in Nat
      /\ g_vals \in [Positions(sh_accumulated) -> Positions(sh_accumulated)]
      /\ SortedKeys \in [Positions(sh_accumulated) -> Nat]
      /\ \A i \in Positions(sh_accumulated) : gsort[i] \in Request_t
  BY Zenon, SortedFacts
<1>2. /\ g_starts \in SUBSET Positions(sh_accumulated)
      /\ Boundaries(SortedKeys, SortedBytes, sh_accumulated) \subseteq g_starts
  BY Zenon, GroupFacts
<1>3. e \in s + 1 .. sh_accumulated
  BY Zenon, <1>1, <1>2, GroupEndFacts
<1>4. s \in Nat /\ s \in Positions(sh_accumulated)
  BY <1>2 DEF Positions
<1>5. \A pos \in s .. e - 1 : pos \in Positions(sh_accumulated)
                              /\ SortedKeys[pos] = SortedKeys[s] + (pos - s)
  <2>1. SortedBytes = [pos \in Positions(sh_accumulated) |-> 1]
    BY Zenon DEF SortedBytes
  <2> QED BY Zenon, <2>1, <1>1, <1>2, RunIsContiguous
<1>6. \A pos \in Positions(sh_accumulated) : /\ gsort[g_vals[pos]].off = SortedKeys[pos]
                                             /\ gsort[g_vals[pos]] \in Request_t
  BY Zenon, <1>1 DEF SortedKeys
<1>7. Command(s).lba = SortedKeys[s] /\ SortedKeys[s] \in Nat
  BY Zenon, <1>1, <1>4 DEF Command
<1> HIDE DEF e
<1>8. Command(s).nblks = e - s
  <2>1. Command(s).nblks = SortedKeys[e - 1] - SortedKeys[s] + SortedBytes[e - 1]
    BY Zenon DEF Command, RunBytes, e
  <2>2. e - 1 \in s .. e - 1
    BY <1>3, <1>4
  <2>3. /\ SortedKeys[e - 1] = SortedKeys[s] + (e - 1 - s)
        /\ SortedBytes[e - 1] = 1
    BY Zenon, <2>2, <1>5 DEF SortedBytes
  <2> QED BY <2>1, <2>3, <1>3, <1>4, <1>7
<1>9. Command(s).prps \in [0 .. e - s - 1 -> Nat]
  <2>1. Command(s).prps = [r \in 0 .. e - s - 1 |-> gsort[g_vals[s + r]].pe]
    BY Zenon DEF Command, e
  <2>2. ASSUME NEW r \in 0 .. e - s - 1
        PROVE  gsort[g_vals[s + r]].pe \in Nat
    <3>1. s + r \in s .. e - 1
      BY <1>3, <1>4
    <3>2. gsort[g_vals[s + r]] \in Request_t
      BY Zenon, <3>1, <1>5, <1>6
    <3> QED BY Zenon, <3>2 DEF Request_t
  <2> QED BY Zenon, <2>1, <2>2
<1> QED BY Zenon, <1>3, <1>4, <1>5, <1>6, <1>7, <1>8, <1>9 DEF e

\* The request at a sorted position is the one of its slot.
LEMMA SortedSlot ==
  ASSUME CoreInv, phase \in {"merge", "submit", "poll", "notify"},
         NEW pos \in Positions(sh_accumulated)
  PROVE  /\ g_vals[pos] \in 0 .. sh_accumulated - 1
         /\ cons_head + g_vals[pos] \in cons_head .. prod_tail - 1
         /\ cons_head + g_vals[pos] \in 0 .. prod_tail - 1
         /\ cons_head + g_vals[pos] < cons_head + sh_accumulated
         /\ gsort[g_vals[pos]] = Asked(cons_head + g_vals[pos])
         /\ gsort[g_vals[pos]] \in Request_t
         /\ SortedKeys[pos] = gsort[g_vals[pos]].off
<1>1. /\ g_vals \in [Positions(sh_accumulated) -> Positions(sh_accumulated)]
      /\ \A i \in Positions(sh_accumulated) : gsort[i] \in Request_t
  BY Zenon, SortedFacts
<1>2. g_vals[pos] \in Positions(sh_accumulated)
  BY Zenon, <1>1
<1> DEFINE k == g_vals[pos]
<1> HIDE DEF k
<1>3. k \in 0 .. sh_accumulated - 1 /\ gsort[k] \in Request_t
  BY Zenon, <1>1, <1>2 DEF Positions, k
<1>4. /\ cons_head + sh_accumulated <= prod_tail
      /\ \A i \in 0 .. sh_accumulated - 1 : gsort[i] = Asked(cons_head + i)
  BY Zenon DEF CoreInv, SchedulerInv, BatchIsAsked
<1>5. gsort[k] = Asked(cons_head + k)
  BY Zenon, <1>3, <1>4
<1>6. /\ cons_head + k \in cons_head .. prod_tail - 1
      /\ cons_head + k \in 0 .. prod_tail - 1
      /\ cons_head + k < cons_head + sh_accumulated
  BY <1>3, <1>4, DrainTypes
<1>7. SortedKeys[pos] = gsort[g_vals[pos]].off
  BY Zenon DEF SortedKeys
<1> QED BY Zenon, <1>3, <1>5, <1>6, <1>7 DEF k

\* The constants of a run.
LEMMA RunConstants ==
  /\ Count \in Nat \ {0} /\ Window \in Nat \ {0} /\ Batches \in Nat \ {0} /\ Tile \in Nat
  /\ Workers \in Nat /\ Producers = 0 .. Workers - 1
  /\ PagesPerLaunch \in Nat /\ PagesPerLaunch = Workers * Count
  /\ Pages = 0 .. Batches * PagesPerLaunch - 1 /\ Pages \subseteq Nat
  /\ PageOrder \in [0 .. PagesPerLaunch - 1 -> 0 .. PagesPerLaunch - 1]
  /\ Count % EffectiveTile(Tile, Count) = 0
<1>1. Workers \in Nat
  BY Zenon, TransferAssumption, FS_CardinalityType DEF Workers
<1>2. PagesPerLaunch \in Nat
  BY <1>1, TransferAssumption DEF PagesPerLaunch
<1>3. Pages \subseteq Nat
  BY TransferAssumption
<1> QED BY Zenon, <1>1, <1>2, <1>3, TransferAssumption DEF PagesPerLaunch

\* Application and update of a function that is itself an element of another one.
LEMMA FunctionFacts ==
  ASSUME NEW S, NEW T, NEW f \in [S -> T], NEW x \in S, NEW y \in T
  PROVE  /\ f[x] \in T
         /\ [f EXCEPT ![x] = y] \in [S -> T]
         /\ [f EXCEPT ![x] = y][x] = y
         /\ \A z \in S : z # x => [f EXCEPT ![x] = y][z] = f[z]
BY Zenon

\* The value of a function at a point of its domain.
LEMMA FunctionAt ==
  ASSUME NEW S, NEW T, NEW f \in [S -> T], NEW x \in S
  PROVE  f[x] \in T
BY Zenon

\* The next window position is a position of the window.
LEMMA NextPosType ==
  ASSUME WorkerTypeOK, NEW p \in Producers
  PROVE  NextWindowPos(p) \in 0 .. Window - 1
<1>1. head[p] + pending[p] \in Nat /\ Window \in Nat \ {0}
  BY RunConstants DEF WorkerTypeOK
<1> DEFINE x == head[p] + pending[p]
<1> HIDE DEF x
<1>2. x \in Nat /\ Window \in Nat \ {0}
  BY Zenon, <1>1 DEF x
<1>3. x % Window \in 0 .. Window - 1
  BY Zenon, <1>2, DivMod
<1> QED BY Zenon, <1>3 DEF NextWindowPos, x

\* A worker asks for a page of the SSD.
LEMMA RequestType ==
  ASSUME WorkerTypeOK, NEW p \in Producers, iter[p] < Count
  PROVE  Request(p) \in Request_t
<1>t. /\ launch \in 0 .. Batches - 1 /\ iter[p] \in 0 .. Count - 1
      /\ head[p] \in Nat /\ pending[p] \in Nat
  BY RunConstants DEF WorkerTypeOK
<1> DEFINE worker == ae_worker(p, Workers, Transpose, WarpSize)
           x == ae_index(worker, iter[p], PagesPerLaunch, Workers, Tile)
<1>1. x \in 0 .. PagesPerLaunch - 1
  <2>0. Workers \in Nat \ {0} /\ p \in 0 .. Workers - 1
    BY RunConstants
  <2>w. worker \in 0 .. Workers - 1
    BY <2>0, TransferAssumption, WorkerInRange, Zenon
  <2> HIDE DEF worker
  <2>1. Workers \in Nat \ {0} /\ worker \in 0 .. Workers - 1
    BY Zenon, <2>0, <2>w
  <2>2. /\ Count \in Nat \ {0} /\ Tile \in Nat /\ Count % EffectiveTile(Tile, Count) = 0
        /\ iter[p] \in 0 .. Count - 1
    BY Zenon, <1>t, RunConstants
  <2>3. ae_index(worker, iter[p], Workers * Count, Workers, Tile) \in 0 .. Workers * Count - 1
    BY Zenon, <2>1, <2>2, IndexInRange
  <2> QED BY Zenon, <2>3 DEF PagesPerLaunch
<1> HIDE DEF x
<1>2. PageOrder[x] \in 0 .. PagesPerLaunch - 1
  BY Zenon, <1>1, RunConstants
<1>3. launch * PagesPerLaunch + PageOrder[x] \in 0 .. Batches * PagesPerLaunch - 1
  <2>1. PagesPerLaunch \in Nat \ {0}
    BY <1>1, RunConstants
  <2>2. PagesPerLaunch * launch + PagesPerLaunch <= PagesPerLaunch * Batches
    BY <2>1, <1>t, RunConstants, MulStep
  <2>3. /\ PagesPerLaunch * launch = launch * PagesPerLaunch
        /\ PagesPerLaunch * Batches = Batches * PagesPerLaunch
        /\ launch * PagesPerLaunch \in Nat /\ Batches * PagesPerLaunch \in Nat
    BY <2>1, <1>t, RunConstants
  <2> QED BY <2>1, <2>2, <2>3, <1>2
<1>4. Address(p) \in Pages
  BY Zenon, <1>3, RunConstants DEF Address, PageAt, x, worker
<1>5. p * Window + NextWindowPos(p) \in Nat
  <2>1. NextWindowPos(p) \in Nat
    BY NextPosType
  <2>2. p \in Nat /\ Window \in Nat
    BY RunConstants
  <2> QED BY <2>1, <2>2
<1> QED BY Zenon, <1>4, <1>5 DEF Request, Request_t

\* The scheduler issues no request and writes no block itself.
LEMMA SchedStepFrame ==
  ASSUME SchedStep
  PROVE  UNCHANGED <<pc, my_slot, prod_tail, asked, disk, shutdown>>
<1>1. CASE OpenBatch
  BY <1>1, Zenon DEF OpenBatch, ringVars, enqueuing
<1>2. CASE BoundRound
  BY <1>2, Zenon DEF BoundRound, ringVars, enqueuing
<1>3. CASE CountReady
  BY <1>3, Zenon DEF CountReady, ringVars, enqueuing
<1>4. CASE EndRound
  BY <1>4, Zenon DEF EndRound, ringVars, enqueuing
<1>5. CASE EmptyRound
  BY <1>5, Zenon DEF EmptyRound, ringVars, enqueuing
<1>6. CASE WaitProbe
  BY <1>6, Zenon DEF WaitProbe, ringVars, enqueuing
<1>7. CASE WaitOver
  BY <1>7, Zenon DEF WaitOver, ringVars, enqueuing
<1>8. CASE Sort
  BY <1>8, Zenon DEF Sort, ringVars, enqueuing
<1>9. CASE Merge
  BY <1>9, Zenon DEF Merge, ringVars, enqueuing
<1>10. CASE Submit
  BY <1>10, Zenon DEF Submit, ringVars, enqueuing
<1>11. CASE SubmitReturn
  BY <1>11, Zenon DEF SubmitReturn, ringVars, enqueuing
<1>12. CASE SubmitDone
  BY <1>12, Zenon DEF SubmitDone, ringVars, enqueuing
<1>13. CASE Advance
  BY <1>13, Zenon DEF Advance, ringVars, enqueuing
<1>14. CASE \E t \in Lanes : LaneCheck(t) \/ LaneDrain(t)
  BY <1>14, Zenon DEF LaneCheck, LaneDrain, ringVars, enqueuing
<1>15. CASE \E pos \in RingIdx : Notify(pos)
  BY <1>15, Zenon DEF Notify, enqueuing
<1> QED
  BY Zenon, <1>1, <1>2, <1>3, <1>4, <1>5, <1>6, <1>7, <1>8, <1>9, <1>10, <1>11, <1>12, <1>13,
     <1>14, <1>15 DEF SchedStep

\* A completion changes only the SSD and the commands in flight.
LEMMA DeviceStepFrame ==
  ASSUME DeviceStep
  PROVE  UNCHANGED <<pc, my_slot, prod_tail, asked, shutdown>>
BY Zenon DEF DeviceStep, DeviceComplete, ringVars, enqueuing

---------------------------------------------------------------------------
(* Steps by what they do to the scheduler *)

Gather ==
  \/ OpenBatch \/ BoundRound \/ CountReady \/ EndRound \/ WaitProbe
  \/ WaitOver \/ Sort \/ Merge \/ Submit \/ SubmitReturn
  \/ \E t \in Lanes : LaneCheck(t) \/ LaneDrain(t)

\* Up to the notification the scheduler leaves the ring and its counters alone.
LEMMA GatherFrame ==
  ASSUME Gather
  PROVE  /\ UNCHANGED ringVars /\ UNCHANGED <<submitted_ios, merged_ios, disk>>
         /\ phase \notin {"empty", "notify", "exit"} /\ phase' \notin {"notify", "exit"}
         /\ phase' = "empty" => sh_accumulated' = 0
<1>1. CASE OpenBatch \/ BoundRound \/ WaitOver \/ Sort
  BY Zenon, <1>1 DEF OpenBatch, BoundRound, WaitOver, Sort, GotoPhase
<1>2. CASE CountReady
  BY Zenon, <1>2 DEF CountReady, AfterCount, batchVars
<1>3. CASE EndRound
  BY Zenon, <1>3 DEF EndRound
<1>4. CASE WaitProbe
  BY Zenon, <1>4 DEF WaitProbe
<1>5. CASE \E t \in Lanes : LaneCheck(t) \/ LaneDrain(t)
  BY Zenon, <1>5 DEF LaneCheck, LaneDrain
<1>6. CASE Merge \/ Submit \/ SubmitReturn
  BY Zenon, <1>6 DEF Merge, Submit, SubmitReturn, GotoPhase
<1> QED BY Zenon, <1>1, <1>2, <1>3, <1>4, <1>5, <1>6 DEF Gather

\* Once a launch has ended every worker has returned and stays so.
LEMMA EndedStopsWorkers ==
  ASSUME LaunchEnded, NEW p \in Producers
  PROVE  ~WorkerStep(p) /\ ~Enqueuing(p) /\ pending[p] = 0
<1>1. pc[p] = "out" /\ iter[p] = Count /\ pending[p] = 0
  BY Zenon DEF LaunchEnded, Ended
<1>2. Count \in Nat
  BY Zenon, RunConstants
<1> QED BY <1>1, <1>2 DEF WorkerStep, AwaitOldest, MustWait, StartEnqueue, ContinueEnqueue,
           EnqueueStep, LeaveFull, ClearFlag, WriteEntry, FinishEnqueue, Publish, Goto, Enqueuing

=============================================================================
