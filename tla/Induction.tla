------------------------------ MODULE Induction ------------------------------
(***************************************************************************)
(* What the proofs about the memory, the emulator and the caches share:    *)
(* arithmetic in the pieces the solver can do, induction over the natural  *)
(* numbers in first-order form, and the powers of two.                     *)
(***************************************************************************)
EXTENDS Integers, BitFields, TLAPS, WellFoundedInduction

-----------------------------------------------------------------------------
\* Arithmetic the solver needs in pieces.
LEMMA Products ==
  ASSUME NEW a \in Nat, NEW b \in Nat, NEW c \in Nat, a <= b
  PROVE  a * c <= b * c /\ a * c \in Nat
<1>1. PICK d \in Nat : b = a + d
  OBVIOUS
<1>2. (a + d) * c = a * c + d * c /\ d * c \in Nat /\ a * c \in Nat
  OBVIOUS
<1> QED BY <1>1, <1>2

LEMMA Division ==
  ASSUME NEW n \in Nat \ {0}, NEW q \in Int, NEW r \in 0..n - 1
  PROVE  (q * n + r) % n = r /\ (q * n + r) \div n = q
OBVIOUS

LEMMA Remainder ==
  ASSUME NEW x \in Int, NEW n \in Nat \ {0}
  PROVE  \E q \in Int, r \in 0..n - 1 : x = q * n + r /\ x % n = r /\ x \div n = q
<1>1. x % n \in 0..n - 1 /\ x \div n \in Int /\ x = (x \div n) * n + (x % n)
  OBVIOUS
<1> QED BY <1>1

LEMMA ModShift ==
  ASSUME NEW x \in Int, NEW k \in Int, NEW n \in Nat \ {0}
  PROVE  (x + k * n) % n = x % n
<1>1. PICK q \in Int, r \in 0..n - 1 : x = q * n + r /\ x % n = r
  BY Remainder
<1>2. x + k * n = (q + k) * n + r /\ q + k \in Int
  BY <1>1
<1>3. ((q + k) * n + r) % n = r
  BY <1>2, Division
<1> QED BY <1>1, <1>2, <1>3

\* Dividing twice is dividing by the product, of which the remainder has two parts.
LEMMA DivideTwice ==
  ASSUME NEW a \in Nat, NEW d \in Nat \ {0}, NEW n \in Nat \ {0}
  PROVE  /\ a \div (n * d) = (a \div d) \div n
         /\ a % (n * d) = (a % d) + ((a \div d) % n) * d
<1>1. PICK b \in Int, r \in 0..d - 1 : a = b * d + r /\ a \div d = b /\ a % d = r
  BY Remainder
<1>2. PICK q \in Int, s \in 0..n - 1 : b = q * n + s /\ b \div n = q /\ b % n = s
  BY <1>1, Remainder
<1>3. s * d + r \in Nat /\ n * d \in Nat \ {0} /\ s * d \in Nat
  BY <1>1, <1>2
<1>4. (s + 1) * d <= n * d
  BY <1>2, Products
<1>5. (s + 1) * d = s * d + d
  BY <1>1, <1>2
<1>6. s * d + r \in 0..n * d - 1
  BY <1>1, <1>3, <1>4, <1>5
<1>7. a = q * (n * d) + (s * d + r)
  <2>1. (q * n + s) * d = q * (n * d) + s * d /\ q * (n * d) \in Int
    BY <1>2
  <2> QED BY <1>1, <1>2, <1>3, <2>1
<1> DEFINE m == n * d
           p == s * d + r
<1>8. m \in Nat \ {0} /\ p \in 0..m - 1 /\ a = q * m + p
  BY <1>3, <1>6, <1>7
<1>9. (a % d) + ((a \div d) % n) * d = p
  BY <1>1, <1>2, <1>3
<1> HIDE DEF m, p
<1>10. a \div m = q /\ a % m = p
  BY <1>2, <1>8, Division
<1>11. a \div m = (a \div d) \div n /\ a % m = (a % d) + ((a \div d) % n) * d
  BY <1>1, <1>2, <1>9, <1>10
<1> QED BY <1>11 DEF m

-----------------------------------------------------------------------------
(***************************************************************************)
(* Induction over the course of a loop, in first-order form: prepareMemory *)
(* and loadFromFile are recursive functions of the number of steps.        *)
(***************************************************************************)
LEMMA LeastNumber ==
  ASSUME NEW T \in SUBSET Nat, T # {}
  PROVE  \E t \in T : \A s \in T : t <= s
<1> DEFINE R == OpToRel(<, Nat)
<1>1. IsWellFoundedOn(R, Nat)
  BY NatLessThanWellFounded
<1> HIDE DEF R
<1>2. PICK t \in T : \A s \in T : <<s, t>> \notin R
  BY <1>1, WFMin, Zenon
<1>3. \A s \in T : ~(s < t)
  BY <1>2 DEF R, OpToRel
<1> QED BY <1>2, <1>3

\* What holds at first and is kept by every step holds at last.
LEMMA Stays ==
  ASSUME NEW N \in Nat, NEW M, NEW course,
         course[0] \in M,
         \A n \in 1..N : course[n - 1] \in M => course[n] \in M
  PROVE  course[N] \in M
<1> DEFINE Out == {k \in 0..N : course[k] \notin M}
<1>1. SUFFICES ASSUME Out # {} PROVE FALSE
  OBVIOUS
<1>2. Out \in SUBSET Nat
  OBVIOUS
<1> HIDE DEF Out
<1>3. PICK t \in Out : \A s \in Out : t <= s
  BY <1>1, <1>2, LeastNumber
<1> USE DEF Out
<1>4. t \in 1..N
  BY <1>3
<1>5. t - 1 \in 0..N /\ t - 1 \notin Out
  BY <1>3, <1>4
<1> QED BY <1>4, <1>5

\* A loop has a course.
IsCourse(f, N, first, step) == f[0] = first /\ \A n \in 1..N : f[n] = step[n][f[n - 1]]

LEMMA CourseExists ==
  ASSUME NEW N \in Nat, NEW M, NEW first \in M, NEW step \in [1..N -> [M -> M]]
  PROVE  \E f \in [0..N -> M] : IsCourse(f, N, first, step)
<1> DEFINE At(f, n) == IF n = 0 THEN first ELSE step[n][f[n - 1]]
           Is(f, k) == \A n \in 0..k : f[n] = At(f, n)
           Short == {k \in 0..N : ~\E f \in [0..k -> M] : Is(f, k)}
<1>1. Short \in SUBSET Nat
  OBVIOUS
<1>2. ASSUME NEW t \in Short, \A s \in Short : t <= s
      PROVE  FALSE
  <2>1. t \in 0..N /\ t # 0
    <3> DEFINE f0 == [n \in 0..0 |-> first]
    <3>1. f0 \in [0..0 -> M] /\ Is(f0, 0)
      OBVIOUS
    <3> HIDE DEF f0, Is
    <3> QED BY <3>1
  <2> HIDE DEF Is
  <2>2. t - 1 \in 0..N /\ t - 1 \notin Short
    BY <1>2, <2>1
  <2>3. PICK f \in [0..t - 1 -> M] : Is(f, t - 1)
    BY <2>2
  <2> USE DEF Is
  <2> DEFINE g == [n \in 0..t |-> IF n = t THEN step[t][f[t - 1]] ELSE f[n]]
  <2>4. g \in [0..t -> M]
    <3>1. f[t - 1] \in M /\ t \in 1..N
      BY <2>1, <2>3
    <3> QED BY <2>1, <2>3, <3>1
  <2>5. ASSUME NEW n \in 0..t
        PROVE  g[n] = At(g, n)
    <3>1. CASE n = t
      <4>1. t - 1 \in 0..t /\ g[t - 1] = f[t - 1]
        BY <2>1
      <4>2. g[t] = step[t][f[t - 1]]
        BY <2>1
      <4> QED BY <2>1, <3>1, <4>1, <4>2
    <3>2. CASE n # t
      <4>1. n \in 0..t - 1
        BY <2>1, <3>2
      <4>2. g[n] = f[n] /\ f[n] = At(f, n)
        BY <2>3, <4>1
      <4>3. n # 0 => g[n - 1] = f[n - 1]
        BY <2>1, <4>1
      <4> QED BY <4>2, <4>3
    <3> QED BY <3>1, <3>2
  <2> HIDE DEF g, At
  <2> QED BY <1>2, <2>4, <2>5
<1> HIDE DEF Short
<1>3. Short = {}
  BY <1>1, <1>2, LeastNumber
<1>4. PICK f \in [0..N -> M] : Is(f, N)
  <2> HIDE DEF Is
  <2>1. N \in 0..N
    OBVIOUS
  <2> QED BY <1>3, <2>1 DEF Short
<1>5. 0 \in 0..N /\ \A n \in 1..N : n \in 0..N /\ n # 0
  OBVIOUS
<1> QED BY <1>4, <1>5 DEF IsCourse

\* Two functions that start together and never part at a step agree.
LEMMA Agree ==
  ASSUME NEW N \in Nat, NEW f, NEW g, f[0] = g[0],
         \A n \in 1..N : f[n - 1] = g[n - 1] => f[n] = g[n]
  PROVE  f[N] = g[N]
<1> DEFINE Out == {k \in 0..N : f[k] # g[k]}
<1>1. SUFFICES ASSUME Out # {} PROVE FALSE
  OBVIOUS
<1>2. Out \in SUBSET Nat
  OBVIOUS
<1> HIDE DEF Out
<1>3. PICK t \in Out : \A s \in Out : t <= s
  BY <1>1, <1>2, LeastNumber
<1> USE DEF Out
<1>4. t \in 1..N
  BY <1>3
<1>5. t - 1 \in 0..N /\ t - 1 \notin Out
  BY <1>3, <1>4
<1> QED BY <1>4, <1>5

\* A recursive function of the natural numbers, whose value depends on the one before.
LEMMA RecursionExists ==
  ASSUME NEW M, NEW first \in M, NEW step \in [M -> M]
  PROVE  \E f \in [Nat -> M] : f[0] = first /\ \A n \in Nat \ {0} : f[n] = step[f[n - 1]]
<1> DEFINE Is(f, N) == f \in [0..N -> M] /\ f[0] = first /\ \A n \in 1..N : f[n] = step[f[n - 1]]
           upTo(N) == CHOOSE f : Is(f, N)
           F == [n \in Nat |-> upTo(n)[n]]
<1>1. ASSUME NEW N \in Nat
      PROVE  Is(upTo(N), N)
  <2> DEFINE steps == [n \in 1..N |-> step]
  <2>1. steps \in [1..N -> [M -> M]]
    OBVIOUS
  <2>2. \A n \in 1..N : steps[n] = step
    OBVIOUS
  <2> HIDE DEF steps
  <2>3. PICK f \in [0..N -> M] : IsCourse(f, N, first, steps)
    BY <2>1, CourseExists
  <2>4. Is(f, N)
    BY <2>2, <2>3 DEF IsCourse
  <2> HIDE DEF Is
  <2> QED BY <2>4
<1> HIDE DEF upTo
<1>2. ASSUME NEW n \in Nat \ {0}
      PROVE  upTo(n)[n - 1] = upTo(n - 1)[n - 1]
  <2> DEFINE f == upTo(n)
             g == upTo(n - 1)
             p == n - 1
  <2>1. p \in Nat /\ \A k \in 1..p : k \in 1..n
    OBVIOUS
  <2>2. Is(f, n) /\ Is(g, p)
    BY <1>1, <2>1
  <2> HIDE DEF f, g
  <2>3. f[0] = g[0] /\ \A k \in 1..p : f[k - 1] = g[k - 1] => f[k] = g[k]
    BY <2>1, <2>2
  <2> HIDE DEF p
  <2>4. f[p] = g[p]
    BY <2>1, <2>3, Agree
  <2> QED BY <2>4 DEF f, g, p
<1>3. \A n \in Nat : F[n] = upTo(n)[n]
  OBVIOUS
<1>4. F \in [Nat -> M]
  BY <1>1
<1>5. F[0] = first
  BY <1>1, <1>3
<1>6. \A n \in Nat \ {0} : F[n] = step[F[n - 1]]
  <2> SUFFICES ASSUME NEW n \in Nat \ {0} PROVE F[n] = step[F[n - 1]]
    OBVIOUS
  <2>1. n \in 1..n /\ n - 1 \in Nat /\ n \in Nat
    OBVIOUS
  <2>2. upTo(n)[n] = step[upTo(n)[n - 1]]
    BY <1>1, <2>1
  <2> HIDE DEF F
  <2> QED BY <1>2, <1>3, <2>1, <2>2
<1> HIDE DEF F
<1> QED BY <1>4, <1>5, <1>6

-----------------------------------------------------------------------------
\* The powers of two.
LEMMA TwoToFacts ==
  /\ TwoTo[0] = 1
  /\ \A n \in Nat : TwoTo[n] \in Nat \ {0} /\ TwoTo[n + 1] = 2 * TwoTo[n]
<1> DEFINE M == Nat \ {0}
           step == [x \in M |-> 2 * x]
           Rec(f) == f = [n \in Nat |-> IF n = 0 THEN 1 ELSE 2 * f[n - 1]]
<1>1. 1 \in M /\ step \in [M -> M]
  OBVIOUS
<1>2. PICK f \in [Nat -> M] : f[0] = 1 /\ \A n \in Nat \ {0} : f[n] = step[f[n - 1]]
  <2> HIDE DEF M, step
  <2> QED BY <1>1, RecursionExists
<1>3. \A n \in Nat \ {0} : f[n] = 2 * f[n - 1]
  <2>1. \A n \in Nat \ {0} : n - 1 \in Nat
    OBVIOUS
  <2> QED BY <1>2, <2>1
<1>4. Rec(f)
  BY <1>2, <1>3
<1>5. TwoTo = CHOOSE g : Rec(g)
  BY DEF TwoTo
<1>6. Rec(TwoTo)
  BY <1>4, <1>5
<1>7. TwoTo[0] = 1 /\ \A n \in Nat \ {0} : TwoTo[n] = 2 * TwoTo[n - 1]
  BY <1>6
<1>8. \A n \in Nat : TwoTo[n] = f[n]
  <2> SUFFICES ASSUME NEW n \in Nat PROVE TwoTo[n] = f[n]
    OBVIOUS
  <2>1. \A k \in 1..n : TwoTo[k - 1] = f[k - 1] => TwoTo[k] = f[k]
    BY <1>3, <1>7
  <2> QED BY <1>2, <1>7, <2>1, Agree
<1>9. \A n \in Nat : TwoTo[n + 1] = 2 * TwoTo[n]
  <2> SUFFICES ASSUME NEW n \in Nat PROVE TwoTo[n + 1] = 2 * TwoTo[n]
    OBVIOUS
  <2>1. n + 1 \in Nat \ {0} /\ (n + 1) - 1 = n
    OBVIOUS
  <2> QED BY <1>7, <2>1
<1> QED BY <1>7, <1>8, <1>9, <1>2

LEMMA TwoToSum == \A m, n \in Nat : TwoTo[m + n] = TwoTo[m] * TwoTo[n]
<1> SUFFICES ASSUME NEW m \in Nat, NEW n \in Nat PROVE TwoTo[m + n] = TwoTo[m] * TwoTo[n]
  OBVIOUS
<1> DEFINE left == [k \in 0..n |-> TwoTo[m + k]]
           right == [k \in 0..n |-> TwoTo[m] * TwoTo[k]]
<1>1. left[0] = right[0]
  BY TwoToFacts
<1>2. ASSUME NEW k \in 1..n, left[k - 1] = right[k - 1]
      PROVE  left[k] = right[k]
  <2>1. k - 1 \in Nat /\ k - 1 \in 0..n /\ k \in 0..n /\ m + (k - 1) \in Nat
    OBVIOUS
  <2>2. /\ TwoTo[(k - 1) + 1] = 2 * TwoTo[k - 1]
        /\ TwoTo[(m + (k - 1)) + 1] = 2 * TwoTo[m + (k - 1)]
    BY <2>1, TwoToFacts
  <2>3. (k - 1) + 1 = k /\ (m + (k - 1)) + 1 = m + k
    BY <2>1
  <2>4. TwoTo[m + (k - 1)] = TwoTo[m] * TwoTo[k - 1]
    BY <1>2, <2>1
  <2>5. TwoTo[m] \in Nat /\ TwoTo[k - 1] \in Nat
    BY <2>1, TwoToFacts
  <2>6. \A a, b \in Nat : 2 * (a * b) = a * (2 * b)
    OBVIOUS
  <2>7. TwoTo[m + k] = TwoTo[m] * TwoTo[k]
    BY <2>2, <2>3, <2>4, <2>5, <2>6
  <2> QED BY <2>1, <2>7
<1>3. left[n] = right[n]
  <2> HIDE DEF left, right
  <2> QED BY <1>1, <1>2, Agree
<1> QED BY <1>3

LEMMA TwoToGrows == \A n \in Nat : n < TwoTo[n]
<1> SUFFICES ASSUME NEW n \in Nat PROVE n < TwoTo[n]
  OBVIOUS
<1> DEFINE above == [k \in 0..n |-> TwoTo[k] - k]
           M == Nat \ {0}
<1>1. above[0] \in M
  BY TwoToFacts
<1>2. ASSUME NEW k \in 1..n, above[k - 1] \in M
      PROVE  above[k] \in M
  <2>1. k - 1 \in Nat /\ k - 1 \in 0..n /\ k \in 0..n /\ (k - 1) + 1 = k
    OBVIOUS
  <2>2. TwoTo[k] = 2 * TwoTo[k - 1] /\ TwoTo[k - 1] \in Nat
    BY <2>1, TwoToFacts
  <2>3. TwoTo[k - 1] - (k - 1) \in M
    BY <1>2, <2>1
  <2> QED BY <2>1, <2>2, <2>3
<1>3. above[n] \in M
  <2> HIDE DEF above, M
  <2> QED BY <1>1, <1>2, Stays
<1> QED BY <1>3, TwoToFacts

\* log2, rounded down, is defined for every positive number.
LEMMA FloorLog2Is ==
  ASSUME NEW n \in Nat \ {0}
  PROVE  /\ FloorLog2(n) \in Nat
         /\ TwoTo[FloorLog2(n)] <= n
         /\ n < TwoTo[FloorLog2(n) + 1]
<1> DEFINE Over == {k \in Nat : n < TwoTo[k + 1]}
           Is(k) == TwoTo[k] <= n /\ n < TwoTo[k + 1]
<1>1. n \in Over /\ Over \in SUBSET Nat
  <2>1. n + 1 < TwoTo[n + 1] /\ TwoTo[n + 1] \in Nat
    BY TwoToGrows, TwoToFacts
  <2> QED BY <2>1
<1> HIDE DEF Over
<1>2. PICK k \in Over : \A s \in Over : k <= s
  BY <1>1, LeastNumber
<1>3. k \in 0..n /\ k \in Nat /\ n < TwoTo[k + 1]
  BY <1>1, <1>2 DEF Over
<1>4. TwoTo[k] <= n
  <2>1. CASE k = 0
    BY <2>1, TwoToFacts
  <2>2. CASE k # 0
    <3>1. k - 1 \in Nat /\ (k - 1) + 1 = k /\ ~(k <= k - 1)
      BY <1>3, <2>2
    <3>2. k - 1 \notin Over
      BY <1>2, <3>1
    <3>3. ~(n < TwoTo[k])
      BY <3>1, <3>2 DEF Over
    <3> QED BY <1>3, <3>3, TwoToFacts
  <2> QED BY <2>1, <2>2
<1>5. \E j \in 0..n : Is(j)
  BY <1>3, <1>4
<1>6. FloorLog2(n) = CHOOSE j \in 0..n : Is(j)
  BY DEF FloorLog2
<1>7. FloorLog2(n) \in 0..n /\ Is(FloorLog2(n))
  <2> HIDE DEF Is
  <2> QED BY <1>5, <1>6
<1> QED BY <1>7

LEMMA TwoToRises == \A m, n \in Nat : m <= n => TwoTo[m] <= TwoTo[n]
<1> SUFFICES ASSUME NEW m \in Nat, NEW n \in Nat, m <= n PROVE TwoTo[m] <= TwoTo[n]
  OBVIOUS
<1>1. n - m \in Nat /\ m + (n - m) = n
  OBVIOUS
<1>2. TwoTo[n] = TwoTo[m] * TwoTo[n - m]
  BY <1>1, TwoToSum
<1>3. TwoTo[m] \in Nat /\ TwoTo[n - m] \in Nat /\ 1 <= TwoTo[n - m]
  BY <1>1, TwoToFacts
<1>4. 1 * TwoTo[m] <= TwoTo[n - m] * TwoTo[m]
  BY <1>3, Products
<1>5. \A x, y \in Nat : 1 * x = x /\ y * x = x * y
  OBVIOUS
<1> QED BY <1>2, <1>3, <1>4, <1>5

LEMMA FloorLog2OfPower ==
  ASSUME NEW k \in Nat
  PROVE  FloorLog2(TwoTo[k]) = k
<1> DEFINE l == FloorLog2(TwoTo[k])
<1>1. l \in Nat /\ TwoTo[l] <= TwoTo[k] /\ TwoTo[k] < TwoTo[l + 1]
  BY FloorLog2Is, TwoToFacts
<1> HIDE DEF l
<1>2. l + 1 \in Nat /\ k + 1 \in Nat
  BY <1>1
<1>3. TwoTo[k + 1] > TwoTo[k] /\ TwoTo[k] \in Nat /\ TwoTo[l] \in Nat /\ TwoTo[l + 1] \in Nat
      /\ TwoTo[k + 1] \in Nat
  BY <1>1, <1>2, TwoToFacts
<1>4. ~(l + 1 <= k)
  BY <1>1, <1>2, <1>3, TwoToRises
<1>5. ~(k + 1 <= l)
  BY <1>1, <1>2, <1>3, TwoToRises
<1>6. l = k
  BY <1>1, <1>4, <1>5
<1> QED BY <1>6 DEF l

\* A field as wide as the logarithm of the number of sets, wherever it lies, numbers a set.
LEMMA FieldInTable ==
  ASSUME NEW a \in Nat, NEW sets \in Nat \ {0}, NEW above \in Nat, NEW below \in Nat, NEW all,
         all = above + (FloorLog2(sets) + below)
  PROVE  ExtractBits(a, all - 1 - above, all - above - FloorLog2(sets)) \in 0..sets - 1
<1> DEFINE i == FloorLog2(sets)
<1>1. i \in Nat /\ TwoTo[i] <= sets
  BY FloorLog2Is
<1> HIDE DEF i
<1>2. all = above + (i + below)
  BY DEF i
<1>3. all - above - i = below /\ all - 1 - above - (all - above - i) + 1 = i
  BY <1>1, <1>2
<1>4. ExtractBits(a, all - 1 - above, all - above - i) = (a \div TwoTo[below]) % TwoTo[i]
  BY <1>3 DEF ExtractBits
<1>5. \A x \in Nat, n \in Nat \ {0} : x % n \in 0..n - 1 /\ x \div n \in Nat
  OBVIOUS
<1>6. TwoTo[below] \in Nat \ {0} /\ TwoTo[i] \in Nat \ {0}
  BY <1>1, TwoToFacts
<1>7. (a \div TwoTo[below]) % TwoTo[i] \in 0..TwoTo[i] - 1
  BY <1>5, <1>6
<1>8. (a \div TwoTo[below]) % TwoTo[i] \in 0..sets - 1
  BY <1>1, <1>6, <1>7
<1> QED BY <1>4, <1>8 DEF i
=============================================================================
