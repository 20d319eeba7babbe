-------------------------- MODULE PrimeSieve_proofs --------------------------
(***************************************************************************)
(* The segmented sieve counts the primes of every range, for every segment *)
(* size and every bound on the range.                                      *)
(***************************************************************************)
EXTENDS PrimeSieve, FiniteSetTheorems, FunctionTheorems, TLAPS

(***************************************************************************)
(* Facts about divisors, as the loops of the sieve need them.              *)
(***************************************************************************)
Divides(d, n) == n % d = 0

LEMMA Multiples ==
  ASSUME NEW n \in Nat, NEW d \in Nat \ {0}
  PROVE  Divides(d, n) <=> \E k \in Nat : n = d * k
<1>1. n = d * (n \div d) + (n % d) /\ n \div d \in Nat
  BY SMT
<1>2. n % d = 0 => \E k \in Nat : n = d * k
  BY <1>1, SMT
<1>3. ASSUME NEW k \in Nat, n = d * k PROVE n % d = 0
  BY <1>3, SMT
<1> QED
  BY <1>2, <1>3 DEF Divides

LEMMA DividesTransitively ==
  ASSUME NEW n \in Nat, NEW c \in Nat \ {0}, NEW d \in Nat \ {0},
         Divides(c, n), Divides(d, c)
  PROVE  Divides(d, n)
<1>1. PICK k \in Nat : n = c * k
  BY Multiples
<1>2. PICK j \in Nat : c = d * j
  BY Multiples
<1>3. n = d * (j * k) /\ j * k \in Nat
  BY <1>1, <1>2, SMT
<1> QED
  BY <1>3, Multiples

\* The steps of a slice that starts at a multiple are the multiples from there on.
LEMMA StepsAreMultiples ==
  ASSUME NEW m \in Nat, NEW n \in Nat, NEW d \in Nat \ {0},
         Divides(d, m), n >= m
  PROVE  Divides(d, n - m) <=> Divides(d, n)
<1>1. PICK j \in Nat : m = d * j
  BY Multiples
<1>2. n - m \in Nat
  OBVIOUS
<1>3. ASSUME Divides(d, n - m) PROVE Divides(d, n)
  <2>1. PICK k \in Nat : n - m = d * k
    BY <1>2, <1>3, Multiples
  <2>2. n = d * (j + k) /\ j + k \in Nat
    BY <1>1, <2>1, SMT
  <2> QED
    BY <2>2, Multiples
<1>4. ASSUME Divides(d, n) PROVE Divides(d, n - m)
  <2>1. PICK k \in Nat : n = d * k
    BY <1>4, Multiples
  <2>2. k >= j
    BY <1>1, <2>1, SMT
  <2>3. n - m = d * (k - j) /\ k - j \in Nat
    BY <1>1, <2>1, <2>2, SMT
  <2> QED
    BY <1>2, <2>3, Multiples
<1> QED
  BY <1>3, <1>4

\* Rounding a up to a multiple of p gives the least multiple that is not below a.
LEMMA RoundingUp ==
  ASSUME NEW a \in Nat, NEW p \in Nat \ {0}
  PROVE  LET m == ((a + p - 1) \div p) * p
         IN  /\ m \in Nat /\ m >= a /\ Divides(p, m)
             /\ \A n \in Nat : n >= a /\ Divides(p, n) => n >= m
<1> DEFINE q == (a + p - 1) \div p
<1>1. /\ q \in Nat
      /\ \E r \in 0..(p - 1) : a + p - 1 = p * q + r
  BY SMT
<1> HIDE DEF q
<1>2. q * p \in Nat /\ q * p >= a /\ q * p = p * q
  BY <1>1, SMT
<1>3. ASSUME NEW k \in Nat, p * k >= a PROVE p * k >= q * p
  <2>1. SUFFICES ASSUME k < q PROVE FALSE
    BY <1>1, SMT
  <2>2. p * (k + 1) <= p * q
    BY <1>1, <2>1, SMT
  <2>3. p * q <= a + p - 1
    BY <1>1
  <2>4. p * (k + 1) = p * k + p
    BY SMT
  <2> QED
    BY <1>2, <1>3, <2>2, <2>3, <2>4, SMT
<1>4. Divides(p, q * p)
  BY <1>1, <1>2, Multiples
<1>5. \A n \in Nat : n >= a /\ Divides(p, n) => n >= q * p
  BY <1>3, Multiples
<1> QED
  BY <1>2, <1>4, <1>5 DEF q

\* A number whose square stays below n is not larger than the root of n.
LEMMA BelowTheRoot ==
  ASSUME NEW p \in Nat, NEW r \in Nat, p * p < (r + 1) * (r + 1)
  PROVE  p <= r
<1>1. SUFFICES ASSUME p >= r + 1 PROVE FALSE
  OBVIOUS
<1>2. p * p >= (r + 1) * (r + 1)
  BY <1>1, SMT
<1> QED
  BY <1>2

(***************************************************************************)
(* Facts about primes.                                                     *)
(***************************************************************************)
LEMMA PrimeHasNoDivisor ==
  ASSUME NEW n
  PROVE  Prime(n) <=> n >= 2 /\ \A d \in 2..(n - 1) : ~ Divides(d, n)
BY Zenon DEF Prime, Divides

\* A number that is not prime is the product of two smaller ones.
LEMMA Cofactor ==
  ASSUME NEW n \in Nat, NEW d \in 2..(n - 1), Divides(d, n)
  PROVE  \E k \in 2..(n - 1) : n = d * k
<1>1. PICK k \in Nat : n = d * k
  BY Multiples
<1>2. k # 0 /\ k # 1
  BY <1>1, SMT
<1>3. k < n
  BY <1>1, <1>2, SMT
<1> QED
  BY <1>1, <1>2, <1>3

\* One of the two is at most the root.
LEMMA SmallFactor ==
  ASSUME NEW n \in Nat, n >= 2, ~ Prime(n)
  PROVE  \E d \in 2..(n - 1) : d * d <= n /\ Divides(d, n)
<1>1. PICK d \in 2..(n - 1) : Divides(d, n)
  BY PrimeHasNoDivisor
<1>2. PICK k \in 2..(n - 1) : n = d * k
  BY <1>1, Cofactor
<1>3. CASE d <= k
  <2>1. d * d <= n
    BY <1>2, <1>3, SMT
  <2> QED
    BY <1>1, <2>1
<1>4. CASE k <= d
  <2>1. k * k <= n /\ n = k * d
    BY <1>2, <1>4, SMT
  <2>2. Divides(k, n)
    BY <2>1, Multiples
  <2> QED
    BY <2>1, <2>2
<1> QED
  BY <1>3, <1>4

LEMMA LeastElement ==
  ASSUME NEW T \in SUBSET Nat, T # {}
  PROVE  \E m \in T : \A n \in T : m <= n
<1>1. PICK m \in T : \A n \in T : <<n, m>> \notin OpToRel(<, Nat)
  BY NatLessThanWellFounded, WFMin
<1>2. ASSUME NEW n \in T PROVE ~ (n < m)
  <2>1. <<n, m>> \in Nat \X Nat
    BY SMT
  <2>2. n < m => <<n, m>> \in OpToRel(<, Nat)
    BY <2>1, Zenon DEF OpToRel
  <2> QED
    BY <2>2, <1>1
<1> QED
  BY <1>2

\* And its least factor is a prime at most the root.
LEMMA PrimeFactor ==
  ASSUME NEW n \in Nat, n >= 2, ~ Prime(n)
  PROVE  \E p \in 2..(n - 1) : Prime(p) /\ p * p <= n /\ Divides(p, n)
<1> DEFINE T == {d \in 2..(n - 1) : Divides(d, n)}
<1>1. T \in SUBSET Nat /\ T # {}
  BY PrimeHasNoDivisor
<1>2. PICK p \in T : \A d \in T : p <= d
  BY <1>1, LeastElement
<1>3. Prime(p)
  <2>1. ASSUME NEW d \in 2..(p - 1), Divides(d, p) PROVE FALSE
    <3>1. Divides(d, n)
      BY <1>2, <2>1, DividesTransitively
    <3> QED
      BY <1>2, <3>1
  <2> QED
    BY <2>1, PrimeHasNoDivisor
<1>4. PICK k \in 2..(n - 1) : n = p * k
  BY <1>2, Cofactor
<1>5. p <= k
  <2>1. n = k * p
    BY <1>4, SMT
  <2> QED
    BY <1>2, <2>1, Multiples
<1>6. p * p <= n
  BY <1>4, <1>5, SMT
<1> QED
  BY <1>2, <1>3, <1>6

(***************************************************************************)
(* Facts about the sizes of slices and windows.                            *)
(***************************************************************************)
LEMMA SliceElements ==
  ASSUME NEW first \in Nat, NEW p \in Nat \ {0}, NEW n \in Nat, NEW k
  PROVE  k \in Slice(first, p, n) <=>
           k \in 0..(n - 1) /\ k >= first /\ Divides(p, k - first)
BY Zenon DEF Slice, Divides

\* As many zero bytes are assigned as a slice has indices.
LEMMA SliceLength ==
  ASSUME NEW first \in Nat, NEW p \in Nat \ {0}, NEW n \in Nat, first < n
  PROVE  Cardinality(Slice(first, p, n)) = (n - first + p - 1) \div p
<1> DEFINE m == (n - first + p - 1) \div p
           f == [j \in 1..m |-> first + p * (j - 1)]
<1>1. /\ m \in Nat
      /\ \E r \in 0..(p - 1) : n - first + p - 1 = p * m + r
  BY SMT
<1> HIDE DEF m
<1>2. ASSUME NEW j \in 1..m
      PROVE  /\ p * (j - 1) \in Nat
             /\ first + p * (j - 1) \in Slice(first, p, n)
  <2>1. p * (j - 1) \in Nat /\ p * (j - 1) <= p * (m - 1)
    BY <1>1, SMT
  <2>2. p * (m - 1) < n - first
    BY <1>1, SMT
  <2>3. Divides(p, p * (j - 1))
    BY <2>1, Multiples
  <2>4. (first + p * (j - 1)) - first = p * (j - 1)
    BY <2>1
  <2>5. \A x \in Nat : x < n - first => first + x \in 0..(n - 1) /\ first + x >= first
    OBVIOUS
  <2>6. p * (j - 1) < n - first
    BY <1>1, <2>1, <2>2, SMT
  <2> QED
    BY <2>1, <2>3, <2>4, <2>5, <2>6, SliceElements, Zenon
<1>3. f \in [1..m -> Slice(first, p, n)]
  BY <1>2
<1>4. ASSUME NEW a \in 1..m, NEW b \in 1..m, f[a] = f[b] PROVE a = b
  <2>1. p * (a - 1) = p * (b - 1)
    BY <1>2, <1>4
  <2> QED
    BY <1>1, <2>1, SMT
<1>5. ASSUME NEW k \in Slice(first, p, n) PROVE \E j \in 1..m : f[j] = k
  <2>1. k \in 0..(n - 1) /\ k >= first /\ Divides(p, k - first) /\ k - first \in Nat
    BY SliceElements
  <2>2. PICK j \in Nat : k - first = p * j
    BY <2>1, Multiples
  <2>3. j < m
    BY <1>1, <2>1, <2>2, SMT
  <2>4. j + 1 \in 1..m /\ f[j + 1] = k
    BY <1>1, <2>1, <2>2, <2>3
  <2> QED
    BY <2>4
<1>6. f \in Bijection(1..m, Slice(first, p, n))
  BY <1>3, <1>4, <1>5, Fun_IsBij
<1> QED
  BY <1>1, <1>6, FS_CountingElements DEF ExistsBijection, m

\* A window of flags stands for as many numbers as it has flags set.
LEMMA ShiftKeepsSize ==
  ASSUME NEW S \in SUBSET Nat, IsFiniteSet(S), NEW a \in Nat
  PROVE  /\ IsFiniteSet({a + k : k \in S})
         /\ Cardinality({a + k : k \in S}) = Cardinality(S)
<1> DEFINE T == {a + k : k \in S}
           f == [k \in S |-> a + k]
<1>1. f \in [S -> T]
  OBVIOUS
<1>2. \A k, l \in S : f[k] = f[l] => k = l
  OBVIOUS
<1>3. \A t \in T : \E k \in S : f[k] = t
  OBVIOUS
<1>4. f \in Bijection(S, T)
  BY <1>1, <1>2, <1>3, Fun_IsBij
<1> QED
  BY <1>4, FS_Bijection DEF ExistsBijection

LEMMA PrimesAreFinite ==
  ASSUME NEW a \in Nat, NEW b \in Int
  PROVE  IsFiniteSet(PrimesIn(a, b)) /\ Cardinality(PrimesIn(a, b)) \in Nat
<1>1. IsFiniteSet(a..b) /\ PrimesIn(a, b) \in SUBSET (a..b)
  BY FS_Interval DEF PrimesIn
<1> QED
  BY <1>1, FS_Subset, FS_CardinalityType

\* The primes up to the end of a window are those before it and those in it.
LEMMA WindowAddsItsPrimes ==
  ASSUME NEW a \in Nat, NEW low \in Nat, NEW high \in Nat,
         a <= low, low <= high + 1,
         NEW S, S = {k \in 0..(high - low) : Prime(low + k)}
  PROVE  Cardinality(PrimesIn(a, high)) =
           Cardinality(PrimesIn(a, low - 1)) + Cardinality(S)
<1> DEFINE T == {low + k : k \in S}
<1>1. S \in SUBSET Nat /\ IsFiniteSet(S)
  <2>1. S \in SUBSET (0..(high - low)) /\ 0..(high - low) \subseteq Nat
    OBVIOUS
  <2>2. IsFiniteSet(0..(high - low))
    BY FS_Interval
  <2> QED
    BY <2>1, <2>2, FS_Subset
<1>2. IsFiniteSet(T) /\ Cardinality(T) = Cardinality(S)
  BY <1>1, ShiftKeepsSize
<1>3. PrimesIn(a, high) = PrimesIn(a, low - 1) \cup T
  <2>1. ASSUME NEW n \in PrimesIn(a, high) PROVE n \in PrimesIn(a, low - 1) \cup T
    <3>1. CASE n < low
      BY <2>1, <3>1 DEF PrimesIn
    <3>2. CASE n >= low
      <4>1. n - low \in 0..(high - low) /\ low + (n - low) = n /\ Prime(n)
        BY <3>2 DEF PrimesIn
      <4>2. n - low \in S
        BY <4>1
      <4> QED
        BY <4>1, <4>2
    <3> QED
      BY <3>1, <3>2 DEF PrimesIn
  <2>2. ASSUME NEW n \in T PROVE n \in PrimesIn(a, high)
    BY DEF PrimesIn
  <2>3. PrimesIn(a, low - 1) \subseteq PrimesIn(a, high)
    BY DEF PrimesIn
  <2> QED
    BY <2>1, <2>2, <2>3
<1>4. PrimesIn(a, low - 1) \cap T = {}
  BY <1>1 DEF PrimesIn
<1>5. IsFiniteSet(PrimesIn(a, low - 1)) /\ Cardinality(PrimesIn(a, low - 1)) \in Nat
  BY PrimesAreFinite
<1> HIDE DEF T
<1>6. Cardinality(PrimesIn(a, high)) =
        Cardinality(PrimesIn(a, low - 1)) + Cardinality(T) - Cardinality({})
  BY <1>2, <1>3, <1>4, <1>5, FS_Union
<1>7. Cardinality(S) \in Nat
  BY <1>1, FS_CardinalityType
<1> QED
  BY <1>2, <1>5, <1>6, <1>7, FS_EmptySet

(***************************************************************************)
(* What the loops establish, apart from the variables they keep it in.     *)
(***************************************************************************)
\* The flags of _simple_sieve(r) before the round for j: no smaller number has struck.
Unstruck(r, j) == {n \in 2..r : \A d \in 2..(j - 1) : d * d <= n => ~ Divides(d, n)}

\* The flags of the window from low to high when the base primes in P have struck.
Left(low, high, P) ==
  {k \in 0..(high - low) : \A p \in P : p * p <= low + k => ~ Divides(p, low + k)}

\* A round strikes what its number divides; a number that is struck has no more to
\* strike, because a smaller one divides it.
LEMMA RoundStrikes ==
  ASSUME NEW r \in Nat, NEW j \in Nat, j >= 2, j * j <= r
  PROVE  Unstruck(r, j + 1) =
           IF j \in Unstruck(r, j) THEN Unstruck(r, j) \ Slice(j * j, j, r + 1)
                                   ELSE Unstruck(r, j)
<1>1. j \in 2..r /\ j * j \in Nat
  BY SMT
<1>2. ASSUME NEW n
      PROVE  n \in Unstruck(r, j + 1) <=>
               n \in Unstruck(r, j) /\ (j * j <= n => ~ Divides(j, n))
  BY DEF Unstruck
<1>3. ASSUME NEW n \in 2..r
      PROVE  n \in Slice(j * j, j, r + 1) <=> j * j <= n /\ Divides(j, n)
  <2>1. Divides(j, j * j)
    BY <1>1, Multiples
  <2>2. n \in Slice(j * j, j, r + 1) <=> n >= j * j /\ Divides(j, n - j * j)
    BY <1>1, SliceElements
  <2>3. n >= j * j => (Divides(j, n - j * j) <=> Divides(j, n))
    BY <1>1, <2>1, StepsAreMultiples
  <2> QED
    BY <1>1, <2>2, <2>3
<1>4. CASE j \in Unstruck(r, j)
  <2>1. Unstruck(r, j) \subseteq 2..r
    BY DEF Unstruck
  <2> QED
    BY <1>2, <1>3, <1>4, <2>1, Zenon
<1>5. CASE j \notin Unstruck(r, j)
  <2>1. PICK d \in 2..(j - 1) : d * d <= j /\ Divides(d, j)
    BY <1>1, <1>5 DEF Unstruck
  <2>2. ASSUME NEW n \in Unstruck(r, j), j * j <= n, Divides(j, n) PROVE FALSE
    <3>1. n \in Nat /\ Divides(d, n)
      BY <2>1, <2>2, DividesTransitively DEF Unstruck
    <3>2. d * d <= n
      <4>1. j <= j * j
        BY SMT
      <4> QED
        BY <1>1, <2>1, <2>2, <3>1, <4>1, SMT
    <3> QED
      BY <2>1, <3>1, <3>2 DEF Unstruck
  <2> QED
    BY <1>2, <1>5, <2>2, Zenon
<1> QED
  BY <1>4, <1>5

\* Behind the root, what was not struck is prime.
LEMMA SieveIsExact ==
  ASSUME NEW r \in Nat, NEW j \in Nat, j >= 2, j * j > r
  PROVE  Unstruck(r, j) = PrimesIn(2, r)
<1>1. ASSUME NEW n \in Unstruck(r, j), ~ Prime(n) PROVE FALSE
  <2>1. n \in 2..r
    BY DEF Unstruck
  <2>2. PICK d \in 2..(n - 1) : d * d <= n /\ Divides(d, n)
    BY <1>1, <2>1, SmallFactor
  <2>3. d < j
    <3>1. SUFFICES ASSUME d >= j PROVE FALSE
      BY <2>2
    <3>2. d * d >= j * j
      BY <3>1, SMT
    <3> QED
      BY <2>1, <2>2, <3>2, SMT
  <2> QED
    BY <2>1, <2>2, <2>3 DEF Unstruck
<1>2. ASSUME NEW n \in 2..r, Prime(n) PROVE n \in Unstruck(r, j)
  <2>1. ASSUME NEW d \in 2..(j - 1), d * d <= n PROVE ~ Divides(d, n)
    <3>1. d \in 2..(n - 1)
      <4>1. d < d * d
        BY SMT
      <4> QED
        BY <2>1, <4>1, SMT
    <3> QED
      BY <1>2, <3>1, PrimeHasNoDivisor
  <2> QED
    BY <2>1 DEF Unstruck
<1>3. Unstruck(r, j) \subseteq 2..r
  BY DEF Unstruck
<1> QED
  BY <1>1, <1>2, <1>3 DEF PrimesIn

\* The first number that p strikes in a window from low on.
FirstFrom(low, p) == Larger(p * p, ((low + p - 1) \div p) * p)

LEMMA FirstIsFirst ==
  ASSUME NEW low \in Nat, NEW p \in Nat \ {0}
  PROVE  /\ FirstFrom(low, p) \in Nat /\ FirstFrom(low, p) >= low
         /\ FirstFrom(low, p) >= p * p /\ Divides(p, FirstFrom(low, p))
         /\ \A n \in Nat : n >= low /\ n >= p * p /\ Divides(p, n) => n >= FirstFrom(low, p)
<1> DEFINE m == ((low + p - 1) \div p) * p
<1>1. /\ m \in Nat /\ m >= low /\ Divides(p, m)
      /\ \A n \in Nat : n >= low /\ Divides(p, n) => n >= m
  BY RoundingUp
<1> HIDE DEF m
<1>2. p * p \in Nat /\ Divides(p, p * p)
  BY Multiples
<1>3. FirstFrom(low, p) = Larger(p * p, m)
  BY Zenon DEF FirstFrom, m
<1>4. CASE p * p >= m
  BY <1>1, <1>2, <1>3, <1>4 DEF Larger
<1>5. CASE ~ (p * p >= m)
  BY <1>1, <1>2, <1>3, <1>5 DEF Larger
<1> QED
  BY <1>4, <1>5

\* A base prime strikes its multiples from its square on, if the window has any.
LEMMA PrimeStrikes ==
  ASSUME NEW low \in Nat, NEW high \in Nat, low <= high, NEW P, NEW p \in Nat \ {0}
  PROVE  Left(low, high, P \cup {p}) =
           IF FirstFrom(low, p) > high
           THEN Left(low, high, P)
           ELSE Left(low, high, P) \ Slice(FirstFrom(low, p) - low, p, high - low + 1)
<1> DEFINE f == FirstFrom(low, p)
<1>1. /\ f \in Nat /\ f >= low /\ f >= p * p /\ Divides(p, f)
      /\ \A n \in Nat : n >= low /\ n >= p * p /\ Divides(p, n) => n >= f
  BY FirstIsFirst
<1> HIDE DEF f
<1>2. ASSUME NEW k
      PROVE  k \in Left(low, high, P \cup {p}) <=>
               k \in Left(low, high, P) /\ (p * p <= low + k => ~ Divides(p, low + k))
  BY DEF Left
<1>3. ASSUME NEW k \in 0..(high - low)
      PROVE  p * p <= low + k /\ Divides(p, low + k) <=> f <= low + k /\ Divides(p, low + k)
  <2>1. low + k \in Nat /\ low + k >= low
    OBVIOUS
  <2>2. p * p \in Nat
    BY SMT
  <2> QED
    BY <1>1, <2>1, <2>2
<1>4. Left(low, high, P) \subseteq 0..(high - low)
  BY DEF Left
<1>5. CASE f > high
  <2>1. ASSUME NEW k \in 0..(high - low) PROVE ~ (f <= low + k)
    BY <1>1, <1>5
  <2>2. Left(low, high, P \cup {p}) = Left(low, high, P)
    BY <1>2, <1>3, <1>4, <2>1, Zenon
  <2> QED
    BY <1>5, <2>2 DEF f
<1>6. CASE ~ (f > high)
  <2>1. f - low \in Nat /\ high - low + 1 \in Nat /\ (high - low + 1) - 1 = high - low
    BY <1>1
  <2>2. ASSUME NEW k \in 0..(high - low)
        PROVE  k \in Slice(f - low, p, high - low + 1) <=> f <= low + k /\ Divides(p, low + k)
    <3>1. k \in Slice(f - low, p, high - low + 1)
            <=> k >= f - low /\ Divides(p, k - (f - low))
      BY <2>1, SliceElements, Zenon
    <3>2. k >= f - low <=> f <= low + k
      BY <1>1
    <3>3. k - (f - low) = (low + k) - f /\ low + k \in Nat
      BY <1>1
    <3>4. f <= low + k => (Divides(p, (low + k) - f) <=> Divides(p, low + k))
      BY <1>1, <3>3, StepsAreMultiples
    <3> QED
      BY <3>1, <3>2, <3>3, <3>4, Zenon
  <2>3. Left(low, high, P \cup {p}) = Left(low, high, P) \ Slice(f - low, p, high - low + 1)
    BY <1>2, <1>3, <1>4, <2>2, Zenon
  <2> QED
    BY <1>6, <2>3 DEF f
<1> QED
  BY <1>5, <1>6

\* The primes up to the root of e strike every composite number up to e, and no prime.
LEMMA WindowIsExact ==
  ASSUME NEW e \in Nat, NEW r \in Nat, IsSqrt(r, e),
         NEW low \in Nat, NEW high \in Nat, 2 <= low, high <= e
  PROVE  Left(low, high, PrimesIn(2, r)) = {k \in 0..(high - low) : Prime(low + k)}
<1>1. ASSUME NEW k \in Left(low, high, PrimesIn(2, r)), ~ Prime(low + k) PROVE FALSE
  <2>1. k \in 0..(high - low) /\ low + k \in Nat /\ low + k >= 2 /\ low + k <= e
    BY DEF Left
  <2>2. PICK p \in 2..(low + k - 1) : Prime(p) /\ p * p <= low + k /\ Divides(p, low + k)
    BY <1>1, <2>1, PrimeFactor
  <2>3. p <= r
    <3>1. p * p < (r + 1) * (r + 1)
      BY <2>1, <2>2, SMT DEF IsSqrt
    <3> QED
      BY <2>2, <3>1, BelowTheRoot
  <2> QED
    BY <2>2, <2>3 DEF Left, PrimesIn
<1>2. ASSUME NEW k \in 0..(high - low), Prime(low + k), k \notin Left(low, high, PrimesIn(2, r))
      PROVE  FALSE
  <2>1. PICK p \in PrimesIn(2, r) : p * p <= low + k /\ Divides(p, low + k)
    BY <1>2 DEF Left
  <2>2. p \in 2..(low + k - 1)
    <3>1. p \in Nat /\ p >= 2 /\ low + k \in Nat
      BY DEF PrimesIn
    <3>2. p < p * p
      BY <3>1, SMT
    <3> QED
      BY <2>1, <3>1, <3>2, SMT
  <2> QED
    BY <1>2, <2>1, <2>2, PrimeHasNoDivisor
<1>3. Left(low, high, PrimesIn(2, r)) \subseteq 0..(high - low)
  BY DEF Left
<1> QED
  BY <1>1, <1>2, <1>3

(***************************************************************************)
(* The inductive invariant: one part for each loop.                        *)
(***************************************************************************)
Called ==
  pc = "called" => i = 2 /\ count = 0 /\ base_primes = {} /\ todo = {}

Ranged ==
  pc \in {"sieving", "segments", "striking"} => start <= end /\ 2 <= end /\ IsSqrt(limit, end)

Sieving ==
  pc = "sieving" =>
    /\ 2 <= i /\ i <= limit + 1
    /\ is_prime = Unstruck(limit, i)
    /\ count = 0 /\ todo = {} /\ seg_low = Larger(start, 2)

Windows ==
  pc \in {"segments", "striking"} =>
    /\ base_primes = PrimesIn(2, limit)
    /\ start <= seg_low /\ 2 <= seg_low /\ seg_low <= end + 1
    /\ count = Cardinality(PrimesIn(start, seg_low - 1))

Striking ==
  pc = "striking" =>
    /\ seg_low <= end
    /\ segment = Left(seg_low, seg_high, base_primes \ todo)

NoError == pc # "ValueError"

IInv ==
  /\ TypeOK /\ Called /\ Ranged /\ Sieving /\ Windows /\ Striking
  /\ AnswerExact /\ NoError

LEMMA InitHolds == Init => IInv
BY ConstantsAssumption
   DEF Init, IInv, TypeOK, Called, Ranged, Sieving, Windows, Striking, AnswerExact, NoError

\* The calls that end at once: the endpoint refuses them, or there is no prime.
LEMMA RejectStep == IInv /\ Reject => IInv'
BY DEF IInv, TypeOK, Called, Ranged, Sieving, Windows, Striking, AnswerExact, NoError, Reject, basic

LEMMA ReturnZeroStep == IInv /\ ReturnZero => IInv'
<1> SUFFICES ASSUME IInv, ReturnZero PROVE IInv'
  OBVIOUS
<1>1. /\ TypeOK' /\ Called' /\ Ranged' /\ Sieving' /\ Windows' /\ Striking' /\ NoError'
  BY DEF IInv, TypeOK, Called, Ranged, Sieving, Windows, Striking, NoError, ReturnZero, basic
<1>2. AnswerExact'
  <2>1. start \in Nat /\ end \in Nat /\ end < 2 /\ count = 0
    BY DEF IInv, TypeOK, Called, ReturnZero
  <2>2. PrimesIn(start, end) = {}
    BY <2>1 DEF PrimesIn, Prime
  <2>3. count' = 0 /\ start' = start /\ end' = end
    BY <2>1 DEF ReturnZero
  <2> QED
    BY <2>2, <2>3, FS_EmptySet DEF AnswerExact, PrimesIn, Prime
<1> QED
  BY <1>1, <1>2 DEF IInv

LEMMA BeginStep == IInv /\ Begin => IInv'
<1> SUFFICES ASSUME IInv, Begin PROVE IInv'
  OBVIOUS
<1>1. /\ limit' \in 1..end /\ IsSqrt(limit', end) /\ is_prime' = 2..limit'
      /\ seg_low' = Larger(start, 2) /\ pc' = "sieving" /\ start <= end /\ 2 <= end
      /\ start' = start /\ end' = end /\ i' = i /\ base_primes' = base_primes
      /\ count' = count /\ segment' = segment /\ todo' = todo
  BY DEF Begin, IInv, TypeOK
<1>2. /\ start \in Nat /\ end \in Nat /\ i = 2 /\ count = 0 /\ todo = {}
      /\ base_primes \subseteq 2..limit /\ segment \subseteq Nat
  BY DEF IInv, TypeOK, Called, Begin
<1>3. limit' \in Nat /\ 1 <= limit' /\ seg_low' \in Nat
  BY <1>1, <1>2 DEF Larger
<1>4. base_primes = {}
  BY DEF IInv, Called, Begin
<1>5. TypeOK'
  BY <1>1, <1>2, <1>3, <1>4 DEF TypeOK
<1>6. Sieving'
  <2>1. Unstruck(limit', 2) = 2..limit'
    BY <1>3 DEF Unstruck
  <2>2. \A r \in Nat : 1 <= r => 2 <= r + 1
    OBVIOUS
  <2>3. /\ i' = 2 /\ is_prime' = Unstruck(limit', i') /\ count' = 0 /\ todo' = {}
        /\ seg_low' = Larger(start', 2)
    BY <1>1, <1>2, <2>1, Zenon
  <2>4. 2 <= i'
    BY <2>3
  <2>5. i' <= limit' + 1
    BY <1>3, <2>2, <2>3, Zenon
  <2> QED
    BY <2>3, <2>4, <2>5, Zenon DEF Sieving
<1>7. Ranged'
  BY <1>1, Zenon DEF Ranged
<1>8. Called' /\ Windows' /\ Striking' /\ AnswerExact' /\ NoError'
  BY <1>1 DEF Called, Windows, Striking, AnswerExact, NoError
<1> QED
  BY <1>5, <1>6, <1>7, <1>8 DEF IInv

LEMMA SieveOnceStep == IInv /\ SieveOnce => IInv'
<1> SUFFICES ASSUME IInv, SieveOnce PROVE IInv'
  OBVIOUS
<1>1. /\ i \in Nat /\ limit \in Nat /\ 2 <= i /\ i * i <= limit
      /\ is_prime = Unstruck(limit, i) /\ limit' = limit /\ i' = i + 1
  BY DEF IInv, TypeOK, Sieving, SieveOnce
<1>2. is_prime' = Unstruck(limit, i + 1)
  BY <1>1, RoundStrikes DEF SieveOnce
<1>3. i + 1 <= limit + 1
  <2>1. i <= i * i
    BY <1>1, SMT
  <2> QED
    BY <1>1, <2>1, SMT
<1>4. TypeOK'
  BY <1>1, <1>2 DEF IInv, TypeOK, SieveOnce, Unstruck
<1>5. Sieving'
  BY <1>1, <1>2, <1>3 DEF IInv, Sieving, SieveOnce
<1>6. Called' /\ Ranged' /\ Windows' /\ Striking' /\ AnswerExact' /\ NoError'
  BY DEF IInv, Called, Ranged, Windows, Striking, AnswerExact, NoError, SieveOnce
<1> QED
  BY <1>4, <1>5, <1>6 DEF IInv

LEMMA EndSieveStep == IInv /\ EndSieve => IInv'
<1> SUFFICES ASSUME IInv, EndSieve PROVE IInv'
  OBVIOUS
<1>1. /\ i \in Nat /\ limit \in Nat /\ 2 <= i /\ i * i > limit
      /\ is_prime = Unstruck(limit, i) /\ base_primes' = is_prime
  BY DEF IInv, TypeOK, Sieving, EndSieve
<1>2. base_primes' = PrimesIn(2, limit)
  BY <1>1, SieveIsExact
<1>3. Windows'
  <2>1. start \in Nat /\ end \in Nat /\ start <= end /\ 2 <= end
    BY DEF IInv, TypeOK, Ranged, EndSieve
  <2>2. seg_low = Larger(start, 2) /\ count = 0
    BY DEF IInv, Sieving, EndSieve
  <2>3. start <= seg_low /\ 2 <= seg_low /\ seg_low <= end + 1 /\ seg_low \in Nat
    BY <2>1, <2>2 DEF Larger
  <2>4. PrimesIn(start, seg_low - 1) = {}
    BY <2>1, <2>2 DEF PrimesIn, Prime, Larger
  <2>5. count = Cardinality(PrimesIn(start, seg_low - 1))
    BY <2>2, <2>4, FS_EmptySet
  <2>6. limit' = limit /\ start' = start /\ seg_low' = seg_low /\ end' = end /\ count' = count
    BY DEF EndSieve
  <2> QED
    BY <1>2, <2>3, <2>5, <2>6, Zenon DEF Windows
<1>4. TypeOK'
  BY <1>1 DEF IInv, TypeOK, Sieving, EndSieve
<1>5. Called' /\ Ranged' /\ Sieving' /\ Striking' /\ AnswerExact' /\ NoError'
  BY DEF IInv, Called, Ranged, Sieving, Striking, AnswerExact, NoError, EndSieve
<1> QED
  BY <1>3, <1>4, <1>5 DEF IInv

\* The window that the variables describe lies inside the range.
LEMMA WindowInRange ==
  ASSUME IInv, pc \in {"segments", "striking"}, seg_low <= end
  PROVE  /\ seg_low \in Nat /\ seg_high \in Nat
         /\ seg_low <= seg_high /\ seg_high <= end
         /\ size = seg_high - seg_low + 1 /\ size \in Nat
BY ConstantsAssumption DEF IInv, TypeOK, Windows, seg_high, size, Smaller

LEMMA OpenSegmentStep == IInv /\ OpenSegment => IInv'
<1> SUFFICES ASSUME IInv, OpenSegment PROVE IInv'
  OBVIOUS
<1>1. /\ seg_low \in Nat /\ seg_high \in Nat /\ seg_low <= seg_high
      /\ size = seg_high - seg_low + 1 /\ size \in Nat
  BY WindowInRange DEF OpenSegment
<1>2. /\ seg_low' = seg_low /\ end' = end /\ base_primes' = base_primes
      /\ seg_high' = seg_high /\ todo' = base_primes /\ seg_low <= end
  BY DEF OpenSegment, basic, seg_high
<1>3. segment' = Left(seg_low, seg_high, {})
  <2>1. size - 1 = seg_high - seg_low
    BY <1>1
  <2> QED
    BY <2>1 DEF OpenSegment, Left
<1>4. Striking'
  <2>1. base_primes' \ todo' = {}
    BY <1>2
  <2> QED
    BY <1>2, <1>3, <2>1, Zenon DEF Striking
<1>5. TypeOK'
  BY <1>1 DEF IInv, TypeOK, OpenSegment, basic
<1>6. Called' /\ Ranged' /\ Sieving' /\ Windows' /\ AnswerExact' /\ NoError'
  BY DEF IInv, Called, Ranged, Sieving, Windows, AnswerExact, NoError, OpenSegment, basic
<1> QED
  BY <1>4, <1>5, <1>6 DEF IInv

\* What a base prime does to a window, whether it has something to strike or not.
LEMMA StrikeEffect ==
  ASSUME IInv, pc = "striking", NEW p \in todo
  PROVE  /\ p \in Nat \ {0} /\ First(p) = FirstFrom(seg_low, p)
         /\ First(p) \in Nat /\ First(p) >= seg_low
         /\ Left(seg_low, seg_high, base_primes \ (todo \ {p})) =
              IF First(p) > seg_high
              THEN segment
              ELSE segment \ Slice(First(p) - seg_low, p, size)
<1>1. p \in Nat \ {0}
  BY DEF IInv, TypeOK
<1>2. First(p) = FirstFrom(seg_low, p)
  BY DEF First, FirstFrom
<1>3. /\ seg_low \in Nat /\ seg_high \in Nat /\ seg_low <= seg_high
      /\ size = seg_high - seg_low + 1
      /\ segment = Left(seg_low, seg_high, base_primes \ todo)
  BY WindowInRange DEF IInv, Striking
<1>4. base_primes \ (todo \ {p}) = (base_primes \ todo) \cup {p}
  BY DEF IInv, TypeOK
<1>5. First(p) \in Nat /\ First(p) >= seg_low
  BY <1>1, <1>2, <1>3, FirstIsFirst
<1>6. Left(seg_low, seg_high, (base_primes \ todo) \cup {p}) =
        IF FirstFrom(seg_low, p) > seg_high
        THEN Left(seg_low, seg_high, base_primes \ todo)
        ELSE Left(seg_low, seg_high, base_primes \ todo)
               \ Slice(FirstFrom(seg_low, p) - seg_low, p, seg_high - seg_low + 1)
  BY <1>1, <1>3, PrimeStrikes
<1> QED
  BY <1>1, <1>2, <1>3, <1>4, <1>5, <1>6, Zenon

LEMMA SkipPrimeStep == ASSUME NEW p \in todo, IInv, SkipPrime(p) PROVE IInv'
<1>1. segment = Left(seg_low, seg_high, base_primes \ (todo \ {p}))
  BY StrikeEffect DEF SkipPrime
<1>2. /\ seg_low' = seg_low /\ end' = end /\ base_primes' = base_primes /\ pc' = "striking"
      /\ seg_high' = seg_high /\ todo' = todo \ {p} /\ segment' = segment /\ seg_low <= end
  BY DEF SkipPrime, basic, seg_high, IInv, Striking
<1>3. Striking'
  BY <1>1, <1>2, Zenon DEF Striking
<1>4. TypeOK'
  BY DEF IInv, TypeOK, SkipPrime, basic
<1>5. Called' /\ Ranged' /\ Sieving' /\ Windows' /\ AnswerExact' /\ NoError'
  BY DEF IInv, Called, Ranged, Sieving, Windows, AnswerExact, NoError, SkipPrime, basic
<1> QED
  BY <1>3, <1>4, <1>5 DEF IInv

\* The zero bytes fit: the assignment never raises.
LEMMA StrikeFits ==
  ASSUME NEW p \in todo, IInv, StrikePrime(p)
  PROVE  /\ segment' = segment \ Slice(First(p) - seg_low, p, size)
         /\ todo' = todo \ {p} /\ pc' = "striking"
<1>1. pc = "striking" /\ seg_low <= end /\ First(p) <= seg_high
  BY DEF StrikePrime, IInv, Striking
<1>2. p \in Nat \ {0} /\ First(p) \in Nat /\ First(p) >= seg_low
  BY <1>1, StrikeEffect
<1>3. seg_low \in Nat /\ seg_high \in Nat /\ size \in Nat /\ size = seg_high - seg_low + 1
  BY <1>1, WindowInRange
<1>4. First(p) - seg_low \in Nat /\ First(p) - seg_low < size
  BY <1>1, <1>2, <1>3
<1>5. Cardinality(Slice(First(p) - seg_low, p, size)) = (size - (First(p) - seg_low) + p - 1) \div p
  BY <1>2, <1>3, <1>4, SliceLength, Zenon
<1> QED
  BY <1>1, <1>5, Zenon DEF StrikePrime

LEMMA StrikePrimeStep == ASSUME NEW p \in todo, IInv, StrikePrime(p) PROVE IInv'
<1>1. /\ segment' = segment \ Slice(First(p) - seg_low, p, size)
      /\ todo' = todo \ {p} /\ pc' = "striking"
  BY StrikeFits
<1>2. pc = "striking" /\ seg_low <= end /\ First(p) <= seg_high
  BY DEF StrikePrime, IInv, Striking
<1>3. segment' = Left(seg_low, seg_high, base_primes \ (todo \ {p}))
  <2>1. First(p) \in Nat /\ seg_high \in Nat
    BY <1>2, StrikeEffect, WindowInRange
  <2>2. ~ (First(p) > seg_high)
    BY <1>2, <2>1
  <2> QED
    BY <1>1, <1>2, <2>2, StrikeEffect, Zenon
<1>4. seg_low' = seg_low /\ end' = end /\ base_primes' = base_primes /\ seg_high' = seg_high
  BY DEF StrikePrime, basic, seg_high
<1>5. Striking'
  BY <1>1, <1>2, <1>3, <1>4, Zenon DEF Striking
<1>6. TypeOK'
  BY <1>1, <1>2 DEF IInv, TypeOK, StrikePrime, basic
<1>7. Called' /\ Ranged' /\ Sieving' /\ Windows' /\ AnswerExact' /\ NoError'
  BY <1>1, <1>2
     DEF IInv, Called, Ranged, Sieving, Windows, AnswerExact, NoError, StrikePrime, basic
<1> QED
  BY <1>5, <1>6, <1>7 DEF IInv

\* A window from which every base prime has struck holds the flags of its primes.
LEMMA WindowCounted ==
  ASSUME IInv, pc = "striking", todo = {}
  PROVE  /\ count + Cardinality(segment) = Cardinality(PrimesIn(start, seg_high))
         /\ count + Cardinality(segment) \in Nat
<1>1. /\ seg_low \in Nat /\ seg_high \in Nat /\ seg_low <= seg_high /\ seg_high <= end
      /\ start \in Nat /\ end \in Nat /\ limit \in Nat /\ start <= seg_low /\ 2 <= seg_low
  BY WindowInRange DEF IInv, TypeOK, Windows, Striking
<1>2. segment = Left(seg_low, seg_high, PrimesIn(2, limit))
  <2>1. base_primes \ todo = PrimesIn(2, limit)
    BY DEF IInv, Windows
  <2> QED
    BY <2>1, Zenon DEF IInv, Striking
<1>3. segment = {k \in 0..(seg_high - seg_low) : Prime(seg_low + k)}
  <2>1. IsSqrt(limit, end)
    BY DEF IInv, Ranged
  <2>2. Left(seg_low, seg_high, PrimesIn(2, limit))
          = {k \in 0..(seg_high - seg_low) : Prime(seg_low + k)}
    BY <1>1, <2>1, WindowIsExact
  <2> QED
    BY <1>2, <2>2
<1>4. Cardinality(PrimesIn(start, seg_high)) =
        Cardinality(PrimesIn(start, seg_low - 1)) + Cardinality(segment)
  <2>1. seg_low <= seg_high + 1
    BY <1>1
  <2> QED
    BY <1>1, <1>3, <2>1, WindowAddsItsPrimes
<1>5. count = Cardinality(PrimesIn(start, seg_low - 1))
  BY DEF IInv, Windows
<1>6. Cardinality(PrimesIn(start, seg_high)) \in Nat
  BY <1>1, PrimesAreFinite
<1> QED
  BY <1>4, <1>5, <1>6

LEMMA CloseSegmentStep == IInv /\ CloseSegment => IInv'
<1> SUFFICES ASSUME IInv, CloseSegment PROVE IInv'
  OBVIOUS
<1>1. /\ count' = Cardinality(PrimesIn(start, seg_high)) /\ count' \in Nat
  BY WindowCounted DEF CloseSegment
<1>2. /\ seg_low \in Nat /\ seg_high \in Nat /\ seg_low <= seg_high /\ seg_high <= end
      /\ start \in Nat /\ end \in Nat /\ start <= seg_low /\ 2 <= seg_low
  BY WindowInRange DEF IInv, TypeOK, Windows, Striking, CloseSegment
<1>3. /\ seg_low' = seg_high + 1 /\ start' = start /\ end' = end
      /\ base_primes' = base_primes /\ limit' = limit
  BY DEF CloseSegment, basic
<1>4. Windows'
  <2>1. /\ start <= seg_low' /\ 2 <= seg_low' /\ seg_low' <= end + 1 /\ seg_low' - 1 = seg_high
    BY <1>2, <1>3
  <2>2. base_primes = PrimesIn(2, limit)
    BY DEF IInv, Windows, CloseSegment
  <2> QED
    BY <1>1, <1>3, <2>1, <2>2, Zenon DEF Windows
<1>5. TypeOK'
  BY <1>1, <1>2, <1>3 DEF IInv, TypeOK, CloseSegment, basic
<1>6. Called' /\ Ranged' /\ Sieving' /\ Striking' /\ AnswerExact' /\ NoError'
  BY DEF IInv, Called, Ranged, Sieving, Striking, AnswerExact, NoError, CloseSegment, basic
<1> QED
  BY <1>4, <1>5, <1>6 DEF IInv

LEMMA ReturnStep == IInv /\ Return => IInv'
<1> SUFFICES ASSUME IInv, Return PROVE IInv'
  OBVIOUS
<1>1. AnswerExact'
  <2>1. seg_low \in Nat /\ end \in Nat /\ seg_low <= end + 1 /\ seg_low > end
    BY DEF IInv, TypeOK, Windows, Return
  <2>2. seg_low - 1 = end
    BY <2>1
  <2>3. count = Cardinality(PrimesIn(start, end))
    BY <2>2 DEF IInv, Windows, Return
  <2>4. count' = count /\ start' = start /\ end' = end
    BY DEF Return
  <2> QED
    BY <2>3, <2>4, Zenon DEF AnswerExact
<1>2. TypeOK' /\ Called' /\ Ranged' /\ Sieving' /\ Windows' /\ Striking' /\ NoError'
  BY DEF IInv, TypeOK, Called, Ranged, Sieving, Windows, Striking, NoError, Return, basic
<1> QED
  BY <1>1, <1>2 DEF IInv

LEMMA Stuttering == IInv /\ UNCHANGED vars => IInv'
BY DEF vars, basic, IInv, TypeOK, Called, Ranged, Sieving, Windows, Striking, AnswerExact,
       NoError, seg_high

LEMMA Invariance == Spec => []IInv
<1>1. IInv /\ [Next]_vars => IInv'
  BY RejectStep, ReturnZeroStep, BeginStep, SieveOnceStep, EndSieveStep, OpenSegmentStep,
     SkipPrimeStep, StrikePrimeStep, CloseSegmentStep, ReturnStep, Stuttering
     DEF Next, Strike, Ended
<1> QED
  BY InitHolds, <1>1, PTL DEF Spec

\* The state of every call is of the right kind: the sets of base primes and of flags
\* stay inside their arrays (analytics.py:24-33, 49-67).
THEOREM TypeCorrectness == Spec => []TypeOK
BY Invariance, PTL DEF IInv

\* The base primes up to the root, after each window the number of primes below it, and
\* in the end the answer of /analytics/primes are right for every range, segment size
\* and limit (analytics.py:24-33, 36-69).
THEOREM CountsAreExact == Spec => []CountExact
<1>1. IInv => CountExact
  BY DEF IInv, Windows, CountExact, BasePrimesExact, CountedSoFar
<1> QED
  BY Invariance, <1>1, PTL

\* No slice assignment of the sieve raises a ValueError: the formula for the number of
\* zero bytes is the length of the slice (analytics.py:62-64).
THEOREM ZeroBytesFit == Spec => [](pc # "ValueError")
BY Invariance, PTL DEF IInv, NoError

(***************************************************************************)
(* Termination up to fairness: a measure that every step lowers.           *)
(***************************************************************************)
Phase ==
  CASE pc = "called" -> 3 [] pc = "sieving" -> 2
    [] pc \in {"segments", "striking"} -> 1 [] OTHER -> 0

\* The rounds of _simple_sieve still to come, at most.
Rounds == IF pc = "sieving" THEN limit + 1 - i ELSE 0

\* The numbers of the range that no closed window contains.
Ahead == IF pc \in {"segments", "striking"} THEN end + 1 - seg_low ELSE 0

\* What is left to do in a window.
Strikes ==
  CASE pc = "segments" -> Cardinality(base_primes) + 1
    [] pc = "striking" -> Cardinality(todo) [] OTHER -> 0

Measured == Phase \in Nat /\ Rounds \in Nat /\ Ahead \in Nat /\ Strikes \in Nat

Drops ==
  \/ Phase' < Phase
  \/ Phase' = Phase /\ Rounds' < Rounds
  \/ Phase' = Phase /\ Rounds' = Rounds /\ Ahead' < Ahead
  \/ Phase' = Phase /\ Rounds' = Rounds /\ Ahead' = Ahead /\ Strikes' < Strikes

LEMMA TodoIsFinite ==
  ASSUME IInv
  PROVE  /\ IsFiniteSet(base_primes) /\ Cardinality(base_primes) \in Nat
         /\ IsFiniteSet(todo) /\ Cardinality(todo) \in Nat
<1>1. limit \in Nat /\ base_primes \in SUBSET (2..limit) /\ todo \in SUBSET base_primes
  BY DEF IInv, TypeOK
<1>2. IsFiniteSet(base_primes)
  <2>1. IsFiniteSet(2..limit)
    BY <1>1, FS_Interval
  <2> QED
    BY <1>1, <2>1, FS_Subset
<1>3. IsFiniteSet(todo)
  BY <1>1, <1>2, FS_Subset
<1> QED
  BY <1>2, <1>3, FS_CardinalityType

LEMMA MeasureIsNatural == IInv => Measured
<1> SUFFICES ASSUME IInv PROVE Measured
  OBVIOUS
<1>1. Phase \in Nat
  BY DEF Phase
<1>2. Rounds \in Nat
  BY DEF Rounds, IInv, TypeOK, Sieving
<1>3. Ahead \in Nat
  BY DEF Ahead, IInv, TypeOK, Windows
<1>4. Strikes \in Nat
  BY TodoIsFinite DEF Strikes
<1> QED
  BY <1>1, <1>2, <1>3, <1>4 DEF Measured

LEMMA StepDrops == IInv /\ Next => Drops \/ UNCHANGED vars
<1> SUFFICES ASSUME IInv, Next PROVE Drops \/ UNCHANGED vars
  OBVIOUS
<1>1. CASE Reject \/ ReturnZero \/ Begin
  BY <1>1 DEF Reject, ReturnZero, Begin, Drops, Phase
<1>2. CASE SieveOnce
  BY <1>2 DEF SieveOnce, Drops, Phase, Rounds, IInv, TypeOK
<1>3. CASE EndSieve
  BY <1>3 DEF EndSieve, Drops, Phase
<1>4. CASE OpenSegment
  <2>1. Phase' = Phase /\ Rounds' = Rounds /\ Ahead' = Ahead
    BY <1>4 DEF OpenSegment, basic, Phase, Rounds, Ahead
  <2>2. Strikes = Cardinality(base_primes) + 1 /\ Strikes' = Cardinality(base_primes)
    BY <1>4 DEF OpenSegment, Strikes
  <2> QED
    BY <2>1, <2>2, TodoIsFinite DEF Drops
<1>5. ASSUME NEW p \in todo, SkipPrime(p) \/ StrikePrime(p) PROVE Drops
  <2>1. /\ pc = "striking" /\ pc' = "striking" /\ todo' = todo \ {p}
        /\ end' = end /\ seg_low' = seg_low
    BY <1>5, StrikeFits DEF SkipPrime, StrikePrime
  <2>2. Phase' = Phase /\ Rounds' = Rounds /\ Ahead' = Ahead
    BY <2>1 DEF Phase, Rounds, Ahead
  <2>3. Cardinality(todo \ {p}) = Cardinality(todo) - 1
    BY TodoIsFinite, FS_RemoveElement
  <2>4. Strikes = Cardinality(todo) /\ Strikes' = Cardinality(todo) - 1
    BY <2>1, <2>3 DEF Strikes
  <2> QED
    BY <2>2, <2>4, TodoIsFinite DEF Drops
<1>6. CASE CloseSegment
  <2>1. /\ pc = "striking" /\ pc' = "segments" /\ end' = end /\ seg_low' = seg_high + 1
    BY <1>6 DEF CloseSegment
  <2>2. seg_low \in Nat /\ seg_high \in Nat /\ end \in Nat /\ seg_low <= seg_high
    BY <2>1, WindowInRange DEF IInv, TypeOK, Striking
  <2>3. Phase' = Phase /\ Rounds' = Rounds
    BY <2>1 DEF Phase, Rounds
  <2>4. Ahead = end + 1 - seg_low /\ Ahead' = end + 1 - (seg_high + 1)
    BY <2>1 DEF Ahead
  <2> QED
    BY <2>2, <2>3, <2>4 DEF Drops
<1>7. CASE Return
  BY <1>7 DEF Return, Drops, Phase
<1> QED
  BY <1>1, <1>2, <1>3, <1>4, <1>5, <1>6, <1>7 DEF Next, Strike, Ended

\* No loop of the sieve runs for ever: every step lowers, lexicographically, four
\* natural numbers (analytics.py:30, 51, 57).  With the fairness of the thread this is
\* why Terminates holds.
THEOREM EveryStepIsProgress == Spec => [][Measured /\ Measured' /\ Drops]_vars
<1>1. IInv /\ IInv' /\ [Next]_vars => [Measured /\ Measured' /\ Drops]_vars
  <2>1. IInv' => Measured'
    BY MeasureIsNatural, PTL
  <2> QED
    BY <2>1, MeasureIsNatural, StepDrops
<1> QED
  BY <1>1, Invariance, PTL DEF Spec

(***************************************************************************)
(* Where a step needs a number to exist, it exists.                        *)
(***************************************************************************)
LEMMA RootExists ==
  ASSUME NEW n \in Nat, n >= 2
  PROVE  \E r \in 1..n : IsSqrt(r, n)
<1> DEFINE Above == {r \in Nat : n < (r + 1) * (r + 1)}
<1>1. n \in Above
  BY SMT
<1>2. PICK r \in Above : \A x \in Above : r <= x
  <2>1. Above \subseteq Nat /\ Above # {}
    BY <1>1
  <2> QED
    BY <2>1, LeastElement
<1>3. r \in Nat /\ n < (r + 1) * (r + 1) /\ r <= n
  BY <1>1, <1>2
<1>4. r # 0
  BY <1>3, SMT
<1>5. r - 1 \in Nat /\ r - 1 \notin Above
  BY <1>2, <1>3, <1>4
<1>6. r * r <= n
  <2>1. (r - 1) + 1 = r
    BY <1>3
  <2> QED
    BY <1>3, <1>5, <2>1, SMT
<1> QED
  BY <1>3, <1>4, <1>6 DEF IsSqrt

\* The steps whose guards ask for a number, the root and the next base prime, find it.
NumbersFound ==
  /\ pc = "called" /\ end >= 2 => \E r \in 1..end : IsSqrt(r, end)
  /\ pc = "striking" /\ todo # {} => \E p \in todo : NextBasePrime(p)

\* No call is stuck before its end: isqrt has a value, and a set of base primes that is
\* not empty has a first one (analytics.py:45, 57).  With EveryStepIsProgress, Terminates
\* asks no more than that the thread is scheduled.
THEOREM NoCallIsStuck == Spec => []NumbersFound
<1>1. IInv => NumbersFound
  <2> SUFFICES ASSUME IInv PROVE NumbersFound
    OBVIOUS
  <2>1. ASSUME pc = "called", end >= 2 PROVE \E r \in 1..end : IsSqrt(r, end)
    BY <2>1, RootExists DEF IInv, TypeOK
  <2>2. ASSUME todo # {} PROVE \E p \in todo : NextBasePrime(p)
    <3>1. todo \subseteq Nat
      BY DEF IInv, TypeOK
    <3>2. PICK p \in todo : \A q \in todo : p <= q
      BY <2>2, <3>1, LeastElement
    <3> QED
      BY <3>2 DEF NextBasePrime
  <2> QED
    BY <2>1, <2>2 DEF NumbersFound
<1> QED
  BY Invariance, <1>1, PTL
=============================================================================
