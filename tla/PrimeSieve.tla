------------------------------ MODULE PrimeSieve ------------------------------
(***************************************************************************)
(* Task A of the client app: counting the primes of a range with a         *)
(* segmented sieve (client_app/app/services/analytics.py) behind the       *)
(* bounds of its endpoint (api/analytics.py).  A step is one iteration of  *)
(* a loop.  A bytearray of flags is the set of the indices whose byte is 1.*)
(***************************************************************************)
EXTENDS Naturals, FiniteSets

CONSTANTS
  MaxEnd,      \* settings.analytics_max_end
  Inputs,      \* the numbers a client sends
  SegmentSize  \* _SEGMENT_SIZE

ASSUME ConstantsAssumption ==
  /\ MaxEnd \in Nat /\ Inputs \subseteq Nat
  /\ SegmentSize \in Nat \ {0}

VARIABLES
  start, end,  \* the query parameters
  pc,          \* the loop that runs, or how the call ended
  limit,       \* math.isqrt(end)
  i,           \* the index of the outer loop of _simple_sieve
  is_prime,    \* the flags of _simple_sieve
  base_primes, \* its result
  count,       \* the primes found in the segments before seg_low
  seg_low,     \* the first number of the current segment
  segment,     \* the flags of the current segment
  todo         \* the base primes that have not been struck out of it

basic == <<limit, i, is_prime, base_primes>>
vars  == <<start, end, pc, basic, count, seg_low, segment, todo>>

Larger(a, b)  == IF a >= b THEN a ELSE b
Smaller(a, b) == IF a <= b THEN a ELSE b

\* math.isqrt
IsSqrt(r, n) == r * r <= n /\ n < (r + 1) * (r + 1)

seg_high == Smaller(seg_low + SegmentSize - 1, end)
size     == seg_high - seg_low + 1

\* The indices of array[first::p] for an array of n bytes.
Slice(first, p, n) == {k \in 0..(n - 1) : k >= first /\ (k - first) % p = 0}

Init ==
  /\ start \in Inputs /\ end \in Inputs
  /\ pc = "called"
  /\ limit = 0 /\ i = 2 /\ is_prime = {} /\ base_primes = {}
  /\ count = 0 /\ seg_low = 0 /\ segment = {} /\ todo = {}

\* count_primes_in_range: 422.
Reject ==
  /\ pc = "called"
  /\ end < start \/ end > MaxEnd
  /\ pc' = "rejected"
  /\ UNCHANGED <<start, end, basic, count, seg_low, segment, todo>>

\* count_primes: there is no prime below 2.
ReturnZero ==
  /\ pc = "called"
  /\ start <= end /\ end <= MaxEnd
  /\ end < 2
  /\ pc' = "returned"
  /\ UNCHANGED <<start, end, basic, count, seg_low, segment, todo>>

\* Mutant of Begin: the flags of 0 and 1 stay set.
BeginAtZero ==
  /\ pc = "called"
  /\ start <= end /\ end <= MaxEnd
  /\ end >= 2
  /\ pc' = "sieving"
  /\ limit' \in 1..end /\ IsSqrt(limit', end)
  /\ is_prime' = 0..limit'
  /\ seg_low' = Larger(start, 2)
  /\ UNCHANGED <<start, end, i, base_primes, count, segment, todo>>

\* count_primes calls _simple_sieve(math.isqrt(end)).
Begin ==
  /\ pc = "called"
  /\ start <= end /\ end <= MaxEnd
  /\ end >= 2
  /\ pc' = "sieving"
  /\ limit' \in 1..end /\ IsSqrt(limit', end)
  /\ is_prime' = 2..limit'
  /\ seg_low' = Larger(start, 2)
  /\ UNCHANGED <<start, end, i, base_primes, count, segment, todo>>

\* Mutant of SieveOnce: the index moves on behind a prime only.
SieveOnceStuck ==
  /\ pc = "sieving"
  /\ i * i <= limit
  /\ is_prime' = is_prime \ Slice(i * i, i, limit + 1)
  /\ i' = IF i \in is_prime THEN i + 1 ELSE i
  /\ UNCHANGED <<start, end, pc, limit, base_primes, count, seg_low, segment, todo>>

\* One round of _simple_sieve: the multiples of a prime, from its square on.
SieveOnce ==
  /\ pc = "sieving"
  /\ i * i <= limit
  /\ is_prime' = IF i \in is_prime THEN is_prime \ Slice(i * i, i, limit + 1) ELSE is_prime
  /\ i' = i + 1
  /\ UNCHANGED <<start, end, pc, limit, base_primes, count, seg_low, segment, todo>>

\* _simple_sieve returns.
EndSieve ==
  /\ pc = "sieving"
  /\ i * i > limit
  /\ base_primes' = is_prime
  /\ pc' = "segments"
  /\ UNCHANGED <<start, end, limit, i, is_prime, count, seg_low, segment, todo>>

\* The next window, all of it taken for prime.
OpenSegment ==
  /\ pc = "segments"
  /\ seg_low <= end
  /\ segment' = 0..(size - 1)
  /\ todo' = base_primes
  /\ pc' = "striking"
  /\ UNCHANGED <<start, end, basic, count, seg_low>>

\* Mutant of First: the first multiple of the window, be it p itself.
FirstMultiple(p) == ((seg_low + p - 1) \div p) * p

First(p) == Larger(p * p, ((seg_low + p - 1) \div p) * p)

\* The base primes are taken in increasing order.
NextBasePrime(p) == p \in todo /\ \A q \in todo : p <= q

\* p has no multiple to strike in this window.
SkipPrime(p) ==
  /\ pc = "striking"
  /\ NextBasePrime(p)
  /\ First(p) > seg_high
  /\ todo' = todo \ {p}
  /\ UNCHANGED <<start, end, pc, basic, count, seg_low, segment>>

\* Mutant of StrikePrime: the bytes are counted with a floor division.
StrikePrimeFloor(p) ==
  /\ pc = "striking"
  /\ NextBasePrime(p)
  /\ First(p) <= seg_high
  /\ LET idx     == First(p) - seg_low
         strikes == (size - idx) \div p
         slice   == Slice(idx, p, size)
     IN IF Cardinality(slice) = strikes
        THEN segment' = segment \ slice /\ todo' = todo \ {p} /\ UNCHANGED pc
        ELSE pc' = "ValueError" /\ UNCHANGED <<segment, todo>>
  /\ UNCHANGED <<start, end, basic, count, seg_low>>

\* segment[idx::p] = zero bytes: Python raises a ValueError unless there are as
\* many bytes as the slice has indices.
StrikePrime(p) ==
  /\ pc = "striking"
  /\ NextBasePrime(p)
  /\ First(p) <= seg_high
  /\ LET idx     == First(p) - seg_low
         strikes == (size - idx + p - 1) \div p
         slice   == Slice(idx, p, size)
     IN IF Cardinality(slice) = strikes
        THEN segment' = segment \ slice /\ todo' = todo \ {p} /\ UNCHANGED pc
        ELSE pc' = "ValueError" /\ UNCHANGED <<segment, todo>>
  /\ UNCHANGED <<start, end, basic, count, seg_low>>

\* Mutant of CloseSegment: the next window skips a number.
CloseSegmentGap ==
  /\ pc = "striking"
  /\ todo = {}
  /\ count' = count + Cardinality(segment)
  /\ seg_low' = seg_high + 2
  /\ pc' = "segments"
  /\ UNCHANGED <<start, end, basic, segment, todo>>

\* What is left of the window is counted.
CloseSegment ==
  /\ pc = "striking"
  /\ todo = {}
  /\ count' = count + Cardinality(segment)
  /\ seg_low' = seg_high + 1
  /\ pc' = "segments"
  /\ UNCHANGED <<start, end, basic, segment, todo>>

Return ==
  /\ pc = "segments"
  /\ seg_low > end
  /\ pc' = "returned"
  /\ UNCHANGED <<start, end, basic, count, seg_low, segment, todo>>

Ended == pc \in {"rejected", "returned", "ValueError"} /\ UNCHANGED vars

Strike == \E p \in todo : SkipPrime(p) \/ StrikePrime(p)

Next ==
  \/ Reject \/ ReturnZero \/ Begin
  \/ SieveOnce \/ EndSieve
  \/ OpenSegment \/ Strike \/ CloseSegment \/ Return
  \/ Ended

Spec == Init /\ [][Next]_vars

\* The thread that runs the call is scheduled until it returns.
FairSpec == Spec /\ WF_vars(Next)

-----------------------------------------------------------------------------
\* The definition of a prime, and the primes from a to b.
Prime(n) == n >= 2 /\ \A d \in 2..(n - 1) : n % d # 0

PrimesIn(a, b) == {n \in a..b : Prime(n)}

TypeOK ==
  /\ start \in Nat /\ end \in Nat
  /\ pc \in {"called", "rejected", "sieving", "segments", "striking", "returned", "ValueError"}
  /\ limit \in Nat /\ i \in Nat /\ seg_low \in Nat /\ count \in Nat
  /\ is_prime \subseteq 2..limit /\ base_primes \subseteq 2..limit
  /\ segment \subseteq Nat /\ todo \subseteq base_primes

\* The base primes are exactly the primes up to the square root of the end
\* (analytics.py:24-33), so every composite number of the range has one as a factor.
BasePrimesExact ==
  pc \in {"segments", "striking"} => base_primes = PrimesIn(2, limit)

\* Between segments, the primes before seg_low have been counted, each once: no
\* number falls between two segments or into both (analytics.py:49-67).
CountedSoFar ==
  pc = "segments" => count = Cardinality(PrimesIn(start, seg_low - 1))

\* The answer is the number of primes of the range.
AnswerExact ==
  pc = "returned" => count = Cardinality(PrimesIn(start, end))

\* The two loops hand on exactly what they should, the inner sieve its primes and a
\* segment its count, and the answer is right whatever the number of segments and the
\* place of its ends in them (analytics.py:24-33, 36-69).
CountExact == BasePrimesExact /\ CountedSoFar /\ AnswerExact

\* Every call ends with an answer: no loop runs for ever, and the zero bytes always
\* fit the slice that they are assigned to (analytics.py:51, 57-67).
Terminates == <>(pc \in {"rejected", "returned"})
=============================================================================
