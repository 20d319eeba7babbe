\* isqrt(290) = 17: the inner sieve strikes for 2 and 3 and passes over 4, and a
\* window of 12 numbers is shorter than the largest base primes.
CONSTANTS
  MaxEnd = 290
  Inputs <- SmallAndSquares
  SegmentSize = 12
SPECIFICATION FairSpec
INVARIANTS
  TypeOK
  CountExact
PROPERTY Terminates
