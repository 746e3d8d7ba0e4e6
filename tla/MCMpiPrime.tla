----------------------------- MODULE MCMpiPrime -----------------------------
(* Instances of MpiPrime with limbs of 4 bits.                             *)
EXTENDS MpiPrime

Primes == <<3>>
Pos(p) == [s |-> 1, p |-> p]
Natural(v) == Pos(IF v < Base THEN <<v>> ELSE <<v % Base, v \div Base>>)

Bounds == {Natural(v) : v \in {1, 2, 7, 16, 17, 100, 255}} \cup {Pos(<<5, 0>>), Pos(<<0, 0>>)}
RandomCalls ==
  {[kind |-> "random", X |-> Fresh, N |-> n, min |-> min] :
     n \in Bounds, min \in {-1, 0, 1, 7}}

(* Every number of one limb; primes, squares, products and numbers with    *)
(* many liars of two; a leading zero limb and a negative number.           *)
Tested == {Natural(v) : v \in 0 .. 15 \cup {17, 25, 49, 65, 85, 121, 241, 253}}
          \cup {Pos(<<13, 0>>), [s |-> -1, p |-> <<1, 1>>]}
TestCalls ==
  {[kind |-> "is_prime", X |-> x, N |-> Fresh, rounds |-> 1] : x \in Tested}
  \cup {[kind |-> "is_prime", X |-> Natural(v), N |-> Fresh, rounds |-> 2] : v \in {7, 13, 25}}
(* Of 2 and of 9 bits, below 3 and above MAX_BITS, no prime is generated.  *)
GenerateCalls ==
  {[kind |-> "gen_prime", X |-> Fresh, N |-> Fresh, nbits |-> n, DH |-> dh, rounds |-> 1] :
     n \in {2, 3, 6, 9}, dh \in BOOLEAN}
AllCalls == RandomCalls \cup TestCalls \cup GenerateCalls
=============================================================================
