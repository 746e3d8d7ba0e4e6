------------------------------ MODULE MpiPrime ------------------------------
(***************************************************************************)
(* The functions of bignum.c that draw random numbers: mpi_random, the     *)
(* Miller-Rabin test and the generation of primes.  The generator may give *)
(* any bytes, or fail; every draw is a step, and what the code computes    *)
(* until the next draw belongs to it.  There is enough memory (running out *)
(* of it is MpiCalls' subject).                                            *)
(***************************************************************************)
EXTENDS MpiIO

CONSTANTS Jobs,             \* the calls that are made, see Init
          SmallPrimes,      \* small_prime, without the -103 that ends it
          RANDOM_TRIES,     \* the value of count in mpi_random
          PICK_TRIES,       \* 30 in miller_rabin
          CEIL_MAXUINT_DIV_SQRT2,
          CandidateBound    \* DH candidates above this are not followed

VARIABLES job,     \* the call: [kind, X, ...]
          pc,      \* "try", "draw", "candidate", "pick" or "done"
          o,       \* the objects X, Y, lower_bound and those of miller_rabin
          k,       \* count of mpi_random
          mr,      \* of: the object tested; round, count; base: the last
                   \* base that passed; over: was the last pick masked
                   \* and still not below W?
          ret

vars == <<job, pc, o, k, mr, ret>>

RNG_FAILED == "RNG_FAILED"
CERTAIN == "1"                           \* mpi_check_small_factors' 1
Names == {"X", "Y", "N", "W", "R", "T", "A", "RR"}
Begin == [m |-> [n \in Names \cup Locals |-> IF n \in Names THEN o[n] ELSE Fresh],
          mem |-> 1000, ret |-> OK]
Keep(st) == [n \in Names |-> st.m[n]]
Val(x) == x.s * FoldRight(LAMBDA d, v : v * Base + d, x.p, 0)
Draws(n) == [1 .. n -> 0 .. Char - 1]

mpi_fill_random_internal(st, X, draw) ==
  LET limbs == CHARS_TO_LIMBS(Len(draw))
      memory == Zeros(limbs * ciL - Len(draw)) \o draw
  IN  IF N(st, X) < limbs THEN Fail(st, BAD_INPUT_DATA)
      ELSE PutP(st, X, Low(mpi_bigendian_to_host(LimbsOfMemory(memory)), N(st, X)))

mpi_fill_random(st, X, draw) ==
  IF draw = <<>> THEN mpi_resize_clear(st, X, 0)
  ELSE mpi_fill_random_internal(mpi_resize_clear(st, X, CHARS_TO_LIMBS(Len(draw))), X, draw)

(* OK: no small factor; CERTAIN: X is one of them; else not a prime.       *)
FirstFound(small, divides) ==
  IF small # 0 /\ (divides = 0 \/ small <= divides) THEN CERTAIN
  ELSE IF divides # 0 THEN NOT_ACCEPTABLE ELSE OK
mpi_check_small_factors(x) ==
  IF x.p[1] % 2 = 0 THEN NOT_ACCEPTABLE
  ELSE FirstFound(SelectInSeq(SmallPrimes, LAMBDA q : mpi_cmp_int(x, q) <= 0),
                  SelectInSeq(SmallPrimes, LAMBDA q : mpi_mod_int(x, q).r = 0))
-----------------------------------------------------------------------------
(* Miller-Rabin.                                                           *)

(* W = X - 1, R = W without its powers of two, and an empty cache.         *)
OddPart(st) == Put(mpi_shift_r(mpi_copy(st, "R", "W"), "R", mpi_lsb(st.m["W"])), "RR", Fresh)
StartMR(st, of) == OddPart(mpi_sub_int(st, "W", of, 1))

(* A pick longer than W loses its high bits, in its top limb only.  The    *)
(* shift is by a number of bits that is negative if A has more limbs than  *)
(* W needs: the machine takes it modulo the limb's width.                  *)
MaskPick(a, w) ==
  LET bits == mpi_bitlen(w) - (Len(a.p) - 1) * biL - 1
  IN  IF mpi_bitlen(a) > mpi_bitlen(w)
      THEN [a EXCEPT !.p[Len(a.p)] = @ % 2^(bits % biL)] ELSE a

At(st, z) == mpi_cmp_mpi(st.m["A"], z) = 0
IsOne(st) == mpi_cmp_int(st.m["A"], 1) = 0

RECURSIVE SquareUntil(_, _, _, _)
GoOn(st, X, j, s) == IF IsOne(st) THEN st ELSE SquareUntil(st, X, j + 1, s)
SquareUntil(st, X, j, s) ==
  IF j >= s \/ At(st, st.m["W"]) THEN st
  ELSE GoOn(mpi_mod_mpi(mpi_mul_mpi(st, "T", "A", "A"), "A", "T", X), X, j, s)

LastRound(st) == [st |-> st, pass |-> At(st, st.m["W"]) /\ ~IsOne(st)]

MutPowers(st, X) ==                      \* no squaring
  [st |-> st, pass |-> At(st, st.m["W"]) \/ IsOne(st)]

MutLoose(st, X) ==                       \* 1 is taken for a pass also after squarings
  [st |-> st, pass |-> At(SquareUntil(st, X, 1, mpi_lsb(st.m["W"])), st.m["W"])
                       \/ IsOne(SquareUntil(st, X, 1, mpi_lsb(st.m["W"])))]

(* A^R, A^2R, ...: passes if that starts with 1 or runs into X - 1.        *)
Powers(st, X) ==
  IF At(st, st.m["W"]) \/ IsOne(st) THEN [st |-> st, pass |-> TRUE]
  ELSE LastRound(SquareUntil(st, X, 1, mpi_lsb(st.m["W"])))

Round(st, X) == Powers(mpi_exp_mod(st, "A", "A", "R", X, "RR"), X)
-----------------------------------------------------------------------------
NoTest == [of |-> "X", round |-> 0, count |-> 0, base |-> Fresh, over |-> FALSE]

Init ==
  /\ job \in Jobs
  /\ o = [n \in Names |-> IF n = "N" THEN job.N ELSE IF n = "X" THEN job.X ELSE Fresh]
  /\ k = RANDOM_TRIES
  /\ mr = NoTest
  /\ ret = OK
  /\ pc = "start"

Done(r) == pc' = "done" /\ ret' = r
Test(of) == pc' = "pick" /\ mr' = [NoTest EXCEPT !.of = of]

(* mbedtls_mpi_random up to its loop.                                      *)
StartRandom ==
  /\ pc = "start" /\ job.kind = "random"
  /\ IF job.min < 0 \/ mpi_cmp_int(o["N"], job.min) <= 0
     THEN Done(BAD_INPUT_DATA) /\ UNCHANGED o
     ELSE /\ pc' = "try" /\ UNCHANGED ret
          /\ o' = Keep(mpi_lset(mpi_grow(mpi_resize_clear(Begin, "X", Len(o["N"].p)),
                                         "Y", Len(o["N"].p)), "Y", job.min))
  /\ UNCHANGED <<job, k, mr>>

(* The leftmost bits of what was drawn.                                    *)
OneTry(draw) ==
  mpi_shift_r(mpi_fill_random_internal(Begin, "X", draw), "X",
              mpi_size(o["N"]) * charBits - mpi_bitlen(o["N"]))

MutInRange(st) == mpi_lt_mpi_ct(st.m["X"], st.m["N"])
InRange(st) == ~mpi_lt_mpi_ct(st.m["X"], st.m["Y"]) /\ mpi_lt_mpi_ct(st.m["X"], st.m["N"])

(* One round of its loop; lower_bound is in Y.  The last try is not even   *)
(* looked at.                                                              *)
Try ==
  /\ pc = "try"
  /\ \E draw \in Draws(mpi_size(o["N"])) :
       LET st == OneTry(draw)
       IN  /\ k' = k - 1 /\ o' = Keep(st)
           /\ IF k = 1 THEN Done(NOT_ACCEPTABLE)
              ELSE IF InRange(st) THEN Done(OK) ELSE UNCHANGED <<pc, ret>>
  /\ UNCHANGED <<job, mr>>

(* mbedtls_mpi_is_prime_ext, up to the first pick.                         *)
IsPrime(x) ==
  IF mpi_cmp_int(x, 0) = 0 \/ mpi_cmp_int(x, 1) = 0 THEN NOT_ACCEPTABLE
  ELSE IF mpi_cmp_int(x, 2) = 0 THEN CERTAIN ELSE mpi_check_small_factors(x)

Checked(XX, v) ==
  IF v = OK THEN Test("X") /\ o' = Keep(StartMR(XX, "X")) /\ UNCHANGED ret
  ELSE Done(IF v = CERTAIN THEN OK ELSE v) /\ UNCHANGED <<o, mr>>

StartIsPrime ==
  /\ pc = "start" /\ job.kind = "is_prime"
  /\ LET XX == PutS(Begin, "X", 1)
     IN  Checked(XX, IsPrime(XX.m["X"]))
  /\ UNCHANGED <<job, k>>

StartGenPrime ==
  /\ pc = "start" /\ job.kind = "gen_prime"
  /\ IF job.nbits < 3 \/ job.nbits > MAX_BITS THEN Done(BAD_INPUT_DATA)
     ELSE pc' = "draw" /\ UNCHANGED ret
  /\ UNCHANGED <<job, o, k, mr>>

LowBits(st, w, b) == [st EXCEPT !.m["X"].p[1] = @ - (@ % w) + b]
TwoMod3(st, r) == IF r = 2 THEN st ELSE mpi_add_int(st, "X", "X", IF r = 0 THEN 8 ELSE 4)
HalfOf(st) == mpi_shift_r(mpi_copy(st, "Y", "X"), "Y", 1)
ShapeDH(st) == HalfOf(TwoMod3(st, mpi_mod_int(st.m["X"], 3).r))

(* X becomes a candidate of nbits bits, for DH one that is 3 mod 4 and 2   *)
(* mod 3, with Y half of it.                                               *)
Shape(st) == IF job.DH THEN ShapeDH(LowBits(st, 4, 3)) ELSE LowBits(st, 2, 1)

LongEnough(limb) == limb >= CEIL_MAXUINT_DIV_SQRT2

Shaped(st, v) ==
  \/ /\ job.DH
     /\ o' = Keep(st) /\ pc' = "candidate" /\ UNCHANGED <<mr, ret>>
  \/ /\ ~job.DH /\ v = OK
     /\ o' = Keep(StartMR(st, "X")) /\ Test("X") /\ UNCHANGED ret
  \/ /\ ~job.DH /\ v = NOT_ACCEPTABLE
     /\ o' = Keep(st) /\ UNCHANGED <<pc, mr, ret>>
  \/ /\ ~job.DH /\ v = CERTAIN
     /\ o' = Keep(st) /\ Done(OK) /\ UNCHANGED mr

ShapedAs(st) == Shaped(st, IsPrime(st.m["X"]))
Drawn(st, n) ==
  IF LongEnough(st.m["X"].p[n]) THEN ShapedAs(Shape(mpi_shift_r(st, "X", n * biL - job.nbits)))
  ELSE o' = Keep(st) /\ UNCHANGED <<pc, mr, ret>>

Draw ==
  /\ pc = "draw"
  /\ \E draw \in Draws(BITS_TO_LIMBS(job.nbits) * ciL) :
       Drawn(mpi_fill_random(Begin, "X", draw), BITS_TO_LIMBS(job.nbits))
  /\ UNCHANGED <<job, k>>

MutUp(st) == mpi_add_int(mpi_add_int(st, "X", "X", 12), "Y", "Y", 12)
Up(st) == mpi_add_int(mpi_add_int(st, "X", "X", 12), "Y", "Y", 6)

Sieved(v) ==
  \/ v = OK /\ o' = Keep(StartMR(Begin, "X")) /\ Test("X") /\ UNCHANGED ret
  \/ /\ v = NOT_ACCEPTABLE /\ Val(o["X"]) < CandidateBound
     /\ o' = Keep(Up(Begin)) /\ UNCHANGED <<pc, mr, ret>>
  \/ v = CERTAIN /\ Done(v) /\ UNCHANGED <<o, mr>>

(* The head of the inner loop for DH: small factors of X, then of Y.  A    *)
(* certain prime ends the call with 1.                                     *)
Candidate ==
  /\ pc = "candidate"
  /\ Sieved(IF mpi_check_small_factors(o["X"]) = OK THEN mpi_check_small_factors(o["Y"])
            ELSE mpi_check_small_factors(o["X"]))
  /\ UNCHANGED <<job, k>>

(* miller_rabin's verdict on mr.of and what the caller does with it.       *)
Verdict(pass, seen) ==
  LET st == mpi_free(Begin, {"W", "R", "T", "A", "RR"})
      safe == job.kind = "gen_prime" /\ job.DH
  IN  \/ /\ pass /\ (safe => mr.of = "Y")
         /\ Done(OK) /\ o' = Keep(st) /\ mr' = seen
      \/ /\ pass /\ safe /\ mr.of = "X"
         /\ Test("Y") /\ o' = Keep(StartMR(st, "Y")) /\ UNCHANGED ret
      \/ /\ ~pass /\ job.kind = "is_prime"
         /\ Done(NOT_ACCEPTABLE) /\ o' = Keep(st) /\ mr' = seen
      \/ /\ ~pass /\ job.kind = "gen_prime" /\ ~job.DH
         /\ pc' = "draw" /\ mr' = NoTest /\ o' = Keep(st) /\ UNCHANGED ret
      \/ /\ ~pass /\ safe /\ Val(o["X"]) < CandidateBound
         /\ pc' = "candidate" /\ mr' = NoTest /\ o' = Keep(Up(st)) /\ UNCHANGED ret

Passed(seen, a) == [seen EXCEPT !.round = @ + 1, !.count = 0, !.base = a]

Rounded(r, a, seen) ==
  \/ /\ r.pass /\ mr.round + 1 < job.rounds
     /\ o' = [o EXCEPT !["RR"] = r.st.m["RR"]]
     /\ mr' = Passed(seen, a) /\ UNCHANGED <<pc, ret>>
  \/ /\ ~(r.pass /\ mr.round + 1 < job.rounds)
     /\ Verdict(r.pass, IF r.pass THEN Passed(seen, a) ELSE seen)

Picked(a, seen) ==
  \/ mr.count > PICK_TRIES /\ Verdict(FALSE, seen)
  \/ /\ mr.count <= PICK_TRIES
     /\ IF mpi_cmp_mpi(a, o["W"]) >= 0 \/ mpi_cmp_int(a, 1) <= 0
        THEN mr' = [seen EXCEPT !.count = @ + 1] /\ UNCHANGED <<pc, o, ret>>
        ELSE Rounded(Round(Put(Begin, "A", a), mr.of), a, seen)

(* over: the pick was too long, was cut and is still not below W.          *)
Masked(a, long) == Picked(a, [mr EXCEPT !.over = long /\ mpi_cmp_mpi(a, o["W"]) >= 0])
Cut(a) == Masked(MaskPick(a, o["W"]), mpi_bitlen(a) > mpi_bitlen(o["W"]))

(* A pick: drawn, cut to W's length, given up after too many, drawn again  *)
(* if it is not in 2 .. X - 2; then a round of the test.  What is left in  *)
(* A and T is overwritten by the next pick and not kept.                   *)
Pick ==
  /\ pc = "pick"
  /\ \E draw \in Draws(Len(o[mr.of].p) * ciL) : Cut(mpi_fill_random(Begin, "A", draw).m["A"])
  /\ UNCHANGED <<job, k>>

(* f_rng returned an error.                                                *)
RngFails ==
  /\ pc \in {"try", "draw", "pick"}
  /\ Done(RNG_FAILED)
  /\ UNCHANGED <<job, o, k, mr>>

(* The caller has the result.                                              *)
Returned == pc = "done" /\ UNCHANGED vars

Next ==
  \/ StartRandom \/ Try \/ StartIsPrime \/ StartGenPrime \/ Draw \/ Candidate \/ Pick
  \/ RngFails \/ Returned

Spec == Init /\ [][Next]_vars
-----------------------------------------------------------------------------
(* What the calls should compute, on the integers.                         *)
Prime(x) == x > 1 /\ \A d \in 2 .. x - 1 : d * d > x \/ x % d # 0
Power(a, e, n) == FoldLeft(LAMBDA y, i : (y * a) % n, 1, Upto(e))
Odd(w) == CHOOSE r \in 1 .. w : r % 2 = 1 /\ \E s \in 0 .. 8 : r * 2^s = w
(* No power a^(R 2^i), i < s, shows that x is composite.                   *)
StrongLiar(a, x) ==
  LET R == Odd(x - 1)
      s == CHOOSE s \in 0 .. 8 : R * 2^s = x - 1
  IN  Power(a, R, x) = 1 \/ \E i \in 0 .. s - 1 : Power(a, R * 2^i, x) = x - 1

(* mpi_random "avoids any bias": a number it returns with 0 is in          *)
(* min .. N - 1, although it is drawn, cut and compared as bytes and limbs *)
(* of another length than N's, and every such number comes from the same   *)
(* number of draws, at least one.                                          *)
RandomUniform ==
  /\ job.kind = "random" /\ pc = "done" /\ ret = OK =>
       job.min <= Val(o["X"]) /\ Val(o["X"]) < Val(o["N"])
  /\ pc = "try" /\ k = RANDOM_TRIES =>
       LET results == {<<Val(OneTry(d).m["X"]), d>> : d \in Draws(mpi_size(o["N"]))}
           ways(v) == Cardinality({r \in results : r[1] = v})
       IN  \A v \in job.min .. Val(o["N"]) - 1 : ways(v) = ways(job.min) /\ ways(v) > 0

(* is_prime rejects a prime only when it ran out of picks, never because   *)
(* of a base or a small factor; and a pick longer than X - 1 is cut below  *)
(* it, so that the picks do not run out that way, unless X has leading     *)
(* zero limbs.                                                             *)
PrimeNotRejected ==
  /\ job.kind = "is_prime" /\ pc = "done" /\ ret = NOT_ACCEPTABLE =>
       ~Prime(Mag(Val(job.X))) \/ mr.count > PICK_TRIES
  /\ pc = "pick" /\ Top(o[mr.of].p) = Len(o[mr.of].p) => ~mr.over

(* A base passes a round only if 1 < a < X - 1 and it is no witness: what  *)
(* the code computes with exp_mod, its cache RR and squarings is the test. *)
BaseIsLiar ==
  mr.base # Fresh =>
    LET x == Mag(Val(o[mr.of]))
        a == Val(mr.base)
    IN  1 < a /\ a < x - 1 /\ StrongLiar(a, x)

(* A generated prime has at least nbits - 1/2 bits, as FIPS 186-4 asks,    *)
(* and one that is not a safe prime at most nbits.  A safe prime may have  *)
(* more: X is raised by 4, 8 and 12 with no bound.  While it is searched   *)
(* X = 2Y + 1, and X = 3 mod 4 and 2 mod 3 to the end, however often both  *)
(* were raised.                                                            *)
Generated ==
  job.kind = "gen_prime" =>
    LET x == Val(o["X"])
    IN  /\ pc = "done" /\ ret = OK => /\ x % 2 = 1 /\ x * x >= 2^(2 * job.nbits - 1)
                                     /\ IF job.DH THEN x % 12 = 11 ELSE x < 2^job.nbits
        /\ pc \in {"candidate", "pick"} /\ job.DH =>
             x = 2 * Val(o["Y"]) + 1 /\ x % 12 = 11
=============================================================================
