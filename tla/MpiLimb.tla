------------------------------ MODULE MpiLimb ------------------------------
(***************************************************************************)
(* One limb of an mbedTLS multi-precision integer (bignum.c): unsigned     *)
(* arithmetic modulo Base = 2^biL, in which a carry or a borrow is found   *)
(* out afterwards, by comparing the wrapped result with an operand.  The   *)
(* loops over limbs are in Mpi and, one limb per step, in MpiLoops.        *)
(***************************************************************************)
EXTENDS Integers

CONSTANT Base    \* 2^biL, the number of values of mbedtls_mpi_uint

ASSUME BaseAssumption == Base \in Nat /\ Base >= 2

Limb == 0 .. Base - 1

(* The value C gives a comparison that is used as a number.                *)
Truth(b) == IF b THEN 1 ELSE 0

(* The body of add_abs's loop: the carry is added and may wrap, then the   *)
(* other limb is added and may wrap.                                       *)
AddStep(p, o, c) ==
  LET p1 == (p + c) % Base
      p2 == (p1 + o) % Base
  IN  [d |-> p2, c |-> Truth(p1 < c) + Truth(p2 < o)]

(* The carry that runs on after the shorter operand.                       *)
CarryStep(p, c) ==
  LET p1 == (p + c) % Base
  IN  [d |-> p1, c |-> Truth(p1 < c)]

MutSubStep(l, r, c) ==
  LET t == (l - c) % Base
  IN  [d |-> (t - r) % Base, c |-> Truth(t < r)]   \* no borrow from l < c

(* The body of mpi_sub_hlp's loop.                                         *)
SubStep(l, r, c) ==
  LET t == (l - c) % Base
  IN  [d |-> (t - r) % Base, c |-> Truth(t < r) + Truth(l < c)]

(* MULADDC_CORE of bn_mul.h: d := d + s * b + c, with the high half left   *)
(* in c.                                                                   *)
MulAddStep(s, d, b, c) ==
  LET t == s * b + d + c
  IN  [d |-> t % Base, c |-> t \div Base]
=============================================================================
