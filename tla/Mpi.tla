-------------------------------- MODULE Mpi --------------------------------
(***************************************************************************)
(* mbedTLS's multi-precision integers (bignum.c) as operators on a heap of *)
(* objects.  An object is a sign and a sequence of limbs, least            *)
(* significant first, that may have leading zeros; operands are passed by  *)
(* name, as the code passes pointers, so destination and operands may be   *)
(* one object.  A step takes and gives a state                             *)
(*   [m: the objects, mem: how many more callocs succeed, ret: status];    *)
(* after the first error every step is skipped, which is what              *)
(* MBEDTLS_MPI_CHK's jump to cleanup does, and only the frees still happen.*)
(* The operators are recursive and are used by TLC only.                   *)
(***************************************************************************)
EXTENDS MpiLimb, Sequences, SequencesExt

CONSTANTS biL,         \* bits in a limb
          ciL,         \* chars in a limb
          MAX_LIMBS,   \* MBEDTLS_MPI_MAX_LIMBS
          HAVE_UDBL    \* MBEDTLS_HAVE_UDBL: is there a double-width type?

ASSUME LimbAssumption ==
  /\ biL \in {2, 4, 8, 16} /\ Base = 2^biL
  /\ ciL \in 1 .. biL /\ biL % ciL = 0
  /\ MAX_LIMBS \in Nat /\ HAVE_UDBL \in BOOLEAN

OK == "0"
ALLOC_FAILED == "ALLOC_FAILED"
NEGATIVE_VALUE == "NEGATIVE_VALUE"
DIVISION_BY_ZERO == "DIVISION_BY_ZERO"
BAD_INPUT_DATA == "BAD_INPUT_DATA"
FILE_IO_ERROR == "FILE_IO_ERROR"
BUFFER_TOO_SMALL == "BUFFER_TOO_SMALL"
INVALID_CHARACTER == "INVALID_CHARACTER"
NOT_ACCEPTABLE == "NOT_ACCEPTABLE"
OUT_OF_BOUNDS == "a write past the last limb"

charBits == biL \div ciL                 \* CHAR_BIT
Fresh == [s |-> 1, p |-> <<>>]           \* mbedtls_mpi_init, mbedtls_mpi_free
NULL == "NULL"
Upto(n) == [k \in 1 .. n |-> k]
AsTuple(p) == p \o <<>>                 \* p, with its elements computed
Zeros(n) == AsTuple([k \in 1 .. n |-> 0])
Low(p, n) == SubSeq(p \o Zeros(n), 1, n)
Sign(z) == IF z < 0 THEN -1 ELSE 1
Mag(z) == IF z < 0 THEN -z ELSE z
(* The temporary the functions with an int operand put on the stack.       *)
IntMpi(z) == [s |-> Sign(z), p |-> <<Mag(z) % Base>>]
(* Index of the last limb that is not zero, 0 if there is none.            *)
Top(p) == Max({0} \cup {k \in 1 .. Len(p) : p[k] # 0})
BITS_TO_LIMBS(i) == (i \div biL) + Truth(i % biL # 0)
CHARS_TO_LIMBS(i) == (i \div ciL) + Truth(i % ciL # 0)

Skip(st, next) == IF st.ret = OK THEN next ELSE st
(* MBEDTLS_MPI_CHK: the rest of the function, if nothing failed so far.    *)
Then(st, rest(_)) == IF st.ret = OK THEN rest(st) ELSE st
Fail(st, err) == Skip(st, [st EXCEPT !.ret = err])
Put(st, X, v) == Skip(st, [st EXCEPT !.m[X] = [s |-> v.s, p |-> AsTuple(v.p)]])
PutP(st, X, p) == Skip(st, [st EXCEPT !.m[X].p = AsTuple(p)])
PutS(st, X, s) == Skip(st, [st EXCEPT !.m[X].s = s])
N(st, X) == Len(st.m[X].p)
MutFree(st, S) ==                       \* not reached after an error
  Skip(st, [st EXCEPT !.m = [o \in DOMAIN @ |-> IF o \in S THEN Fresh ELSE @[o]]])

mpi_free(st, S) == [st EXCEPT !.m = [o \in DOMAIN @ |-> IF o \in S THEN Fresh ELSE @[o]]]
-----------------------------------------------------------------------------
(* Memory.                                                                 *)

mpi_grow(st, X, n) ==
  Skip(st,
    IF n > MAX_LIMBS THEN Fail(st, ALLOC_FAILED)
    ELSE IF N(st, X) >= n THEN st
    ELSE IF st.mem = 0 THEN Fail(st, ALLOC_FAILED)
    ELSE [st EXCEPT !.m[X].p = Low(@, n), !.mem = @ - 1])

mpi_shrink(st, X, n) ==
  Skip(st,
    IF n > MAX_LIMBS THEN Fail(st, ALLOC_FAILED)
    ELSE IF N(st, X) <= n THEN mpi_grow(st, X, n)
    ELSE IF st.mem = 0 THEN Fail(st, ALLOC_FAILED)
    ELSE [st EXCEPT !.m[X].p = Low(@, Max({1, Top(@), n})), !.mem = @ - 1])

mpi_resize_clear(st, X, n) ==
  Skip(st,
    IF n = 0 THEN mpi_free(st, {X})
    ELSE IF N(st, X) = n THEN Put(st, X, [s |-> 1, p |-> Zeros(n)])
    ELSE mpi_grow(mpi_free(st, {X}), X, n))

(* X keeps its size; the sign is copied before the memory is there.        *)
mpi_copy(st, X, Y) ==
  LET y == st.m[Y]
      i == Max({1, Top(y.p)})
      limbs(g) == PutP(g, X, Low(SubSeq(y.p, 1, i), N(g, X)))
  IN  Skip(st,
        IF X = Y THEN st
        ELSE IF y.p = <<>>
             THEN IF N(st, X) = 0 THEN st ELSE Put(st, X, [s |-> 1, p |-> Zeros(N(st, X))])
        ELSE Then(mpi_grow(PutS(st, X, y.s), X, i), limbs))

mpi_swap(st, X, Y) ==
  Skip(st, [st EXCEPT !.m[X] = st.m[Y], !.m[Y] = st.m[X]])

mpi_lset(st, X, z) ==
  LET set(g) == Put(g, X, [s |-> Sign(z), p |-> Low(IntMpi(z).p, N(g, X))])
  IN  Then(mpi_grow(st, X, 1), set)

(* mbedtls_mpi_safe_cond_assign of constant_time.c, used by mpi_select.    *)
mpi_safe_cond_assign(st, X, Y, assign) ==
  LET set(g) == IF assign THEN Put(g, X, [s |-> g.m[Y].s, p |-> Low(g.m[Y].p, N(g, X))]) ELSE g
  IN  Then(mpi_grow(st, X, N(st, Y)), set)
-----------------------------------------------------------------------------
(* Bits.                                                                   *)

Bit(x, j) == (x \div 2^j) % 2

mpi_get_bit(x, pos) ==
  IF Len(x.p) * biL <= pos THEN 0 ELSE Bit(x.p[(pos \div biL) + 1], pos % biL)

mpi_set_bit(st, X, pos, val) ==
  LET off == (pos \div biL) + 1
      w   == 2^(pos % biL)
      set(g) == PutP(g, X, [g.m[X].p EXCEPT ![off] = @ - Bit(@, pos % biL) * w + val * w])
  IN  Skip(st, IF N(st, X) * biL <= pos /\ val = 0 THEN st
               ELSE Then(mpi_grow(st, X, off), set))

mpi_lsb(x) ==
  LET ones == {j \in 0 .. Len(x.p) * biL - 1 : mpi_get_bit(x, j) = 1}
  IN  IF ones = {} THEN 0 ELSE Min(ones)

mpi_clz(limb) ==
  biL - Max({0} \cup {j \in 1 .. biL : Bit(limb, j - 1) = 1})

mpi_bitlen(x) ==
  LET i == Max({1, Top(x.p)})
  IN  IF x.p = <<>> THEN 0 ELSE (i - 1) * biL + biL - mpi_clz(x.p[i])

mpi_size(x) == (mpi_bitlen(x) + charBits - 1) \div charBits

mpi_shift_l(st, X, count) ==
  LET v0 == count \div biL
      t1 == count % biL
      limb(p, k) == IF k > v0 THEN p[k - v0] ELSE 0
      shifted(p) == [k \in DOMAIN p |->
        ((limb(p, k) * 2^t1) % Base) + (limb(p, k - 1) \div 2^(biL - t1))]
      room(i) == IF N(st, X) * biL < i THEN mpi_grow(st, X, BITS_TO_LIMBS(i)) ELSE st
      shift(g) == PutP(g, X, shifted(g.m[X].p))
  IN  Then(room(mpi_bitlen(st.m[X]) + count), shift)

mpi_shift_r(st, X, count) ==
  LET v0 == count \div biL
      v1 == count % biL
      n  == N(st, X)
      old == st.m[X].p
      moved == [k \in 1 .. n + 1 |-> IF k + v0 <= n THEN old[k + v0] ELSE 0]
  IN  IF v0 > n \/ (v0 = n /\ v1 > 0) THEN mpi_lset(st, X, 0)
      ELSE PutP(st, X, [k \in 1 .. n |->
             (moved[k] \div 2^v1) + ((moved[k + 1] * 2^(biL - v1)) % Base)])
-----------------------------------------------------------------------------
(* Comparison.                                                             *)

mpi_cmp_abs(x, y) ==
  LET compare(i, j, k) == IF i # j THEN Sign(i - j) ELSE IF k = 0 THEN 0 ELSE Sign(x.p[k] - y.p[k])
      differ(i) == Max({0} \cup {k \in 1 .. i : x.p[k] # y.p[k]})
  IN  compare(Top(x.p), Top(y.p), differ(Min({Top(x.p), Top(y.p)})))

mpi_cmp_mpi(x, y) ==
  LET compare(i, j) == IF i = 0 /\ j = 0 THEN 0
                       ELSE IF i > j THEN x.s
                       ELSE IF j > i THEN -y.s
                       ELSE IF x.s # y.s THEN x.s
                       ELSE x.s * mpi_cmp_abs(x, y)
  IN  compare(Top(x.p), Top(y.p))

mpi_cmp_int(x, z) == mpi_cmp_mpi(x, IntMpi(z))

(* mbedtls_mpi_lt_mpi_ct of constant_time.c: objects of equal size only.   *)
mpi_lt_mpi_ct(x, y) == mpi_cmp_mpi(x, y) < 0
-----------------------------------------------------------------------------
(* Addition and subtraction.                                               *)

RECURSIVE CarryOn(_, _, _, _)
CarryInto(g, X, i, c) ==
  LET r == CarryStep(g.m[X].p[i], c)
  IN  Skip(g, CarryOn([g EXCEPT !.m[X].p[i] = r.d], X, i + 1, r.c))
CarryOn(st, X, i, c) == IF c = 0 THEN st ELSE CarryInto(mpi_grow(st, X, i), X, i, c)

(* X + the j limbs of b, and the carry that is left.                       *)
AddLimbs(x, b, j) ==
  LET limb(a, k, r) == [a EXCEPT !.p[k] = r.d, !.c = r.c]
  IN  FoldLeft(LAMBDA a, k : limb(a, k, AddStep(a.p[k], b[k], a.c)), [p |-> x, c |-> 0], Upto(j))

CarrySum(g, X, j, sum) == Skip(g, CarryOn(PutP(g, X, sum.p), X, j + 1, sum.c))
AddOn(g, X, B, j) == CarrySum(g, X, j, AddLimbs(g.m[X].p, g.m[B].p, j))

(* X = |A| + |B|.                                                          *)
mpi_add_abs(st, X, A0, B0) ==
  LET A == IF X = B0 THEN B0 ELSE A0
      B == IF X = B0 THEN A0 ELSE B0
      j == Top(st.m[B].p)
  IN  AddOn(mpi_grow(PutS(mpi_copy(st, X, A), X, 1), X, j), X, B, j)

(* d := l - r on n limbs, and the borrow that is left.                     *)
mpi_sub_hlp(n, d, l, r) ==
  LET limb(a, k, x) == [a EXCEPT !.d[k] = x.d, !.c = x.c]
  IN  FoldLeft(LAMBDA a, k : limb(a, k, SubStep(l[k], r[k], a.c)), [d |-> d, c |-> 0], Upto(n))

(* The borrow is taken from the first limb behind the n of B that is not   *)
(* zero, at stop; the zeros before it wrap.                                *)
Borrow(g, X, n, low, stop) ==
  LET p == [k \in DOMAIN low.d |-> IF low.c # 0 /\ k > n /\ k <= stop
                                   THEN (low.d[k] - 1) % Base ELSE low.d[k]]
  IN  IF low.c # 0 /\ stop > Len(low.d) THEN Fail(PutP(g, X, p), NEGATIVE_VALUE)
      ELSE PutS(PutP(g, X, p), X, 1)

BorrowFrom(g, X, n, low) ==
  Borrow(g, X, n, low, Min({Len(low.d) + 1} \cup {k \in n + 1 .. Len(low.d) : low.d[k] # 0}))

TakeFrom(g, X, A, B, n) ==
  Skip(g, BorrowFrom(g, X, n, mpi_sub_hlp(n, Low(g.m[A].p, N(g, X)), g.m[A].p, g.m[B].p)))

(* X = |A| - |B|.  A failure leaves X with the difference modulo its size. *)
mpi_sub_abs(st, X, A, B) ==
  LET n == Top(st.m[B].p)
  IN  IF n > N(st, A) THEN Fail(st, NEGATIVE_VALUE)
      ELSE TakeFrom(mpi_grow(st, X, N(st, A)), X, A, B, n)

MutCombine(st, X, A, B, sameWay) ==     \* absolute values taken in place
  LET u == PutS(PutS(st, A, 1), B, 1)
  IN  PutS(IF sameWay THEN mpi_add_abs(u, X, A, B) ELSE mpi_sub_abs(u, X, A, B), X, st.m[A].s)

(* |A| - |B|, or the other way round with the other sign.                  *)
Less(st, X, A, B, swap) ==
  PutS(mpi_sub_abs(st, X, IF swap THEN B ELSE A, IF swap THEN A ELSE B), X,
       IF swap THEN -st.m[A].s ELSE st.m[A].s)

(* |A| and |B| added if sameWay, else the smaller taken from the larger;   *)
(* the sign s of A is put on the result even when that is zero.            *)
Combine(st, X, A, B, sameWay) ==
  IF sameWay THEN PutS(mpi_add_abs(st, X, A, B), X, st.m[A].s)
  ELSE Less(st, X, A, B, mpi_cmp_abs(st.m[A], st.m[B]) < 0)

mpi_add_mpi(st, X, A, B) == Combine(st, X, A, B, st.m[A].s * st.m[B].s > 0)
mpi_sub_mpi(st, X, A, B) == Combine(st, X, A, B, st.m[A].s * st.m[B].s < 0)

(* A call with an int operand: the temporary "b" is on the stack, so it    *)
(* is set without an allocation and dropped without a free.                *)
WithInt(st, z) == [st EXCEPT !.m["b"] = IntMpi(z)]
mpi_add_int(st, X, A, b) == mpi_free(mpi_add_mpi(WithInt(st, b), X, A, "b"), {"b"})
mpi_sub_int(st, X, A, b) == mpi_free(mpi_sub_mpi(WithInt(st, b), X, A, "b"), {"b"})
-----------------------------------------------------------------------------
(* Multiplication.                                                         *)

RECURSIVE CarryUp(_, _, _)
CarryUp(d, i, c) ==
  IF c = 0 THEN [d |-> d, over |-> FALSE]
  ELSE IF i > Len(d) THEN [d |-> d, over |-> TRUE]
  ELSE LET r == CarryStep(d[i], c) IN CarryUp([d EXCEPT ![i] = r.d], i + 1, r.c)

(* d := d + b * s * Base^off.  The code does not look where d ends: over   *)
(* says that it wrote behind the last limb.                                *)
mpi_mul_hlp(i, s, d, off, b) ==
  LET limb(a, k, r) == [a EXCEPT !.d[off + k] = r.d, !.c = r.c]
      carry(a) == CarryUp(a.d, off + i + 1, a.c)
  IN  carry(FoldLeft(LAMBDA a, k : limb(a, k, MulAddStep(s[k], a.d[off + k], b, a.c)),
                     [d |-> d, c |-> 0], Upto(i)))

Store(st, X, r) == IF r.over THEN Fail(st, OUT_OF_BOUNDS) ELSE PutP(st, X, r.d)

(* The rows of the product, from b's top limb down.                        *)
MulRows(g, X, a, b, i, j) ==
  Skip(g, FoldLeft(LAMBDA acc, k : Store(acc, X, mpi_mul_hlp(i, a.p, acc.m[X].p, j - k, b.p[j - k + 1])),
                   g, Upto(j)))

Product(st, X, a, b, i, j) ==
  PutS(MulRows(mpi_lset(mpi_grow(st, X, i + j), X, 0), X, a, b, i, j), X,
       IF i = 0 \/ j = 0 THEN 1 ELSE a.s * b.s)

Multiply(st, X, A, B) ==
  Product(st, X, st.m[A], st.m[B], Top(st.m[A].p), Top(st.m[B].p))

CopyIf(st, same, T, A) == IF same THEN mpi_copy(st, T, A) ELSE st

mpi_mul_mpi(st, X, A, B) ==
  Skip(st, mpi_free(
    Multiply(CopyIf(CopyIf(st, X = A, "mul.TA", A), X = B, "mul.TB", B), X,
             IF X = A THEN "mul.TA" ELSE A, IF X = B THEN "mul.TB" ELSE B),
    {"mul.TA", "mul.TB"}))

(* A * b as A + A * (b - 1).                                               *)
AddTimes(c, X, A, n, b) == Skip(c, Store(c, X, mpi_mul_hlp(n, c.m[A].p, c.m[X].p, 0, b - 1)))
mpi_mul_int(st, X, A, b) ==
  LET n == Top(st.m[A].p)
  IN  IF b = 0 \/ n = 0 THEN mpi_lset(st, X, 0)
      ELSE AddTimes(mpi_copy(mpi_grow(st, X, n + 1), X, A), X, A, n, b)
-----------------------------------------------------------------------------
(* Division.                                                               *)

biH == biL \div 2
Half == 2^biH                            \* the radix of Knuth's algorithm D

MutHalfDigit(q, r, d0, d1, low) ==      \* lowered also when it is exact
  IF q >= Half \/ (q * d0) % Base >= (Half * r + low) % Base THEN Max({q, 1}) - 1 ELSE q

(* One digit of the quotient, guessed from the leading half of d and taken *)
(* down while the guess is too large.  All of it wraps at Base.            *)
RECURSIVE HalfDigit(_, _, _, _, _)
HalfDigit(q, r, d0, d1, low) ==
  IF q >= Half \/ (q * d0) % Base > (Half * r + low) % Base
  THEN IF r + d1 >= Half THEN q - 1 ELSE HalfDigit(q - 1, r + d1, d0, d1, low)
  ELSE q

(* A digit of the quotient of a limb and the half limb low by d.           *)
OneDigit(u, low, d) == HalfDigit(u \div (d \div Half), u % (d \div Half), d % Half, d \div Half, low)

(* Both digits, for a d whose leading bit is set.                          *)
TwoDigits(u1, u0, d) ==
  LET rest(q1) == (u1 * Half + (u0 \div Half) - q1 * d) % Base
      join(q1) == (q1 * Half + OneDigit(rest(q1), u0 % Half, d)) % Base
  IN  join(OneDigit(u1, u0 \div Half, d))

(* Quotient of the double limb u1, u0 by d; ~0 if it does not fit a limb.  *)
int_div_int(u1, u0, d) ==
  LET normal(s) == TwoDigits(((u1 * 2^s) % Base) + (IF s = 0 THEN 0 ELSE u0 \div 2^(biL - s)),
                             (u0 * 2^s) % Base, (d * 2^s) % Base)
  IN  IF d = 0 \/ u1 >= d THEN Base - 1
      ELSE IF HAVE_UDBL THEN (u1 * Base + u0) \div d
      ELSE normal(mpi_clz(d))

Limbs(st, X, lo, hi) == PutP(st, X, [st.m[X].p EXCEPT ![1] = lo, ![2] = hi])

(* Lowers the quotient limb z until z times Y's two leading limbs (lo, hi) *)
(* is no more than X's three leading limbs.                                *)
RECURSIVE LowerEstimate(_, _, _, _, _)
Judge(st, z, lo, hi, T2) ==
  IF st.ret # OK \/ mpi_cmp_mpi(st.m["div.T1"], T2) <= 0
  THEN PutP(st, "div.Z", [st.m["div.Z"].p EXCEPT ![T2.at] = z])
  ELSE LowerEstimate(st, (z - 1) % Base, lo, hi, T2)
LowerEstimate(st, z, lo, hi, T2) ==
  Judge(mpi_mul_int(Limbs(mpi_lset(st, "div.T1", 0), "div.T1", lo, hi), "div.T1", "div.T1", z),
        z, lo, hi, T2)

Estimate(st, x, y, i, t) ==
  LowerEstimate(st, IF x[i + 1] >= y[t + 1] THEN Base - 1 ELSE int_div_int(x[i + 1], x[i], y[t + 1]),
    IF t < 1 THEN 0 ELSE y[t], y[t + 1],
    [s |-> 1, at |-> i - t, p |-> <<IF i < 2 THEN 0 ELSE x[i - 1], x[i], x[i + 1]>>])

(* X less the limb at of Z times Y; if that was too much, Y is added back. *)
TakeProduct(st, at) ==
  mpi_sub_mpi(mpi_shift_l(mpi_mul_int(st, "div.T1", "div.Y", st.m["div.Z"].p[at]), "div.T1", biL * (at - 1)),
              "div.X", "div.X", "div.T1")
AddBack(st, at) ==
  mpi_add_mpi(mpi_shift_l(mpi_copy(st, "div.T1", "div.Y"), "div.T1", biL * (at - 1)),
              "div.X", "div.X", "div.T1")
StepZ(st, at, by) == Skip(st, [st EXCEPT !.m["div.Z"].p[at] = (@ + by) % Base])
Correct(st, at) ==
  IF st.ret # OK \/ mpi_cmp_int(st.m["div.X"], 0) >= 0 THEN st ELSE StepZ(AddBack(st, at), at, -1)

(* One round of the main loop: limb i - t - 1 of Z, X less its product.    *)
QuotientLimb(st, i, t) ==
  Skip(st, Correct(TakeProduct(Estimate(st, st.m["div.X"].p, st.m["div.Y"].p, i, t), i - t), i - t))

RECURSIVE LeadingLimb(_, _)
LeadingLimb(st, at) ==
  IF st.ret # OK \/ mpi_cmp_mpi(st.m["div.X"], st.m["div.Y"]) < 0 THEN st
  ELSE LeadingLimb(mpi_sub_mpi(StepZ(st, at, 1), "div.X", "div.X", "div.Y"), at)

(* Every limb of Z, from n - t down; Y is put at X's top for the first.    *)
QuotientLimbs(st, n, t) ==
  Skip(st, FoldLeft(LAMBDA acc, j : QuotientLimb(acc, n + 1 - j, t),
    mpi_shift_r(LeadingLimb(mpi_shift_l(st, "div.Y", biL * (n - t)), n - t + 1), "div.Y", biL * (n - t)),
    Upto(n - t)))
DivideLimbs(st) == QuotientLimbs(st, N(st, "div.X") - 1, N(st, "div.Y") - 1)

(* The locals of div_mpi: X = |A| and Y = |B|, Z = 0, T1; then X and Y     *)
(* shifted by k to set Y's leading bit, and divided.                       *)
DivLocals(st, len) ==
  mpi_grow(mpi_lset(mpi_grow(PutS(PutS(st, "div.X", 1), "div.Y", 1), "div.Z", len), "div.Z", 0),
           "div.T1", len)
Normalise(st, k) == [st |-> DivideLimbs(mpi_shift_l(mpi_shift_l(st, "div.X", k), "div.Y", k)), k |-> k]
Divide(st) == Normalise(st, biL - 1 - (mpi_bitlen(st.m["div.Y"]) % biL))
LongDivision(st, A, B) ==
  Divide(DivLocals(mpi_copy(mpi_copy(st, "div.X", A), "div.Y", B), N(st, A) + 2))

(* The results, with their signs; a remainder of zero is positive.         *)
SignQ(st, Q, A, B) == PutS(st, Q, st.m[A].s * st.m[B].s)
Quotient(st, Q, A, B) == IF Q = NULL THEN st ELSE SignQ(mpi_copy(st, Q, "div.Z"), Q, A, B)
SignX(st, A) == PutS(st, "div.X", st.m[A].s)
PositiveZero(st, R) == IF mpi_cmp_int(st.m[R], 0) = 0 THEN PutS(st, R, 1) ELSE st
Remainder(st, R, A, k) ==
  IF R = NULL THEN st
  ELSE PositiveZero(mpi_copy(SignX(mpi_shift_r(st, "div.X", k), A), R, "div.X"), R)
Results(d, Q, R, A, B) == Remainder(Quotient(d.st, Q, A, B), R, A, d.k)

(* A = Q * B + R; Q or R may be NULL.                                      *)
mpi_div_mpi(st, Q, R, A, B) ==
  LET zeroed == IF Q = NULL THEN st ELSE mpi_lset(st, Q, 0)
  IN  Skip(st,
        IF mpi_cmp_int(st.m[B], 0) = 0 THEN Fail(st, DIVISION_BY_ZERO)
        ELSE IF mpi_cmp_abs(st.m[A], st.m[B]) < 0
             THEN IF R = NULL THEN zeroed ELSE mpi_copy(zeroed, R, A)
        ELSE mpi_free(Results(LongDivision(st, A, B), Q, R, A, B),
                      {"div.X", "div.Y", "div.Z", "div.T1"}))

mpi_div_int(st, Q, R, A, b) == mpi_free(mpi_div_mpi(WithInt(st, b), Q, R, A, "b"), {"b"})

RECURSIVE RaiseAbove0(_, _, _)
RaiseAbove0(st, R, B) ==
  IF st.ret # OK \/ mpi_cmp_int(st.m[R], 0) >= 0 THEN st
  ELSE RaiseAbove0(mpi_add_mpi(st, R, R, B), R, B)

RECURSIVE LowerBelow(_, _, _)
LowerBelow(st, R, B) ==
  IF st.ret # OK \/ mpi_cmp_mpi(st.m[R], st.m[B]) < 0 THEN st
  ELSE LowerBelow(mpi_sub_mpi(st, R, R, B), R, B)

mpi_mod_mpi(st, R, A, B) ==
  Skip(st, IF mpi_cmp_int(st.m[B], 0) < 0 THEN Fail(st, NEGATIVE_VALUE)
           ELSE LowerBelow(RaiseAbove0(mpi_div_mpi(st, NULL, R, A, B), R, B), R, B))

(* r = x mod b, half a limb at a time: an error or [ret, r].               *)
mpi_mod_int(x, b) ==
  LET fold(y, h) == (((y * Half) % Base) + h) % b
      halves == [k \in 1 .. 2 * Len(x.p) |->
                  LET limb == x.p[Len(x.p) - (k - 1) \div 2]
                  IN  IF k % 2 = 1 THEN limb \div Half ELSE limb % Half]
      y == FoldLeft(fold, 0, halves)
  IN  IF b = 0 THEN [ret |-> DIVISION_BY_ZERO, r |-> 0]
      ELSE IF b < 0 THEN [ret |-> NEGATIVE_VALUE, r |-> 0]
      ELSE IF b = 1 \/ x.p = <<>> THEN [ret |-> OK, r |-> 0]
      ELSE IF b = 2 THEN [ret |-> OK, r |-> x.p[1] % 2]
      ELSE [ret |-> OK, r |-> IF x.s < 0 /\ y # 0 THEN b - y ELSE y]
=============================================================================
