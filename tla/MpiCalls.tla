------------------------------ MODULE MpiCalls ------------------------------
(***************************************************************************)
(* A program that calls bignum.c: it holds a few objects and makes one     *)
(* call after another on them, with destination and operands that may be   *)
(* the same object, while the heap may run out at any calloc.  What a call *)
(* did is kept in `call' until the program goes on, next to what integer   *)
(* arithmetic says it should have done.                                    *)
(***************************************************************************)
EXTENDS MpiIO

CONSTANT Programs    \* [name -> which functions it calls, and on what]

VARIABLES prog,    \* the program that runs
          m,       \* its objects
          call     \* the call that has just returned, or Idle

vars == <<prog, m, call>>

(* The value of the constant, a definition that TLC computes once.         *)
ProgramTable == [name \in DOMAIN Programs |-> Programs[name]]
P == ProgramTable[prog]

(* A, B and N are kept, X and R take results, C is the cache for R^2 mod N.*)
Objects == {"A", "B", "N", "X", "R", "C"}
Idle == [op |-> "none"]
Ample == 1000

RECURSIVE Value(_)
Value(p) == IF p = <<>> THEN 0 ELSE Head(p) + Base * Value(Tail(p))
V(o) == m[o].s * Value(m[o].p)
Abs(z) == IF z < 0 THEN -z ELSE z

Init ==
  /\ prog \in DOMAIN Programs
  /\ m \in [A : P.A, B : P.B, N : P.N, X : {Fresh}, R : {Fresh}, C : {Fresh}]
  /\ call = Idle

Begin(k) == [m |-> [o \in Objects \cup Locals |-> IF o \in Objects THEN m[o] ELSE Fresh],
             mem |-> k, ret |-> OK]

(* The call returned st; it should have returned err, and want[o] is the   *)
(* integer every destination o should hold.  odd[o] is what bignum.c is    *)
(* known to leave there instead.  out is what the call gave besides.       *)
FinishOddly(op, k, st, err, want, odd, out) ==
  /\ m' = [o \in Objects |-> st.m[o]]
  /\ call' = [op |-> op, mem |-> k, ret |-> st.ret, err |-> err, want |-> want, odd |-> odd,
              out |-> out, before |-> m, left |-> {l \in Locals : st.m[l] # Fresh}]
  /\ UNCHANGED prog
Finish(op, k, st, err, want, out) == FinishOddly(op, k, st, err, want, <<>>, out)

Ready(op) == call = Idle /\ op \in P.ops

(* Results of more bits are left to limbs, not to TLC's 32-bit integers.   *)
Fits(bits) == bits <= 30

(* Addition, subtraction and multiplication; X may be A or B, A may be B.  *)
Arithmetic(X, A, B) ==
  \E k \in P.allocs :
    \/ /\ Ready("add")
       /\ Finish("add", k, mpi_add_mpi(Begin(k), X, A, B), OK, X :> V(A) + V(B), 0)
    \/ /\ Ready("sub")
       /\ Finish("sub", k, mpi_sub_mpi(Begin(k), X, A, B), OK, X :> V(A) - V(B), 0)
    \/ /\ Ready("sub_abs")
       /\ Finish("sub_abs", k, mpi_sub_abs(Begin(k), X, A, B),
                 IF Abs(V(A)) < Abs(V(B)) THEN NEGATIVE_VALUE ELSE OK,
                 X :> Abs(V(A)) - Abs(V(B)), 0)
    \/ /\ Ready("mul") /\ Fits(mpi_bitlen(m[A]) + mpi_bitlen(m[B]))
       /\ Finish("mul", k, mpi_mul_mpi(Begin(k), X, A, B), OK, X :> V(A) * V(B), 0)

(* The same with an int, which is signed but for mul_int.                  *)
WithAnInt(X, A) ==
  \E k \in P.allocs, b \in P.ints :
    \/ /\ Ready("add_int")
       /\ Finish("add_int", k, mpi_add_int(Begin(k), X, A, b), OK, X :> V(A) + b, 0)
    \/ /\ Ready("sub_int")
       /\ Finish("sub_int", k, mpi_sub_int(Begin(k), X, A, b), OK, X :> V(A) - b, 0)
    \/ /\ Ready("mul_int") /\ b >= 0
       /\ Finish("mul_int", k, mpi_mul_int(Begin(k), X, A, b), OK, X :> V(A) * b, 0)
    \/ /\ Ready("lset")
       /\ Finish("lset", k, mpi_lset(Begin(k), X, b), OK, X :> b, 0)

(* Shifts, single bits and the calls that only move memory.                *)
Moves(X, A) ==
  \E k \in P.allocs :
    \/ /\ Ready("shift") /\ \E n \in P.shifts :
            \/ /\ Fits(mpi_bitlen(m[X]) + n)
               /\ Finish("shift_l", k, mpi_shift_l(Begin(k), X, n), OK, X :> V(X) * 2^n, 0)
            \/ Finish("shift_r", k, mpi_shift_r(Begin(k), X, n), OK,
                      X :> m[X].s * (Abs(V(X)) \div 2^n), 0)
    \/ /\ Ready("set_bit") /\ \E pos \in P.shifts, val \in {0, 1} :
            Finish("set_bit", k, mpi_set_bit(Begin(k), X, pos, val), OK,
                   X :> m[X].s * (Abs(V(X)) + (val - mpi_get_bit(m[X], pos)) * 2^pos), 0)
    \/ /\ Ready("copy")
       /\ Finish("copy", k, mpi_copy(Begin(k), X, A), OK, X :> V(A), 0)
    \/ /\ Ready("swap")
       /\ Finish("swap", k, mpi_swap(Begin(k), X, A), OK, (X :> V(A)) @@ (A :> V(X)), 0)
    \/ /\ Ready("resize") /\ \E n \in 0 .. P.bound + 1 :
            \/ Finish("grow", k, mpi_grow(Begin(k), X, n), OK, X :> V(X), 0)
            \/ Finish("shrink", k, mpi_shrink(Begin(k), X, n), OK, X :> V(X), 0)

(* Truncating division; the remainder has the sign of the dividend.        *)
Quot(a, b) == Sign(a) * Sign(b) * (Abs(a) \div Abs(b))

(* What div_mpi leaves when Q is an operand, which it reads again after it *)
(* wrote Q: a quotient in place of a negative operand loses that sign, and *)
(* a remainder next to Q = A takes the divisor's sign, or is zero where    *)
(* the dividend was the smaller one.                                       *)
ReadAfterWrite(Q, R) ==
  LET q == Quot(V("A"), V("B"))
      r == V("A") - V("B") * q
      long == Abs(V("A")) >= Abs(V("B"))
  IN  (IF Q \in {"A", "B"} /\ long /\ m[Q].s = -1 THEN Q :> -q ELSE <<>>) @@
      (IF Q = "A" /\ long /\ m["A"].s # m["B"].s THEN R :> -r ELSE <<>>) @@
      (IF Q = "A" /\ ~long THEN R :> 0 ELSE <<>>)

(* Q and R may each be an operand; the remainder of mod_mpi may not be the *)
(* divisor, with which the function still compares it.                     *)
Division(Q, R) ==
  \E k \in P.allocs :
    \/ /\ Ready("div")
       /\ FinishOddly("div", k, mpi_div_mpi(Begin(k), Q, R, "A", "B"),
                 IF V("B") = 0 THEN DIVISION_BY_ZERO ELSE OK,
                 IF V("B") = 0 THEN <<>>
                 ELSE (Q :> Quot(V("A"), V("B"))) @@ (R :> V("A") - V("B") * Quot(V("A"), V("B"))),
                 IF V("B") = 0 THEN <<>> ELSE ReadAfterWrite(Q, R), 0)
    \/ /\ Ready("mod") /\ R # "B"
       /\ Finish("mod", k, mpi_mod_mpi(Begin(k), R, "A", "B"),
                 IF V("B") = 0 THEN DIVISION_BY_ZERO ELSE IF V("B") < 0 THEN NEGATIVE_VALUE ELSE OK,
                 IF V("B") <= 0 THEN <<>> ELSE R :> V("A") % V("B"), 0)

(* A^E mod N from the exponent's bits, for TLC's 32-bit integers.          *)
PowerMod(a, e, n) ==
  FoldRight(LAMBDA limb, x : FoldLeft(LAMBDA y, j : (((y * y) % n) * (IF Bit(limb, biL - j) = 1 THEN a ELSE 1)) % n,
                                      x, Upto(biL)), e, 1 % n)

PowerOf(A, E, n) == PowerMod(V(A) % V(n), m[E].p, V(n))

(* exp_mod puts a negative base to an odd power right by adding N once to  *)
(* minus the power of |A|: a power that N divides comes out as N, not 0.   *)
NotReduced(X, A, E, n) ==
  IF PowerOf(A, E, n) = 0 /\ m[A].s = -1 /\ mpi_get_bit(m[E], 0) = 1 THEN X :> V(n) ELSE <<>>

(* The largest common divisor; of a and zero it is a with its sign.        *)
Gcd(a, b) == IF b = 0 THEN a ELSE Max({d \in 1 .. Max({Abs(a), Abs(b)}) : a % d = 0 /\ b % d = 0} \cup {0})

Modular(X, prec_RR) ==
  \E k \in P.allocs :
    \/ /\ Ready("exp_mod")
       /\ LET bad == V("N") <= 0 \/ V("N") % 2 = 0 \/ m["B"].s < 0 \/ mpi_bitlen(m["B"]) > MAX_BITS
          IN  FinishOddly("exp_mod", k, mpi_exp_mod(Begin(k), X, "A", "B", "N", prec_RR),
                     IF bad THEN BAD_INPUT_DATA ELSE OK,
                     IF bad THEN <<>> ELSE X :> PowerOf("A", "B", "N"),
                     IF bad THEN <<>> ELSE NotReduced(X, "A", "B", "N"), 0)
    \/ /\ Ready("gcd")
       /\ Finish("gcd", k, mpi_gcd(Begin(k), X, "A", "B"), OK, X :> Gcd(V("A"), V("B")), 0)
    \/ /\ Ready("inv_mod")
       /\ LET inverses == {x \in 0 .. Abs(V("N")) - 1 : V("N") > 1 /\ (x * V("A")) % V("N") = 1}
          IN  Finish("inv_mod", k, mpi_inv_mod(Begin(k), X, "A", "N"),
                     IF V("N") <= 1 THEN BAD_INPUT_DATA
                     ELSE IF inverses = {} THEN NOT_ACCEPTABLE ELSE OK,
                     IF inverses = {} THEN <<>> ELSE X :> CHOOSE x \in inverses : TRUE, 0)

(* What a string of digits says.                                           *)
Denotes(s, radix) ==
  IF s # <<>> /\ s[1] = MINUS THEN -FoldLeft(LAMBDA v, d : v * radix + d, 0, Tail(s))
  ELSE FoldLeft(LAMBDA v, d : v * radix + d, 0, s)
Digits(s, radix) ==
  \A i \in DOMAIN s : IsDigit(s[i], radix) \/ (i = 1 /\ s[i] = MINUS)
BigEndian(buf) == FoldLeft(LAMBDA v, c : v * Char + c, 0, buf)

Reading(X) ==
  \E k \in P.allocs :
    \/ /\ Ready("read_string")
       /\ \E s \in P.strings, radix \in P.radices :
            Finish("read_string", k, mpi_read_string(Begin(k), X, radix, s),
                   IF radix \notin 2 .. 16 THEN BAD_INPUT_DATA
                   ELSE IF Digits(s, radix) THEN OK ELSE INVALID_CHARACTER,
                   IF radix \in 2 .. 16 /\ Digits(s, radix) THEN X :> Denotes(s, radix) ELSE <<>>, 0)
    \/ /\ Ready("read_file")
       /\ \E s \in P.strings, radix \in P.radices \cap 2 .. 16, io \in BOOLEAN :
            LET tail == SubSeq(s, SelectLastInSeq(s, LAMBDA c : c >= radix) + 1, Len(s))
            IN  Finish("read_file", k, mpi_read_file(Begin(k), X, radix, s, io),
                       IF ~io THEN FILE_IO_ERROR ELSE IF Len(s) >= RW_BUFFER - 2 THEN BUFFER_TOO_SMALL ELSE OK,
                       X :> Denotes(tail, radix), 0)
    \/ /\ Ready("read_binary")
       /\ \E buf \in P.buffers :
            \/ Finish("read_binary", k, mpi_read_binary(Begin(k), X, buf), OK, X :> BigEndian(buf), 0)
            \/ Finish("read_binary_le", k, mpi_read_binary_le(Begin(k), X, buf), OK,
                      X :> BigEndian(Reverse(buf)), 0)

(* The writers are given every buffer from empty to more than they need.   *)
Written(op, k, A, radix, n, err, w) ==
  Finish(op, k, w.st, err, <<>>, [chars |-> w.out, radix |-> radix, olen |-> w.olen, buflen |-> n, of |-> A])

Writing(A) ==
  \E k \in P.allocs :
    \/ /\ Ready("write_string")
       /\ \E radix \in P.radices, extra \in -1 .. 1 :
            LET n == SizeNeeded(m[A], radix) + extra
            IN  Written("write_string", k, A, radix, n,
                        IF radix \notin 2 .. 16 THEN BAD_INPUT_DATA
                        ELSE IF extra < 0 THEN BUFFER_TOO_SMALL ELSE OK,
                        mpi_write_string(Begin(k), A, radix, n))
    \/ /\ Ready("write_file")
       /\ \E radix \in P.radices \cap 2 .. 16, io \in BOOLEAN :
            Written("write_file", k, A, radix, RW_BUFFER - 2,
                    IF SizeNeeded(m[A], radix) > RW_BUFFER - 2 THEN BUFFER_TOO_SMALL
                    ELSE IF io THEN OK ELSE FILE_IO_ERROR,
                    mpi_write_file(Begin(k), A, radix, io))
    \/ /\ Ready("write_binary")
       /\ \E n \in 0 .. Len(m[A].p) * ciL + 1, le \in BOOLEAN :
            LET w == IF le THEN mpi_write_binary_le(m[A], n) ELSE mpi_write_binary(m[A], n)
            IN  Finish("write_binary", k, [Begin(k) EXCEPT !.ret = w.ret],
                       IF mpi_size(m[A]) > n THEN BUFFER_TOO_SMALL ELSE OK, <<>>,
                       [bytes |-> IF le THEN Reverse(w.buf) ELSE w.buf, of |-> A])

(* Calls that only look: comparison, bit length, lowest bit, remainder.    *)
Looking(A, B) ==
  \E k \in P.allocs :
    /\ Ready("compare")
    /\ Finish("compare", k, Begin(k), OK, <<>>,
              [A |-> A, B |-> B, cmp |-> mpi_cmp_mpi(m[A], m[B]), cmp_abs |-> mpi_cmp_abs(m[A], m[B]),
               bits |-> mpi_bitlen(m[A]), low |-> mpi_lsb(m[A]),
               mod |-> [b \in 1 .. Half |-> mpi_mod_int(m[A], b).r]])

(* The program looks at the result, frees what it no longer wants and goes *)
(* on with what the call left in its objects, if that is one of the        *)
(* numbers it works with.                                                  *)
Kept(o) == o \notin {"X", "R"} /\ Len(m[o].p) <= P.bound /\ Range(m[o].p) \subseteq P.limbs

Return ==
  /\ call # Idle
  /\ call' = Idle
  /\ m' = [o \in Objects |-> IF Kept(o) THEN m[o] ELSE Fresh]
  /\ UNCHANGED prog

Next ==
  \/ \E X \in {"A", "X"}, A \in {"A", "B"}, B \in {"A", "B"} : Arithmetic(X, A, B)
  \/ \E X \in {"B", "X"}, A \in {"A", "B"} : WithAnInt(X, A)
  \/ \E X \in {"A", "X"}, A \in {"A", "B"} : Moves(X, A)
  \/ \E Q \in {"X", "A", "B"}, R \in {"R", "A", "B"} : Q # R /\ Division(Q, R)
  \/ \E X \in {"X", "A"}, prec_RR \in {NULL, "C"} : Modular(X, prec_RR)
  \/ \E X \in {"A", "X"} : Reading(X)
  \/ \E A \in {"A", "B"} : Writing(A)
  \/ \E A \in {"A", "B"}, B \in {"A", "B"} : Looking(A, B)
  \/ Return

Spec == Init /\ [][Next]_vars
-----------------------------------------------------------------------------
Returned == call # Idle

(* What the readers say is true of the integers.                           *)
ReadersRight(r) ==
  LET a == Abs(V(r.A))
      b == Abs(V(r.B))
  IN  /\ r.cmp < 0 <=> V(r.A) < V(r.B)
      /\ r.cmp > 0 <=> V(r.A) > V(r.B)
      /\ r.cmp_abs < 0 <=> a < b
      /\ r.cmp_abs > 0 <=> a > b
      /\ a # 0 => 2^(r.bits - 1) <= a /\ a < 2^r.bits /\ a % 2^r.low = 0 /\ (a \div 2^r.low) % 2 = 1
      /\ a = 0 => r.bits = 0 /\ r.low = 0
      /\ \A d \in DOMAIN r.mod : r.mod[d] = V(r.A) % d

(* A call that returns 0 leaves the exact integer in every destination,    *)
(* whatever leading zero or negative zero earlier calls left behind and    *)
(* whichever of A and B is the destination of Next's calls, and what it    *)
(* says of an object is true (a remainder by mod_int for divisors of up to *)
(* half a limb, as all of bignum.c's own are).  In two cases bignum.c does *)
(* not compute what it says, and leaves exactly the value named here:      *)
(* div_mpi, A = Q * B + R, when Q is an operand (ReadAfterWrite), and      *)
(* exp_mod, A^E mod N, when N divides an odd power of a negative base      *)
(* (NotReduced).  A call that must fail returns its own error, and no      *)
(* helper that relies on its caller for room writes behind the last limb   *)
(* (OUT_OF_BOUNDS is never the error that was due).                        *)
ResultExact ==
  Returned =>
    /\ call.ret = OK => /\ call.err = OK
                        /\ \A o \in DOMAIN call.want : V(o) = (call.odd @@ call.want)[o]
    /\ call.ret # OK => \/ call.ret = call.err
                        \/ call.ret = ALLOC_FAILED /\ call.mem < Ample
    /\ call.op = "compare" => ReadersRight(call.out)

(* An object that is not a destination is as it was, even if the call      *)
(* failed half way; only the cache of exp_mod may be filled besides.       *)
OperandsKept ==
  Returned /\ call.err = OK =>
    \A o \in Objects \ DOMAIN call.want :
      m[o] = call.before[o] \/ (o = "C" /\ call.before[o] = Fresh)

(* Whatever calloc failed, every local object was freed.                   *)
NoLeak == Returned => call.left = {}

(* What a writer gives denotes the object's value, in any radix and byte   *)
(* order; a string and its NUL are within the buffer, whose size was       *)
(* checked against an estimate made from the bit length alone.             *)
WrittenExact ==
  Returned /\ call.ret = OK =>
    /\ call.op \in {"write_string", "write_file"} =>
         /\ Denotes(call.out.chars, call.out.radix) = V(call.out.of)
         /\ call.out.olen <= call.out.buflen
    /\ call.op = "write_binary" => BigEndian(call.out.bytes) = Abs(V(call.out.of))
=============================================================================
