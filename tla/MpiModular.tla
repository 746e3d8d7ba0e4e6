----------------------------- MODULE MpiModular -----------------------------
(***************************************************************************)
(* The modular operations of bignum.c on the objects of Mpi: Montgomery    *)
(* multiplication, sliding-window exponentiation with its cached R^2,      *)
(* greatest common divisor and modular inverse.                            *)
(***************************************************************************)
EXTENDS Mpi

CONSTANTS WINDOW_SIZE,   \* MBEDTLS_MPI_WINDOW_SIZE
          MAX_BITS       \* MBEDTLS_MPI_MAX_BITS

ASSUME ModularAssumption == WINDOW_SIZE \in 1 .. 6 /\ MAX_BITS \in Nat

(* Table entry i of exp_mod, an object like every other.                   *)
W(i) == "W" \o ToString(i)
Table == {W(i) : i \in 0 .. 2^WINDOW_SIZE - 1}

(* -N^-1 modulo Base, for the odd low limb m0 of N: right in 4 bits, and   *)
(* in twice as many after each round.                                      *)
mpi_montg_init(m0) ==
  LET rounds == {i \in 0 .. 4 : biL \div 2^i >= 8}
      start == (m0 + 8 * Bit(m0 + 2, 2)) % Base
      newton(x, i) == (x * ((2 - m0 * x) % Base)) % Base
  IN  (-FoldLeft(newton, start, Upto(Cardinality(rounds)))) % Base

(* The last step of montmul: d or d - N, chosen by the limb above d after  *)
(* one was added to it and the borrow of d - N was taken from it.          *)
MontSubtract(t, n, p) ==
  LET choose(diff, top) == IF top % 2^charBits # 0 THEN diff.d ELSE SubSeq(t, 1, n)
      borrow(diff) == choose(diff, (t[n + 1] + 1 - diff.c) % Base)
  IN  borrow(mpi_sub_hlp(n, SubSeq(t, 1, n), SubSeq(t, 1, n), p))

(* One product added into T, and T's start moved up over the limb i.       *)
AddProduct(acc, i, s, off, u) == [mpi_mul_hlp(i, s, acc.d, off, u) EXCEPT !.over = @ \/ acc.over]
MoveUp(acc, i, n, u0) ==
  [d |-> [acc.d EXCEPT ![i] = u0, ![i + n + 2] = 0], over |-> acc.over \/ i + n + 2 > Len(acc.d)]
MontRound(acc, i, u0, b, p, mm) ==
  LET u1 == ((acc.d[i] + u0 * b[1]) * mm) % Base
  IN  MoveUp(AddProduct(AddProduct(acc, Min({Len(p), Len(b)}), b, i - 1, u0), Len(p), p, i - 1, u1),
             i, Len(p), u0)
MontResult(sum, a, p) ==
  [d |-> MontSubtract(SubSeq(sum.d, Len(p) + 1, Len(sum.d)), Len(p), p) \o SubSeq(a, Len(p) + 1, Len(a)),
   over |-> sum.over]

(* A = A * b * Base^-n mod N, with T as the accumulator whose start moves  *)
(* up by a limb in every round.                                            *)
mpi_montmul(st, A, b, N_, mm) ==
  LET a == st.m[A].p
      p == st.m[N_].p
  IN  Skip(st, Store(st, A, MontResult(
        FoldLeft(LAMBDA acc, i : MontRound(acc, i, a[i], b, p, mm),
                 [d |-> Zeros(N(st, "exp.T")), over |-> FALSE], Upto(Len(p))), a, p)))

mpi_montred(st, A, N_, mm) == mpi_montmul(st, A, <<1>>, N_, mm)

(* Reads the whole table; entries that were never grown have no limbs.     *)
mpi_select(st, R, size, idx) ==
  LET pick(acc, i) == mpi_safe_cond_assign(acc, R, W(i - 1), i - 1 = idx)
  IN  FoldLeft(pick, st, Upto(size))

RECURSIVE Square(_, _, _, _, _)
Square(st, X, N_, mm, times) ==
  IF times = 0 \/ st.ret # OK THEN st
  ELSE Square(mpi_montmul(st, X, st.m[X].p, N_, mm), X, N_, mm, times - 1)

WindowSize(bits) ==
  Min({WINDOW_SIZE, CASE bits > 671 -> 6 [] bits > 239 /\ bits <= 671 -> 5
                      [] bits > 79 /\ bits <= 239 -> 4
                      [] bits > 23 /\ bits <= 79 -> 3 [] OTHER -> 1})

(* W[i] is grown, set to W[j] and multiplied by W[1] or squared.           *)
CopyEntry(st, i, j, size) == mpi_copy(mpi_grow(st, W(i), size), W(i), W(j))
TimesA(st, X, N_, mm) == Skip(st, mpi_montmul(st, X, st.m[W(1)].p, N_, mm))
NextEntry(st, i, N_, mm) == TimesA(CopyEntry(st, i, i - 1, N(st, N_) + 1), W(i), N_, mm)

(* W[2^(wsize-1)] .. W[2^wsize - 1]: the powers of A a window can ask for. *)
FillTable(st, N_, mm, wsize) ==
  LET j == 2^(wsize - 1)
  IN  IF wsize = 1 THEN st
      ELSE FoldLeft(LAMBDA u, i : NextEntry(u, j + i, N_, mm),
                    Square(CopyEntry(st, j, 1, N(st, N_) + 1), W(j), N_, mm, wsize - 1), Upto(j - 1))

TimesWW(st, X, N_, mm) == Skip(st, mpi_montmul(st, X, st.m["exp.WW"].p, N_, mm))

(* One bit of the exponent, most significant first: leading zeros are      *)
(* skipped, a zero between windows squares, otherwise the bit joins the    *)
(* window, which is applied when it is full.                               *)
ExponentBit(w, ei, X, N_, mm, wsize) ==
  LET nbits == w.nbits + 1
      wbits == w.wbits + ei * 2^(wsize - nbits)
  IN  IF w.st.ret # OK \/ (ei = 0 /\ w.state = 0) THEN w
      ELSE IF ei = 0 /\ w.state = 1
           THEN [w EXCEPT !.st = Square(@, X, N_, mm, 1)]
      ELSE IF nbits = wsize
           THEN [st |-> TimesWW(mpi_select(Square(w.st, X, N_, mm, wsize), "exp.WW", 2^wsize, wbits),
                                X, N_, mm),
                 state |-> 1, nbits |-> 0, wbits |-> 0]
      ELSE [w EXCEPT !.state = 2, !.nbits = nbits, !.wbits = wbits]

(* A bit of the window that was not full when the exponent ended.          *)
TailBit(w, i, X, N_, mm, wsize) ==
  [w EXCEPT !.st = IF Bit(w.wbits, wsize - i) = 1 THEN TimesA(Square(@, X, N_, mm, 1), X, N_, mm)
                   ELSE Square(@, X, N_, mm, 1)]

Cache(st, prec_RR) == IF prec_RR = NULL THEN st ELSE Put(st, prec_RR, st.m["exp.RR"])

(* R^2 mod N, from the caller's cache if that has limbs.                   *)
LoadRR(st, N_, prec_RR) ==
  IF prec_RR # NULL /\ N(st, prec_RR) # 0 THEN Put(st, "exp.RR", st.m[prec_RR])
  ELSE Cache(mpi_mod_mpi(mpi_shift_l(mpi_lset(st, "exp.RR", 1), "exp.RR", N(st, N_) * 2 * biL),
                         "exp.RR", "exp.RR", N_), prec_RR)

(* The window loop over the bits of E, what is left of the last window,    *)
(* and X out of Montgomery's form.                                         *)
Windows(st, X, E, N_, mm, wsize) ==
  LET n == Len(st.m[E].p) * biL
  IN  FoldLeft(LAMBDA w, k : ExponentBit(w, mpi_get_bit(st.m[E], n - k), X, N_, mm, wsize),
               [st |-> st, state |-> 0, nbits |-> 0, wbits |-> 0], Upto(n))
LastWindow(w, X, N_, mm, wsize) ==
  IF w.st.ret # OK THEN w.st
  ELSE mpi_montred(FoldLeft(LAMBDA u, i : TailBit(u, i, X, N_, mm, wsize), w, Upto(w.nbits)).st, X, N_, mm)

(* A negative A is raised by its absolute value; a power that is to be     *)
(* negative gets N added.                                                  *)
SignPower(st, X, E, N_, neg) ==
  IF neg /\ st.m[E].p # <<>> /\ st.m[E].p[1] % 2 # 0
  THEN mpi_add_mpi(PutS(st, X, -1), X, N_, X) ELSE st
Exponentiate(st, X, E, N_, mm, wsize, neg) ==
  Skip(st, SignPower(LastWindow(Windows(st, X, E, N_, mm, wsize), X, N_, mm, wsize), X, E, N_, neg))

(* W[1] = A * R mod N and X = R mod N, with j limbs; then the table.       *)
Reduce(st, A, N_, j) ==
  IF mpi_cmp_mpi(st.m[A], st.m[N_]) >= 0 THEN mpi_grow(mpi_mod_mpi(st, W(1), A, N_), W(1), j)
  ELSE mpi_copy(st, W(1), A)
TimesRR(st, N_, mm) == Skip(st, mpi_montmul(st, W(1), st.m["exp.RR"].p, N_, mm))
Montgomery(st, X, A, N_, mm, j, wsize) ==
  FillTable(mpi_montred(mpi_copy(TimesRR(Reduce(st, A, N_, j), N_, mm), X, "exp.RR"), X, N_, mm),
            N_, mm, wsize)

AbsBase(st, A, neg) == IF neg THEN PutS(mpi_copy(st, "exp.Apos", A), "exp.Apos", 1) ELSE st
ModPower(st, X, A, E, N_, prec_RR, mm, j, wsize, neg) ==
  Exponentiate(
    Montgomery(
      LoadRR(AbsBase(mpi_grow(mpi_grow(mpi_grow(st, X, j), W(1), j), "exp.T", 2 * j), A, neg), N_, prec_RR),
      X, IF neg THEN "exp.Apos" ELSE A, N_, mm, j, wsize),
    X, E, N_, mm, wsize, neg)

mpi_exp_mod(st, X, A, E, N_, prec_RR) ==
  LET wsize == WindowSize(mpi_bitlen(st.m[E]))
  IN  Skip(st,
        IF mpi_cmp_int(st.m[N_], 0) <= 0 \/ st.m[N_].p[1] % 2 = 0 THEN Fail(st, BAD_INPUT_DATA)
        ELSE IF mpi_cmp_int(st.m[E], 0) < 0 \/ mpi_bitlen(st.m[E]) > MAX_BITS
                  \/ mpi_bitlen(st.m[N_]) > MAX_BITS THEN Fail(st, BAD_INPUT_DATA)
        ELSE mpi_free(ModPower(st, X, A, E, N_, prec_RR, mpi_montg_init(st.m[N_].p[1]),
                            N(st, N_) + 1, wsize, st.m[A].s = -1),
               {W(i) : i \in 2^(wsize - 1) .. 2^wsize - 1}
                 \cup {W(1), "exp.T", "exp.Apos", "exp.WW", "exp.RR"}))
-----------------------------------------------------------------------------
Strip(st, T) == mpi_shift_r(st, T, mpi_lsb(st.m[T]))
HalveDifference(st, ge) ==
  LET big == IF ge THEN "gcd.TA" ELSE "gcd.TB"
      small == IF ge THEN "gcd.TB" ELSE "gcd.TA"
  IN  mpi_shift_r(mpi_sub_abs(st, big, big, small), big, 1)
GcdStep(st) == HalveDifference(st, mpi_cmp_mpi(st.m["gcd.TA"], st.m["gcd.TB"]) >= 0)

RECURSIVE GcdLoop(_)
GcdLoop(st) ==
  IF st.ret # OK \/ mpi_cmp_int(st.m["gcd.TA"], 0) = 0 THEN st
  ELSE GcdLoop(GcdStep(Strip(Strip(st, "gcd.TA"), "gcd.TB")))

(* The powers of two both have are put back at the end.                    *)
GcdOfCopies(st, G, A) ==
  LET lz == Min({mpi_lsb(st.m["gcd.TA"]), mpi_lsb(st.m["gcd.TB"])})
  IN  IF mpi_lsb(st.m["gcd.TB"]) = 0 /\ mpi_get_bit(st.m["gcd.TB"], 0) = 0 THEN mpi_copy(st, G, A)
      ELSE mpi_copy(mpi_shift_l(GcdLoop(PutS(PutS(st, "gcd.TA", 1), "gcd.TB", 1)), "gcd.TB", lz),
                    G, "gcd.TB")

mpi_gcd(st, G, A, B) ==
  Skip(st, mpi_free(GcdOfCopies(mpi_copy(mpi_copy(st, "gcd.TA", A), "gcd.TB", B), G, A),
                    {"gcd.TA", "gcd.TB"}))

(* Halves the even T and with it the pair C1, C2, made even first by       *)
(* adding TB to the one and taking TA from the other.                      *)
MakeEven(st, C1, C2) ==
  IF st.m[C1].p[1] % 2 # 0 \/ st.m[C2].p[1] % 2 # 0
  THEN mpi_sub_mpi(mpi_add_mpi(st, C1, C1, "inv.TB"), C2, C2, "inv.TA") ELSE st
RECURSIVE HalveWith(_, _)
HalveWith(st, T) ==
  IF st.ret # OK \/ st.m[T[1]].p[1] % 2 # 0 THEN st
  ELSE HalveWith(mpi_shift_r(mpi_shift_r(MakeEven(mpi_shift_r(st, T[1], 1), T[2], T[3]), T[2], 1),
                             T[3], 1), T)

invU == <<"inv.TU", "inv.U1", "inv.U2">>
invV == <<"inv.TV", "inv.V1", "inv.V2">>
SubAll(st, T, S) == FoldLeft(LAMBDA u, i : mpi_sub_mpi(u, T[i], T[i], S[i]), st, Upto(3))
InvStep(st, ge) == SubAll(st, IF ge THEN invU ELSE invV, IF ge THEN invV ELSE invU)
SubLarger(st) == InvStep(st, mpi_cmp_mpi(st.m["inv.TU"], st.m["inv.TV"]) >= 0)

RECURSIVE InvLoop(_)
InvAgain(st) == IF st.ret # OK \/ mpi_cmp_int(st.m["inv.TU"], 0) = 0 THEN st ELSE InvLoop(st)
InvLoop(st) == Skip(st, InvAgain(SubLarger(HalveWith(HalveWith(st, invU), invV))))

invLocals == {"inv.G", "inv.TA", "inv.TB", "inv.TU", "inv.TV", "inv.U1", "inv.U2", "inv.V1", "inv.V2"}

(* TA = TU = A mod N, TB = TV = N, U = (1, 0), V = (0, 1).                 *)
Units(st) ==
  mpi_lset(mpi_lset(mpi_lset(mpi_lset(st, "inv.U1", 1), "inv.U2", 0), "inv.V1", 0), "inv.V2", 1)
StartInv(st, A, N_) ==
  Units(mpi_copy(mpi_copy(mpi_copy(mpi_mod_mpi(st, "inv.TA", A, N_), "inv.TU", "inv.TA"),
                          "inv.TB", N_), "inv.TV", N_))
InverseOf(st, X, A, N_) ==
  IF st.ret # OK THEN st
  ELSE IF mpi_cmp_int(st.m["inv.G"], 1) # 0 THEN Fail(st, NOT_ACCEPTABLE)
  ELSE mpi_copy(LowerBelow(RaiseAbove0(InvLoop(StartInv(st, A, N_)), "inv.V1", N_), "inv.V1", N_),
                X, "inv.V1")

mpi_inv_mod(st, X, A, N_) ==
  Skip(st,
    IF mpi_cmp_int(st.m[N_], 1) <= 0 THEN Fail(st, BAD_INPUT_DATA)
    ELSE mpi_free(InverseOf(mpi_gcd(st, "inv.G", A, N_), X, A, N_), invLocals))

(* The objects that are local to a function of bignum.c.                   *)
Locals == {"b", "io.T", "mul.TA", "mul.TB", "div.X", "div.Y", "div.Z", "div.T1",
           "exp.RR", "exp.T", "exp.WW", "exp.Apos", "gcd.TA", "gcd.TB"}
          \cup Table \cup invLocals
=============================================================================
