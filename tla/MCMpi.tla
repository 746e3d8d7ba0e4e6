------------------------------- MODULE MCMpi -------------------------------
(***************************************************************************)
(* MpiCalls for TLC, with limbs of two chars of 4 bits: hexadecimal digits *)
(* are those of radix 4.                                                   *)
(***************************************************************************)
EXTENDS MpiCalls

Obj(s, p) == [s |-> s, p |-> p]
None == {Fresh}
Strings(S, n) == UNION {[1 .. k -> S] : k \in 0 .. n}
Both(S) == S \cup {[o EXCEPT !.s = -1] : o \in S \ None}
Positive(S) == {Obj(1, p) : p \in S}

(* Limbs where carries, borrows and quotient digits go wrong.              *)
Edge == {0, 1, 127, 128, 255}
Digit == {Obj(1, <<l>>) : l \in {0, 1, 128, 255}}
EdgeNumbers(n) == Positive({p \in Strings(Edge, n) : p # <<>> /\ p[Len(p)] # 0})
Dividends == Both(None \cup EdgeNumbers(3) \cup {Obj(1, <<255, 7, 0>>)})
Divisors == Both(None \cup EdgeNumbers(2) \cup {Obj(1, <<16, 0>>), Obj(1, <<255, 15>>)})

Bases == Both(None \cup Positive({<<2>>, <<15>>, <<48>>, <<251>>, <<7, 2>>}))
Moduli == Positive({<<1>>, <<3>>, <<45>>, <<48>>, <<255>>, <<1, 1>>, <<3, 0>>}) \cup {Fresh, Obj(-1, <<3>>)}
Exponents == None \cup Positive({<<1>>, <<2>>, <<9>>, <<3, 0, 0>>}) \cup {Obj(-1, <<1>>)}

(* Exponents for every window size of up to 42 bits, with runs of zeros, a *)
(* window cut off by the last bit, and leading zeros.                      *)
WideExponents ==
  Positive({<<0>>, <<255, 255, 127>>, <<1, 0, 0, 1>>, <<170, 85, 3, 2>>, <<7, 0, 136, 255, 0>>,
            <<5, 0, 64, 0, 9>>, <<1, 0, 0, 0, 128>>, <<0, 0, 0, 0, 0, 2>>})
WideBases == Both(Positive({<<2>>, <<251>>, <<7, 200>>})) \cup {Fresh, Obj(1, <<254, 0, 0>>)}
WideModuli == Positive({<<251>>, <<1, 1>>, <<65, 156>>})

Sparse == Both(None \cup Positive({<<1>>, <<0, 1>>, <<253, 7>>}))
TwoModuli == Positive({<<2>>, <<131>>})
TwoLimbs == {Obj(s, <<a, b>>) : s \in {1, -1}, a \in {0, 9, 200, 255}, b \in {0, 1, 16, 255}}
            \cup {Fresh, Obj(1, <<0, 0, 200>>), Obj(-1, <<0>>)}

(* What is read; 20 is no digit.                                           *)
FewStrings == {<<1, 2>>, <<MINUS, 1, 0, 0, 1>>}
TestStrings == {<<>>, <<MINUS>>, <<0, 0>>} \cup
  {s \o t : s \in {<<>>, <<MINUS>>, <<1, 15>>, <<3>>, <<20, MINUS>>},
            t \in {<<0>>, <<1, 0, 3>>, <<9, 9, 9, 9>>, <<2, 20, 1>>, <<1, 1, 1, 1, 1, 1>>}}
TestBuffers == Strings({0, 1, 15}, 5)

Nothing == [ops |-> {}, A |-> None, B |-> None, N |-> None, ints |-> {1}, strings |-> {}, buffers |-> {},
            radices |-> {}, shifts |-> {}, allocs |-> {Ample}, bound |-> 2,
            limbs |-> 0 .. Base - 1]

MCPrograms ==
  [arith |-> [Nothing EXCEPT
     !.ops = {"add", "sub", "sub_abs", "mul", "add_int", "sub_int", "mul_int", "lset", "shift",
              "set_bit", "copy", "swap", "resize", "compare"},
     !.A = Both(Digit), !.B = Both(Digit), !.ints = -1 .. 1, !.shifts = {0, 1, 7, 8, 17},
     !.limbs = {0, 1, 255}],
   divide |-> [Nothing EXCEPT !.ops = {"div", "mod"}, !.A = Dividends, !.B = Divisors,
                              !.limbs = Edge],
   modulo |-> [Nothing EXCEPT !.ops = {"exp_mod", "gcd", "inv_mod"}, !.A = Bases, !.B = Exponents,
                              !.N = Moduli],
   window |-> [Nothing EXCEPT !.ops = {"exp_mod"}, !.A = WideBases, !.B = WideExponents,
                              !.N = WideModuli, !.bound = 3],
   no_memory |-> [Nothing EXCEPT
     !.ops = {"add", "sub_int", "mul", "mul_int", "div", "mod", "exp_mod", "gcd", "inv_mod", "shift",
              "copy", "read_string", "write_string", "read_binary"},
     !.A = Sparse, !.B = Sparse, !.N = TwoModuli, !.strings = FewStrings, !.buffers = {<<1, 1, 1>>},
     !.radices = {4, 10}, !.shifts = {3}, !.allocs = 0 .. 9, !.bound = 0],
   texts |-> [Nothing EXCEPT
     !.ops = {"read_string", "write_string", "read_file", "write_file"},
     !.A = TwoLimbs, !.strings = TestStrings, !.radices = {1, 2, 3, 4, 7, 10, 16}, !.bound = 3],
   bytes |-> [Nothing EXCEPT !.ops = {"read_binary", "write_binary"}, !.buffers = TestBuffers]]

(* __bswapsi2 turns four bytes round, as the reordering in C does.         *)
ASSUME SwapAssumption ==
  \A b \in [1 .. 4 -> {0, 1, Char - 2, Char - 1}] : bswapsi2(BigEndian(b)) = BigEndian(Reverse(b))
=============================================================================
