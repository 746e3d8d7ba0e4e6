------------------------------- MODULE MpiIO -------------------------------
(***************************************************************************)
(* Reading and writing of bignum.c's objects: binary data in both byte     *)
(* orders and strings of digits.  A byte is a number below 2^charBits, a   *)
(* digit character is its value, "-" or a character that is no digit, and  *)
(* a string is a sequence of those without the terminating NUL.            *)
(***************************************************************************)
EXTENDS MpiModular

CONSTANTS BIG_ENDIAN,    \* __BYTE_ORDER__
          RW_BUFFER      \* MBEDTLS_MPI_RW_BUFFER_SIZE

ASSUME IOAssumption ==
  BIG_ENDIAN \in BOOLEAN /\ RW_BUFFER \in Nat

MINUS == 100
Char == 2^charBits
(* The radix with two digits to a char, 16 where a char has 8 bits.        *)
hexBits == charBits \div 2
HEX == 2^hexBits
GET_BYTE(p, i) == (p[(i \div ciL) + 1] \div Char^(i % ciL)) % Char

(* The bytes of memory from the lowest address, for a limb and back.       *)
MemoryOrder(b) == IF BIG_ENDIAN THEN Reverse(b) ELSE b
ToBytes(x) == MemoryOrder([k \in 1 .. ciL |-> GET_BYTE(<<x>>, k - 1)])
FromBytes(b) == FoldRight(LAMBDA c, x : x * Char + c, MemoryOrder(b), 0)

(* The four-byte swap the repository brings along for libgcc's, which      *)
(* __builtin_bswap32 calls; with it the next function is not used.         *)
bswapsi2(x) ==
    ((x \div Char^3) % Char)
  + ((x \div Char^2) % Char) * Char
  + ((x \div Char) % Char) * Char^2
  + (x % Char) * Char^3

mpi_uint_bigendian_to_host_c(x) ==
  FoldLeft(LAMBDA tmp, c : tmp * Char + c, 0, ToBytes(x))

mpi_uint_bigendian_to_host(x) ==
  IF BIG_ENDIAN THEN x ELSE mpi_uint_bigendian_to_host_c(x)

(* Limbs swapped end for end, and the bytes in each.                       *)
mpi_bigendian_to_host(p) == [k \in DOMAIN p |-> mpi_uint_bigendian_to_host(Reverse(p)[k])]

LimbsOfMemory(bytes) ==
  [k \in 1 .. Len(bytes) \div ciL |-> FromBytes(SubSeq(bytes, (k - 1) * ciL + 1, k * ciL))]

mpi_read_binary_le(st, X, buf) ==
  LET limb(bytes) == FoldRight(LAMBDA c, x : x * Char + c, bytes, 0)
      limbs(padded, n) == [k \in 1 .. n |-> limb(SubSeq(padded, (k - 1) * ciL + 1, k * ciL))]
      fill(u) == PutP(u, X, limbs(Low(buf, N(u, X) * ciL), N(u, X)))
  IN  Then(mpi_resize_clear(st, X, CHARS_TO_LIMBS(Len(buf))), fill)

mpi_read_binary(st, X, buf) ==
  LET limbs == CHARS_TO_LIMBS(Len(buf))
      memory == Zeros(limbs * ciL - Len(buf)) \o buf
      fill(u) == IF buf = <<>> THEN u ELSE PutP(u, X, mpi_bigendian_to_host(LimbsOfMemory(memory)))
  IN  Then(mpi_resize_clear(st, X, limbs), fill)

(* The writers give [ret, buf].  A shorter buffer is enough if the bytes   *)
(* that do not fit are zero.                                               *)
WriteBytes(x, buflen) ==
  LET stored == Len(x.p) * ciL
  IN  IF \E i \in buflen .. stored - 1 : GET_BYTE(x.p, i) # 0
      THEN [ret |-> BUFFER_TOO_SMALL, buf |-> <<>>]
      ELSE [ret |-> OK, buf |-> [i \in 1 .. buflen |->
                                  IF i <= stored THEN GET_BYTE(x.p, i - 1) ELSE 0]]

mpi_write_binary_le(x, buflen) == WriteBytes(x, buflen)
mpi_write_binary(x, buflen) ==
  LET w == WriteBytes(x, buflen) IN [w EXCEPT !.buf = Reverse(@)]
-----------------------------------------------------------------------------
(* Strings.                                                                *)

IsDigit(c, radix) == c < radix                   \* mpi_get_digit

ReadHex(st, X, s) ==
  LET place(p, j) == [p EXCEPT ![((j - 1) \div (2 * ciL)) + 1] =
                        @ + s[Len(s) - j + 1] * HEX^((j - 1) % (2 * ciL))]
      fill(u, n) == PutP(u, X, FoldLeft(place, u.m[X].p, Upto(n)))
      digits(u, bad) == IF bad = 0 THEN fill(u, Len(s)) ELSE Fail(fill(u, Len(s) - bad), INVALID_CHARACTER)
      read(u) == digits(u, SelectLastInSeq(s, LAMBDA c : ~IsDigit(c, HEX)))
  IN  Then(mpi_lset(mpi_grow(st, X, BITS_TO_LIMBS(hexBits * Len(s))), X, 0), read)

AddDigit(st, X, radix, d) ==
  IF IsDigit(d, radix) THEN mpi_add_int(mpi_mul_int(st, "io.T", X, radix), X, "io.T", d)
  ELSE Fail(st, INVALID_CHARACTER)
ReadDigits(st, X, radix, s) ==
  FoldLeft(LAMBDA acc, d : AddDigit(acc, X, radix, d), mpi_lset(st, X, 0), s)

ReadAbs(st, X, radix, s) == IF radix = HEX THEN ReadHex(st, X, s) ELSE ReadDigits(st, X, radix, s)
Negate(st, X) == IF mpi_bitlen(st.m[X]) # 0 THEN PutS(st, X, -1) ELSE st

mpi_read_string(st, X, radix, s) ==
  IF radix < 2 \/ radix > 16 THEN Fail(st, BAD_INPUT_DATA)
  ELSE IF s = <<>> THEN mpi_free(st, {X})
  ELSE mpi_free(IF s[1] = MINUS THEN Negate(ReadAbs(st, X, radix, Tail(s)), X)
                ELSE ReadAbs(st, X, radix, s), {"io.T"})

(* Digits of T, least significant first, until nothing is left of it.      *)
RECURSIVE mpi_write_hlp(_, _, _, _)
WriteOn(st, radix, buflen, out, digit) ==
  IF st.ret # OK THEN [st |-> st, out |-> out]
  ELSE IF mpi_cmp_int(st.m["io.T"], 0) = 0 THEN [st |-> st, out |-> <<digit>> \o out]
  ELSE mpi_write_hlp(st, radix, buflen, <<digit>> \o out)
mpi_write_hlp(st, radix, buflen, out) ==
  IF st.ret # OK THEN [st |-> st, out |-> out]
  ELSE IF Len(out) >= buflen THEN [st |-> Fail(st, BUFFER_TOO_SMALL), out |-> out]
  ELSE WriteOn(mpi_div_int(st, "io.T", NULL, "io.T", radix), radix, buflen, out,
               mpi_mod_int(st.m["io.T"], radix).r)

(* Two digits per byte, without the leading zero bytes but the last.       *)
WriteHex(x) ==
  LET bytes == Reverse([i \in 1 .. Len(x.p) * ciL |-> GET_BYTE(x.p, i - 1)])
      from(b) == Min({Len(b)} \cup {i \in DOMAIN b : b[i] # 0})
      half(c, i) == IF i % 2 = 1 THEN c \div HEX ELSE c % HEX
      digits(b) == [i \in 1 .. 2 * Len(b) |-> half(b[(i + 1) \div 2], i)]
      used(b) == IF b = <<>> THEN <<>> ELSE SubSeq(b, from(b), Len(b))
  IN  digits(used(bytes))

MutSizeNeeded(x, radix) ==   \* no char to make up for rounding down
  LET bits == mpi_bitlen(x)
      n == (IF radix >= 16 THEN bits \div 4 ELSE IF radix >= 4 THEN bits \div 2 ELSE bits) + 2
  IN  n + (n % 2)

(* Chars write_string asks for: digits rounded down, NUL, one to make up   *)
(* for the rounding, a sign, and an even number of them.                   *)
SizeNeeded(x, radix) ==
  LET bits == mpi_bitlen(x)
      n == (IF radix >= 16 THEN bits \div 4 ELSE IF radix >= 4 THEN bits \div 2 ELSE bits) + 3
  IN  n + (n % 2)

WriteAbs(st, X, radix, buflen) ==
  IF radix = HEX THEN [st |-> st, out |-> WriteHex(st.m[X])]
  ELSE mpi_write_hlp(PutS(mpi_copy(st, "io.T", X), "io.T", 1), radix, buflen, <<>>)
WithSign(w, sign) ==
  [st |-> mpi_free(w.st, {"io.T"}), out |-> sign \o w.out, olen |-> Len(sign \o w.out) + 1]

(* [st, out, olen]: the characters, and their number with the NUL.         *)
mpi_write_string(st, X, radix, buflen) ==
  LET sign == IF st.m[X].s = -1 THEN <<MINUS>> ELSE <<>>
      n == SizeNeeded(st.m[X], radix)
  IN  IF radix < 2 \/ radix > 16 THEN [st |-> Fail(st, BAD_INPUT_DATA), out |-> <<>>, olen |-> 0]
      ELSE IF buflen < n THEN [st |-> Fail(st, BUFFER_TOO_SMALL), out |-> <<>>, olen |-> n]
      ELSE WithSign(WriteAbs(st, X, radix, buflen - Len(sign)), sign)

(* One line of a file: the digits at its end, before which there may be a  *)
(* label; whatever is not a digit, a minus sign too, ends them.  io says   *)
(* whether fgets, or each fwrite, worked.                                  *)
mpi_read_file(st, X, radix, line, io) ==
  LET before == SelectLastInSeq(line, LAMBDA c : ~IsDigit(c, radix))
  IN  IF radix < 2 \/ radix > 16 THEN Fail(st, BAD_INPUT_DATA)
      ELSE IF ~io THEN Fail(st, FILE_IO_ERROR)
      ELSE IF Len(line) >= RW_BUFFER - 2 THEN Fail(st, BUFFER_TOO_SMALL)
      ELSE mpi_read_string(st, X, radix, SubSeq(line, before + 1, Len(line)))

mpi_write_file(st, X, radix, io) ==
  LET w == mpi_write_string(st, X, radix, RW_BUFFER - 2)
  IN  IF w.st.ret = OK /\ ~io THEN [w EXCEPT !.st = Fail(@, FILE_IO_ERROR)] ELSE w
=============================================================================
