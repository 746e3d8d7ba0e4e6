----------------------------- MODULE MCBootConsole ----------------------------
(* Files, JSON documents, flash contents and texts for BootConsole.         *)
EXTENDS BootConsole

Tok(type, p, rest, size, n) ==
  [type |-> type, text |-> [p |-> p, rest |-> rest], size |-> size, n |-> n]
Object(size) == Tok("object", "{", "", size, 0)
Pair(p, rest, n) == <<Tok("string", p, rest, 1, 0), Tok("number", "0", "x", 0, n)>>
Image(f, n) == Pair(f, ".bin", n)
Arg(p, n) == Pair(p, "", n)
Bootargs(pairs, size) == <<Tok("string", "bootargs", "", 1, 0), Object(size)>> \o pairs

MCDocs == {
  <<>>,
  <<Object(0)>>,
  <<Object(1)>> \o Arg("addr", 1),
  <<Object(2)>> \o Image("a", 1) \o Image("b", 2),
  <<Object(3)>> \o Image("b", 1) \o Image("a", 1) \o Image("c", 0),
  <<Object(2)>> \o Image("a", 2) \o Bootargs(Arg("r1", 5) \o Arg("addr", 1), 2),
  <<Object(2)>> \o Bootargs(Arg("addr", 2) \o Arg("r3", 7), 2) \o Image("a", 1) \o Image("b", 2),
  <<Object(2)>> \o Pair("r2", ".bin", 1) \o Image("a", 2) }
MCSize == [f \in {"a.bin", "b.bin", "c.bin", "boot.bin"} |->
             CASE f = "a.bin" -> 3 [] f = "b.bin" -> 1 [] f = "c.bin" -> 0 [] f = "boot.bin" -> 1]
JsonErrors == {-3}
MCBehind == LET Blank(n) == [k \in 1 .. n |-> Tok("undefined", "", "", 0, 0)]
            IN {Blank(16), <<Object(2)>> \o Image("b", 0) \o Bootargs(Arg("r1", 9) \o Arg("addr", 2), 2)
                             \o Blank(2) \o Arg("r3", 8) \o Blank(3)}
MCPlaces == 0 .. 2
MCFlash == [length : {1, 2, 5, 6}, crc_ok : {TRUE}] \cup {[length |-> 4, crc_ok |-> FALSE]}

(* Addresses that are right, that have a number, a digit or a separator too *)
(* many or too few, and that hold other characters.                         *)
Join(numbers) == FoldLeft(LAMBDA s, n : IF s = <<>> THEN n ELSE s \o <<SEPARATOR>> \o n, <<>>, numbers)
RightIps == {Join(<<a, <<2, 5>>, <<3>>, <<1, 0, 0>>>>) : a \in {<<2, 5, 5>>}}
WrongIps == { Join(<<<<1>>, <<1>>>>), Join(<<<<1, 0>>, <<1, 0>>, <<7>>>>), Join(<<<<1>>, <<1, 2, 3, 4>>, <<5>>, <<6>>>>),
              Join(<<<<1>>, <<NO_DIGIT>>, <<5>>, <<6>>>>), Join(<<<<1>>, <<>>, <<5, 5>>, <<6>>>>),
              Join(<<<<1, 1>>, <<1>>, <<1>>, <<>>>>) }
MCIps == RightIps \cup WrongIps
MCMacs == {Join(<<a, <<0, 0>>, <<0, 1>>, <<12, 3>>, b, <<15, 15>>>>) :
             a \in {<<10, 14>>}, b \in {<<9, 9>>, <<NO_DIGIT, 0>>}}
MCStacks == {<<NUL, NUL, NUL, NUL>>, <<NUL, 7, 7, 7>>, <<7, 7, 7, NUL>>}
=============================================================================
