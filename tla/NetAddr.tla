------------------------------ MODULE NetAddr ------------------------------
(***************************************************************************)
(* The network addresses of the BIOS (boot.c): the console commands that   *)
(* set the local and the remote IP address and the MAC address, and        *)
(* netboot, which starts the UDP stack with them.  A text is a sequence of *)
(* characters: a digit is its value, the others are the numbers below.     *)
(* The number buffer has room for the digits only: what it holds before    *)
(* the first number, and the character that follows it in memory, are      *)
(* whatever the stack had there.                                           *)
(***************************************************************************)
EXTENDS Integers, Sequences, SequencesExt

CONSTANTS IpTexts, MacTexts,     \* what is typed
          Stacks                 \* what the stack may hold: four characters

SEPARATOR == 100     \* '.' or ':'
NEWLINE == 101
NO_DIGIT == 102
NUL == 103

(* What can be typed, and what the stack may hold.                         *)
Typed == 0 .. 15 \cup {SEPARATOR, NEWLINE, NO_DIGIT}
BufChar == Typed \cup {NUL}

ASSUME StackAssumption == \A s \in Stacks : s \in [1 .. 4 -> BufChar]

(* The parsers keep the length in a byte; the console's line is shorter.   *)
ASSUME TextAssumption ==
  \A text \in IpTexts \cup MacTexts : text \in Seq(Typed) /\ Len(text) <= 255

VARIABLES local_ip, remote_ip, macadr,
          udp,      \* the UDP stack: [ip, mac]
          last      \* the last command: [what, text, set, to, clean]

addresses == <<local_ip, remote_ip, macadr, udp>>

DefaultIp == <<192, 168, 1, 50>>
DefaultMac == <<16, 226, 213, 0, 0, 0>>

NetInit ==
  /\ local_ip = DefaultIp /\ remote_ip = <<192, 168, 1, 100>> /\ macadr = DefaultMac
  /\ udp = [ip |-> <<0, 0, 0, 0>>, mac |-> <<0, 0, 0, 0, 0, 0>>]
  /\ last = [what |-> "none"]

(* atoi, or strtol in base 16, of the digits at the start of memory.       *)
Digits(memory, radix) ==
  SubSeq(memory, 1, Max({j \in 0 .. Len(memory) : \A x \in 1 .. j : memory[x] < radix}))
DigitsValue(digits, radix) ==
  LET v[j \in 0 .. Len(digits)] == IF j = 0 THEN 0 ELSE v[j - 1] * radix + digits[j]
  IN  v[Len(digits)]
Number(memory, radix) == DigitsValue(Digits(memory, radix), radix)

MutNextNumber(p, width, radix, after) ==    \* the buffer is not cleared
  [p EXCEPT !.to = Append(@, Number(p.buf \o <<after>>, radix)), !.k = 0]

NextNumber(p, width, radix, after) ==
  [p EXCEPT !.to = Append(@, Number(p.buf \o <<after>>, radix)),
            !.k = 0, !.buf = [x \in 1 .. width |-> NUL]]

(* One round of the loop over the text: a separator ends a number that has *)
(* digits, so does a newline at the end; anything else is refused.         *)
Character(p, text, i, width, radix, after) ==
  IF ~p.ok THEN p
  ELSE IF (text[i] = SEPARATOR /\ p.k # 0) \/ (text[i] = NEWLINE /\ i = Len(text))
       THEN NextNumber(p, width, radix, after)
  ELSE IF text[i] < radix /\ p.k < width
       THEN [p EXCEPT !.buf[p.k + 1] = text[i], !.k = @ + 1]
  ELSE [p EXCEPT !.ok = FALSE]

(* The parser after each character.                                        *)
Rounds(text, width, radix, stack) ==
  LET p[i \in 0 .. Len(text)] ==
        IF i = 0 THEN [ok |-> TRUE, k |-> 0, buf |-> SubSeq(stack, 1, width), to |-> <<>>]
        ELSE Character(p[i - 1], text, i, width, radix, stack[width + 1])
  IN  p
Scan(text, width, radix, stack) ==
  NextNumber(Rounds(text, width, radix, stack)[Len(text)], width, radix, stack[width + 1])

Right(p, groups) == p.ok /\ Len(p.to) = groups

parse_ip(text, stack) ==
  LET p == Scan(text, 3, 10, stack)
  IN  [ok |-> Len(text) >= 7 /\ Len(text) <= 15 /\ Right(p, 4), to |-> p.to]

parse_mac_addr(text, stack) ==
  LET p == Scan(text, 2, 16, stack)
  IN  [ok |-> Len(text) = 17 /\ Right(p, 6), to |-> [x \in DOMAIN p.to |-> p.to[x] % 256]]

Said(what, text, p, stack) ==
  last' = [what |-> what, text |-> text, set |-> p.ok, to |-> p.to,
           clean |-> \A x \in DOMAIN stack : stack[x] = NUL]

set_local_ip ==
  \E text \in IpTexts, stack \in Stacks :
    LET p == parse_ip(text, stack)
    IN  /\ \/ p.ok /\ local_ip' = p.to /\ udp' = [udp EXCEPT !.ip = p.to]
           \/ ~p.ok /\ UNCHANGED <<local_ip, udp>>
        /\ Said("local", text, p, stack)
        /\ UNCHANGED <<remote_ip, macadr>>

set_remote_ip ==
  \E text \in IpTexts, stack \in Stacks :
    LET p == parse_ip(text, stack)
    IN  /\ remote_ip' = IF p.ok THEN p.to ELSE remote_ip
        /\ Said("remote", text, p, stack)
        /\ UNCHANGED <<local_ip, macadr, udp>>

set_mac_addr ==
  \E text \in MacTexts, stack \in Stacks :
    LET p == parse_mac_addr(text, stack)
    IN  /\ \/ p.ok /\ macadr' = p.to /\ udp' = [udp EXCEPT !.mac = p.to]
           \/ ~p.ok /\ UNCHANGED <<macadr, udp>>
        /\ Said("mac", text, p, stack)
        /\ UNCHANGED <<local_ip, remote_ip>>

(* netboot starts the stack before it asks the server for anything.        *)
udp_start ==
  /\ udp' = [ip |-> local_ip, mac |-> macadr]
  /\ last' = [what |-> "netboot"]
  /\ UNCHANGED <<local_ip, remote_ip, macadr>>

set_address == set_local_ip \/ set_remote_ip \/ set_mac_addr
-----------------------------------------------------------------------------
(* Texts that are numbers with one separator between two of them.          *)
SplitAt(parts, c) ==
  IF c = SEPARATOR THEN Append(parts, <<>>)
  ELSE [parts EXCEPT ![Len(parts)] = Append(@, c)]
Splits(text) ==
  LET s[i \in 0 .. Len(text)] == IF i = 0 THEN << <<>> >> ELSE SplitAt(s[i - 1], text[i])
  IN  s
Split(text) == Splits(text)[Len(text)]
Written(text, groups, width, radix) ==
  /\ Len(Split(text)) = groups
  /\ \A x \in 1 .. groups : /\ Len(Split(text)[x]) \in 1 .. width
                            /\ \A y \in DOMAIN Split(text)[x] : Split(text)[x][y] < radix
Meant(text, radix) == [x \in DOMAIN Split(text) |-> Number(Split(text)[x], radix)]

(* Every number that was taken is the one the text says if the stack was   *)
(* clean, and if it was not, every one after the first that leaves room in *)
(* the buffer.                                                             *)
Trusted(text, width, clean) ==
  {x \in DOMAIN Split(text) : clean \/ (x > 1 /\ Len(Split(text)[x]) < width)}

Taken(groups, width, radix) ==
  Written(last.text, groups, width, radix) =>
    /\ last.set
    /\ \A x \in Trusted(last.text, width, last.clean) : last.to[x] = Meant(last.text, radix)[x]

(* A text in the right format is taken, and taken for the numbers it says, *)
(* whatever numbers the same buffer held before.  The numbers that depend  *)
(* on what the stack held are right only if it happened to be zero.        *)
RightFormatTaken ==
  /\ last.what \in {"local", "remote"} => Taken(4, 3, 10)
  /\ last.what = "mac" /\ Len(last.text) = 17 => Taken(6, 2, 16)
=============================================================================
