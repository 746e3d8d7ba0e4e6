--------------------------- MODULE SerialImageProofs ---------------------------
(***************************************************************************)
(* boot() jumps into the whole image: JumpWholeImage of SerialBoot, for    *)
(* every magic string, every program of the host that ends with its jumps, *)
(* every length of its frames and every place the one byte may be lost or  *)
(* typed at.                                                               *)
(***************************************************************************)
EXTENDS SerialBootProofs

(* What the host sends: every frame has a payload (a LOAD or a JUMP frame  *)
(* has the four bytes of its address), and nothing is loaded after a jump. *)
Upload(prog) ==
    /\ \A n \in 1..Len(prog) : prog[n].payload_length > 0
    /\ \A j, k \in 1..Len(prog) :
          j < k /\ prog[j].cmd = "JUMP" => prog[k].cmd # "LOAD"

(* What has not been executed yet: the bytes read and those on the line.   *)
stream == bios.frame \o line

FrameSize(prog, n) == prog[n].payload_length + 4

(* d is the byte the host sends after b; behind the last byte of a frame   *)
(* another one starts.                                                     *)
IsLast(prog, b) == b[2] + 1 = FrameSize(prog, b[1])
Succeeds(prog, b, d) == IF IsLast(prog, b) THEN d[2] = 0 ELSE d = <<b[1], b[2] + 1>>

(* Behind position p, s is made of whole frames.                           *)
Whole(prog, s, p) ==
    /\ \A q \in p + 1..Len(s) : s[q][1] \in 1..Len(prog)
    /\ p < Len(s) => s[p + 1][2] = 0 /\ IsLast(prog, s[Len(s)])
    /\ \A q \in p + 1..Len(s) - 1 : Succeeds(prog, s[q], s[q + 1])

(* At position p a whole frame n ends.                                     *)
Run(prog, n, s, p) ==
    /\ p >= FrameSize(prog, n)
    /\ \A k \in 1..FrameSize(prog, n) : s[p - FrameSize(prog, n) + k] = <<n, k - 1>>

(* However a reader got there: behind a whole frame all frames are whole.  *)
Resync(prog, n, s) == \A p \in 1..Len(s) : Run(prog, n, s, p) => Whole(prog, s, p)

OnlyChars(s) == \A q \in 1..Len(s) : s[q][1] = 0
NoSuccess(r) == \A k \in 1..Len(r) : r[k] # "SUCCESS"
LoadedBelow(prog, loaded, n) == \A m \in 1..n - 1 : prog[m].cmd = "LOAD" => m \in loaded

(* The frame under way is, so far, one of the host's.                      *)
Reading(prog, b) ==
    /\ b.frame = << >> => b.pc = "frame"
    /\ b.frame # << >> =>
        LET m == b.frame[1][1]
        IN  /\ m \in 1..Len(prog)
            /\ \A k \in 1..Len(b.frame) : b.frame[k] = <<m, k - 1>>
            /\ b.payload_length = prog[m].payload_length
            /\ Len(b.frame) <= FrameSize(prog, m)
            /\ b.pc = IF Len(b.frame) = FrameSize(prog, m) THEN "execute" ELSE "frame"

(* Behind its first r bytes, s is the frame n and typed bytes, e in number.*)
FrameAt(prog, n, s, r, e) ==
    /\ Len(s) = r + FrameSize(prog, n) + e
    /\ \A k \in 1..FrameSize(prog, n) : s[r + k] = <<n, k - 1>>
    /\ e = 1 => s[Len(s)][1] = 0

(* What check_ack has not read of the magic string.                        *)
Unheard == Len(Magic) - bios.recognized
MagicAhead ==
    /\ Unheard <= Len(line)
    /\ \A k \in 1..Unheard : line[k] = <<0, Magic[bios.recognized + k]>>

(* Host and BIOS are in step: one frame, or the answer to it, is under way.*)
Waits ==
    /\ host.n = 1 /\ faults = 0 /\ bios.pc \in {"start", "ack"}
    /\ line = << >> /\ replies = << >>
    /\ bios.pc = "start" => host.phase = "listen"
    /\ bios.pc = "ack" => host.phase = "answer" /\ bios.recognized = 0
Hears ==
    /\ host.n = 1 /\ bios.pc = "ack" /\ replies = << >> /\ MagicAhead
    /\ \/ host.phase = "send" /\ faults = 0 /\ Len(line) = Unheard
       \/ host.phase = "wait" /\ FrameAt(host.program, 1, line, Unheard, faults)
Sends ==
    /\ bios.pc = "frame" /\ host.phase = "send" /\ faults = 0
    /\ bios.frame = << >> /\ line = << >> /\ replies = << >>
Reads ==
    /\ bios.pc \in {"frame", "execute"} /\ host.phase = "wait" /\ replies = << >>
    /\ Reading(host.program, bios) /\ FrameAt(host.program, host.n, stream, 0, faults)
Answered ==
    /\ bios.pc = "frame" /\ host.phase = "wait" /\ faults = 0
    /\ bios.frame = << >> /\ line = << >> /\ Len(replies) = 1
    /\ replies[1] = "SUCCESS" => LoadedBelow(host.program, mem, host.n + 1)
InStep ==
    /\ LoadedBelow(host.program, mem, host.n)
    /\ Waits \/ Hears \/ Sends \/ Reads \/ Answered

(* A byte is damaged, and nothing of the frame has been accepted since.    *)
Damaged ==
    /\ faults = 1 /\ bios.pc # "start" /\ host.phase \in {"answer", "send", "wait"}
    /\ NoSuccess(replies) /\ LoadedBelow(host.program, mem, host.n)
    /\ \A q \in 1..Len(stream) : stream[q][1] \in {0, host.n}
    /\ host.phase = "answer" => OnlyChars(stream)
    /\ Resync(host.program, host.n, stream)

(* A character was typed behind the first frame, which has been accepted.  *)
Accepted ==
    /\ faults = 1 /\ bios.pc \in {"frame", "execute"} /\ host.phase = "wait"
    /\ replies # << >> /\ replies[1] = "SUCCESS" /\ NoSuccess(Tail(replies))
    /\ LoadedBelow(host.program, mem, host.n + 1) /\ OnlyChars(stream)

(* The frame that was damaged has been accepted, perhaps more than once:   *)
(* the host may be ahead of the BIOS, but all it sends arrives, in order.  *)
Sorted(s) == \A q, r \in 1..Len(s) : q <= r => s[q][1] <= s[r][1]
Held(prog, loaded, s, m) ==
    prog[m].cmd = "LOAD" => m \in loaded \/ \E q \in 1..Len(s) : s[q][1] = m
InOrder ==
    /\ faults = 1 /\ bios.pc \in {"frame", "execute"}
    /\ host.phase \in {"send", "wait", "done"}
    /\ Reading(host.program, bios) /\ Whole(host.program, stream, 0) /\ Sorted(stream)
    /\ \A q \in 1..Len(stream) : stream[q][1] <= host.n
    /\ \A m \in 1..host.n :
          m < host.n \/ host.phase # "send" => Held(host.program, mem, stream, m)

AllLoaded == LoadedBelow(host.program, mem, Len(host.program) + 1)

JumpInv ==
    /\ Upload(host.program)
    /\ bios.pc \in {"start", "ack"} => bios.frame = << >>
    /\ bios.pc \notin Final /\ faults <= 1 =>
          InStep \/ Damaged \/ Accepted \/ InOrder \/ AllLoaded
    /\ JumpWholeImage

-------------------------------------------------------------------------------
(* Sequences of bytes.                                                     *)

(* A program of the host, with the sizes of its frames.                    *)
Sized(prog) ==
    /\ Len(prog) \in Nat
    /\ \A n \in 1..Len(prog) : FrameSize(prog, n) \in Nat /\ FrameSize(prog, n) > 4

StreamOf(prog) == Seq((0..Len(prog)) \X Nat)

(* t is what remains of s without its first d bytes.                       *)
Drops(s, d, t) ==
    /\ d \in Nat /\ Len(s) \in Nat /\ Len(t) \in Nat /\ Len(t) + d = Len(s)
    /\ \A q \in 1..Len(t) : t[q] = s[q + d]

(* t is s with the frame n behind it.                                      *)
Extends(prog, s, n, t) ==
    /\ Len(s) \in Nat /\ Len(t) \in Nat /\ Len(t) = Len(s) + FrameSize(prog, n)
    /\ \A q \in 1..Len(s) : t[q] = s[q]
    /\ \A k \in 1..FrameSize(prog, n) : t[Len(s) + k] = <<n, k - 1>>

(* The elements of a sequence of bytes.                                    *)
LEMMA StreamByte ==
    ASSUME NEW prog, Len(prog) \in Nat, NEW s \in StreamOf(prog), NEW q \in 1..Len(s)
    PROVE  s[q][1] \in 0..Len(prog) /\ s[q][2] \in Nat /\ s[q] = <<s[q][1], s[q][2]>>
  <1>1. s[q] \in (0..Len(prog)) \X Nat
    BY ElementOfSeq DEF StreamOf
  <1> QED
    BY <1>1

(* Frames that are whole stay whole when what is in front of them goes.    *)
LEMMA DropWhole ==
    ASSUME NEW prog, NEW s, NEW d, NEW t, Drops(s, d, t), NEW p \in 0..Len(t),
           Whole(prog, s, p + d)
    PROVE  Whole(prog, t, p)
  <1>1. d \in Nat /\ Len(s) \in Nat /\ Len(t) \in Nat /\ Len(t) + d = Len(s)
    BY DEF Drops
  <1>2. \A q \in 1..Len(t) : t[q] = s[q + d]
    BY DEF Drops
  <1>3. ASSUME NEW q \in p + 1..Len(t) PROVE t[q][1] \in 1..Len(prog)
    <2>1. q + d \in p + d + 1..Len(s) /\ q \in 1..Len(t)
      BY <1>1
    <2> QED
      BY <1>2, <2>1 DEF Whole
  <1>4. ASSUME p < Len(t) PROVE t[p + 1][2] = 0 /\ IsLast(prog, t[Len(t)])
    <2>1. p + 1 \in 1..Len(t) /\ Len(t) \in 1..Len(t) /\ p + d < Len(s) /\ p + 1 + d = p + d + 1
      BY <1>1, <1>4
    <2>2. t[p + 1] = s[p + d + 1] /\ t[Len(t)] = s[Len(s)]
      BY <1>1, <1>2, <2>1
    <2> QED
      BY <2>1, <2>2 DEF Whole
  <1>5. ASSUME NEW q \in p + 1..Len(t) - 1 PROVE Succeeds(prog, t[q], t[q + 1])
    <2>1. /\ q + d \in p + d + 1..Len(s) - 1 /\ q \in 1..Len(t) /\ q + 1 \in 1..Len(t)
          /\ q + 1 + d = q + d + 1
      BY <1>1
    <2>2. t[q] = s[q + d] /\ t[q + 1] = s[q + d + 1]
      BY <1>2, <2>1
    <2> QED
      BY <2>1, <2>2 DEF Whole
  <1> QED
    BY <1>3, <1>4, <1>5 DEF Whole

(* A reader that finds its way back after any loss does so from any later  *)
(* point too.                                                              *)
LEMMA DropResync ==
    ASSUME NEW prog, NEW n \in 1..Len(prog), Sized(prog), NEW s, NEW d, NEW t,
           Drops(s, d, t), Resync(prog, n, s)
    PROVE  Resync(prog, n, t)
  <1> SUFFICES ASSUME NEW p \in 1..Len(t), Run(prog, n, t, p)
               PROVE  Whole(prog, t, p)
    BY DEF Resync
  <1> DEFINE z == FrameSize(prog, n)
  <1>1. d \in Nat /\ Len(s) \in Nat /\ Len(t) \in Nat /\ Len(t) + d = Len(s) /\ z \in Nat
    BY DEF Drops, Sized
  <1>2. p >= z /\ \A k \in 1..z : t[p - z + k] = <<n, k - 1>>
    BY DEF Run
  <1>3. ASSUME NEW k \in 1..z PROVE s[(p + d) - z + k] = <<n, k - 1>>
    <2>1. p - z + k \in 1..Len(t) /\ p - z + k + d = (p + d) - z + k
      BY <1>1, <1>2, SMTT(30)
    <2> QED
      BY <1>2, <2>1 DEF Drops
  <1>4. Run(prog, n, s, p + d) /\ p + d \in 1..Len(s) /\ p \in 0..Len(t)
    <2>1. p + d >= z /\ p + d \in 1..Len(s) /\ p \in 0..Len(t)
      BY <1>1, <1>2
    <2> QED
      BY <1>3, <2>1, Zenon DEF Run
  <1>5. Whole(prog, s, p + d)
    BY <1>4 DEF Resync
  <1> QED
    BY <1>4, <1>5, DropWhole

(* Whole frames stay whole when another one follows.                       *)
LEMMA ExtendWhole ==
    ASSUME NEW prog, NEW n \in 1..Len(prog), Sized(prog), NEW s, NEW t,
           Extends(prog, s, n, t), NEW p \in 0..Len(s), Whole(prog, s, p)
    PROVE  Whole(prog, t, p)
  <1> DEFINE z == FrameSize(prog, n)
             l == Len(s)
  <1>1. l \in Nat /\ z \in Nat /\ z > 4 /\ Len(t) = l + z /\ Len(t) \in Nat
    BY DEF Extends, Sized
  <1>2. \A q \in 1..l : t[q] = s[q]
    BY DEF Extends
  <1>3. \A k \in 1..z : t[l + k] = <<n, k - 1>>
    BY DEF Extends
  <1>4. \A q \in l + 1..l + z : t[q] = <<n, q - l - 1>>
    <2> SUFFICES ASSUME NEW q \in l + 1..l + z PROVE t[q] = <<n, q - l - 1>>
      OBVIOUS
    <2>1. q - l \in 1..z /\ l + (q - l) = q
      BY <1>1
    <2> QED
      BY <1>3, <2>1
  <1> HIDE DEF z, l
  <1>5. ASSUME NEW q \in p + 1..Len(t) PROVE t[q][1] \in 1..Len(prog)
    <2>1. CASE q <= l
      <3>1. q \in 1..l /\ q \in p + 1..l
        BY <1>1, <2>1
      <3> QED
        BY <1>2, <3>1 DEF Whole, l
    <2>2. CASE q > l
      <3>1. q \in l + 1..l + z
        BY <1>1, <2>2
      <3> QED
        BY <1>4, <3>1
    <2> QED
      BY <1>1, <2>1, <2>2
  <1>6. t[p + 1][2] = 0
    <2>1. CASE p < l
      <3>1. p + 1 \in 1..l
        BY <1>1, <2>1 DEF l
      <3> QED
        BY <1>2, <2>1, <3>1 DEF Whole, l
    <2>2. CASE p = l
      <3>1. PICK q \in l + 1..l + z : q = p + 1 /\ q - l - 1 = 0
        BY <1>1, <2>2 DEF l
      <3>2. t[q] = <<n, 0>>
        BY <1>4, <3>1
      <3> QED
        BY <3>1, <3>2
    <2> QED
      BY <1>1, <2>1, <2>2 DEF l
  <1>7. IsLast(prog, t[Len(t)])
    <2>1. Len(t) \in l + 1..l + z /\ Len(t) - l - 1 = z - 1 /\ z - 1 + 1 = z
      BY <1>1
    <2>2. t[Len(t)] = <<n, z - 1>>
      BY <1>4, <2>1
    <2> QED
      BY <2>1, <2>2 DEF IsLast, z
  <1>8. ASSUME NEW q \in p + 1..Len(t) - 1 PROVE Succeeds(prog, t[q], t[q + 1])
    <2>1. CASE q < l
      <3>1. q \in 1..l /\ q + 1 \in 1..l /\ q \in p + 1..l - 1
        BY <1>1, <2>1 DEF l
      <3>2. t[q] = s[q] /\ t[q + 1] = s[q + 1]
        BY <1>2, <3>1
      <3> QED
        BY <3>1, <3>2 DEF Whole, l
    <2>2. CASE q = l
      <3>1. l \in 1..l /\ p < l /\ q + 1 \in l + 1..l + z /\ (q + 1) - l - 1 = 0
        BY <1>1, <2>2 DEF l
      <3>2. t[q] = s[l] /\ t[q + 1][2] = 0
        BY <1>2, <1>4, <2>2, <3>1
      <3>3. IsLast(prog, s[l])
        BY <3>1 DEF Whole, l
      <3> QED
        BY <3>2, <3>3 DEF Succeeds
    <2>3. CASE q > l
      <3>1. /\ q \in l + 1..l + z /\ q + 1 \in l + 1..l + z
            /\ (q + 1) - l - 1 = q - l - 1 + 1 /\ q - l - 1 + 1 # z
        BY <1>1, <2>3
      <3>2. t[q] = <<n, q - l - 1>> /\ t[q + 1] = <<n, q - l - 1 + 1>>
        <4>1. t[q] = <<n, q - l - 1>> /\ t[q + 1] = <<n, (q + 1) - l - 1>>
          BY <1>4, <3>1, Zenon
        <4> QED
          BY <3>1, <4>1, Zenon
      <3>3. ~IsLast(prog, t[q])
        BY <3>1, <3>2 DEF IsLast, z
      <3> QED
        BY <3>2, <3>3 DEF Succeeds
    <2> QED
      BY <1>1, <2>1, <2>2, <2>3
  <1> QED
    BY <1>5, <1>6, <1>7, <1>8 DEF Whole

(* A frame that is sent whole starts with its first byte, so no whole      *)
(* frame ends inside it.                                                   *)
LEMMA ExtendResync ==
    ASSUME NEW prog, NEW n \in 1..Len(prog), Sized(prog), NEW s, NEW t,
           Extends(prog, s, n, t), Resync(prog, n, s)
    PROVE  Resync(prog, n, t)
  <1> SUFFICES ASSUME NEW p \in 1..Len(t), Run(prog, n, t, p)
               PROVE  Whole(prog, t, p)
    BY DEF Resync
  <1> DEFINE z == FrameSize(prog, n)
             l == Len(s)
  <1>1. l \in Nat /\ z \in Nat /\ z > 4 /\ Len(t) = l + z /\ Len(t) \in Nat
    BY DEF Extends, Sized
  <1>2. \A q \in 1..l : t[q] = s[q]
    BY DEF Extends
  <1>3. p >= z /\ \A k \in 1..z : t[p - z + k] = <<n, k - 1>>
    BY DEF Run
  <1>4. CASE p <= l
    <2>1. p \in 1..l /\ p \in 0..l
      BY <1>1, <1>4
    <2>2. ASSUME NEW k \in 1..z PROVE s[p - z + k] = <<n, k - 1>>
      <3>1. p - z + k \in 1..l
        BY <1>1, <1>3, <1>4
      <3> QED
        BY <1>2, <1>3, <3>1
    <2>3. Run(prog, n, s, p)
      BY <1>3, <2>2 DEF Run
    <2>4. Whole(prog, s, p)
      BY <2>1, <2>3 DEF Resync
    <2> QED
      BY <2>1, <2>4, ExtendWhole
  <1>5. CASE p > l
    <2>1. p - z >= l
      <3> SUFFICES ASSUME p - z < l PROVE FALSE
        BY <1>1
      <3>1. PICK k \in 1..z : k = l + 1 - (p - z) /\ k # 1
        BY <1>1, <1>3, <1>5
      <3>2. p - z + k = l + 1 /\ k - 1 # 0
        BY <1>1, <3>1
      <3>3. t[l + 1] = <<n, k - 1>>
        BY <1>3, <3>2
      <3>4. t[l + 1] = <<n, 1 - 1>>
        BY <1>1 DEF Extends
      <3> QED
        BY <3>2, <3>3, <3>4
    <2>2. p = Len(t)
      BY <1>1, <2>1
    <2> QED
      BY <1>1, <2>2 DEF Whole
  <1> QED
    BY <1>1, <1>4, <1>5

(* Characters hold no frame.                                               *)
LEMMA CharsResync ==
    ASSUME NEW prog, NEW n \in 1..Len(prog), Sized(prog), NEW s, Len(s) \in Nat,
           OnlyChars(s)
    PROVE  Resync(prog, n, s)
  <1> SUFFICES ASSUME NEW p \in 1..Len(s), Run(prog, n, s, p)
               PROVE  FALSE
    BY DEF Resync
  <1> DEFINE z == FrameSize(prog, n)
  <1>1. z \in Nat /\ z > 4 /\ p >= z
    BY DEF Run, Sized
  <1>2. p - z + z = p /\ z \in 1..z /\ n # 0
    BY <1>1 DEF Sized
  <1>3. s[p] = <<n, z - 1>>
    BY <1>2 DEF Run
  <1> QED
    BY <1>2, <1>3 DEF OnlyChars

-------------------------------------------------------------------------------
(* What a step does to the bytes that are under way.                       *)

(* The frames of the host have their sizes.                                *)
LEMMA ProgramSized ==
    ASSUME TypeInv, Upload(host.program)
    PROVE  Sized(host.program) /\ host.n \in 1..Len(host.program)
  <1>1. Len(host.program) \in Nat
    BY SerialBootAssumption, LenProperties DEF TypeInv
  <1>2. ASSUME NEW n \in 1..Len(host.program)
        PROVE  FrameSize(host.program, n) \in Nat /\ FrameSize(host.program, n) > 4
    <2>1. host.program[n].payload_length \in 0..MaxLength
      BY FrameType
    <2>2. host.program[n].payload_length > 0
      BY DEF Upload
    <2> QED
      BY <2>1, <2>2, SerialBootAssumption, SMTT(30) DEF FrameSize
  <1> QED
    BY <1>1, <1>2 DEF Sized, TypeInv

(* The stream, byte by byte.                                               *)
LEMMA StreamType ==
    ASSUME TypeInv
    PROVE  /\ stream \in StreamOf(host.program) /\ bios.frame \in Seq(Byte) /\ line \in Seq(Byte)
           /\ Len(bios.frame) \in Nat /\ Len(line) \in Nat
           /\ Len(stream) = Len(bios.frame) + Len(line)
           /\ \A k \in 1..Len(bios.frame) : stream[k] = bios.frame[k]
           /\ \A k \in 1..Len(line) : stream[Len(bios.frame) + k] = line[k]
  <1>1. bios.frame \in Seq(Byte) /\ line \in Seq(Byte)
    BY DEF TypeInv
  <1>2. Len(bios.frame) \in Nat /\ Len(line) \in Nat
    BY <1>1, LenProperties
  <1>3. /\ stream \in Seq(Byte)
        /\ Len(stream) = Len(bios.frame) + Len(line)
        /\ \A i \in 1..Len(bios.frame) + Len(line) :
              stream[i] = IF i <= Len(bios.frame) THEN bios.frame[i]
                                                  ELSE line[i - Len(bios.frame)]
    BY <1>1, ConcatProperties DEF stream
  <1>4. ASSUME NEW k \in 1..Len(line) PROVE stream[Len(bios.frame) + k] = line[k]
    <2>1. PICK i \in 1..Len(bios.frame) + Len(line) :
            i = Len(bios.frame) + k /\ ~(i <= Len(bios.frame)) /\ i - Len(bios.frame) = k
      BY <1>2
    <2> QED
      BY <1>3, <2>1
  <1>5. ASSUME NEW k \in 1..Len(bios.frame) PROVE stream[k] = bios.frame[k]
    <2>1. k \in 1..Len(bios.frame) + Len(line) /\ k <= Len(bios.frame)
      BY <1>2
    <2> QED
      BY <1>3, <2>1
  <1> QED
    BY <1>1, <1>2, <1>3, <1>4, <1>5 DEF StreamOf, Byte

(* The byte that is read next.                                             *)
LEMMA NextByte ==
    ASSUME TypeInv, line # << >>
    PROVE  /\ Len(line) > 0 /\ Head(line) = line[1] /\ Head(line) \in Byte
           /\ Head(line) = stream[Len(bios.frame) + 1]
           /\ Len(bios.frame) + 1 \in 1..Len(stream)
           /\ Tail(line) \in Seq(Byte) /\ Len(Tail(line)) = Len(line) - 1
           /\ \A k \in 1..Len(line) - 1 : Tail(line)[k] = line[k + 1]
  <1>1. Len(line) \in Nat \ {0} /\ Len(bios.frame) \in Nat
    BY StreamType, EmptySeq
  <1>2. Head(line) = line[1] /\ Head(line) \in Byte
    BY LineType
  <1>3. 1 \in 1..Len(line) /\ Len(bios.frame) + 1 \in 1..Len(stream)
    BY <1>1, StreamType
  <1>4. stream[Len(bios.frame) + 1] = line[1]
    BY <1>3, StreamType
  <1>5. /\ Tail(line) \in Seq(Byte) /\ Len(Tail(line)) = Len(line) - 1
        /\ \A k \in 1..Len(Tail(line)) : Tail(line)[k] = line[k + 1]
    BY StreamType, HeadTailProperties
  <1> QED
    BY <1>1, <1>2, <1>3, <1>4, <1>5

(* Reading a byte of a frame only moves it.                                *)
LEMMA ReadKeepsStream ==
    ASSUME TypeInv, ReadLength \/ ReadByte
    PROVE  stream' = stream
  <1>1. line # << >> /\ line' = Tail(line)
    BY DEF ReadLength, ReadByte
  <1>2. Head(line) \in Byte /\ Tail(line) \in Seq(Byte) /\ line \in Seq(Byte) /\ bios.frame \in Seq(Byte)
    BY <1>1, NextByte, StreamType
  <1>3. <<Head(line)>> \in Seq(Byte) /\ << >> \in Seq(Byte)
    BY <1>2
  <1>4. bios'.frame = bios.frame \o <<Head(line)>>
    <2>1. CASE ReadLength
      <3>1. bios.frame = << >> /\ bios'.frame = <<Head(line)>>
        BY <2>1 DEF ReadLength, TypeInv
      <3> QED
        BY <1>3, <3>1, ConcatEmptySeq
    <2>2. CASE ReadByte
      <3>1. bios'.frame = Append(bios.frame, Head(line))
        BY <2>2 DEF ReadByte, TypeInv
      <3> QED
        BY <1>2, <3>1, AppendIsConcat
    <2> QED
      BY <2>1, <2>2
  <1>5. stream' = bios.frame \o (<<Head(line)>> \o Tail(line))
    BY <1>1, <1>2, <1>3, <1>4, ConcatAssociative, SMTT(30) DEF stream
  <1>6. <<Head(line)>> \o Tail(line) = line
    BY <1>1, <1>2
  <1> QED
    BY <1>5, <1>6 DEF stream

(* A character that check_ack reads is gone.                               *)
LEMMA CharDropped ==
    ASSUME TypeInv, AckChar, bios.frame = << >>
    PROVE  /\ bios'.frame = << >> /\ stream = line /\ stream' = line' /\ line' \in Seq(Byte)
           /\ Drops(stream, 1, stream')
  <1>1. line # << >> /\ line' = Tail(line)
    BY DEF AckChar
  <1>2. bios'.frame = << >>
    BY DEF AckChar, TypeInv
  <1>3. Tail(line) \in Seq(Byte) /\ line \in Seq(Byte)
    BY <1>1, NextByte, StreamType
  <1>4. stream = line /\ stream' = line'
    BY <1>1, <1>2, <1>3, ConcatEmptySeq DEF stream
  <1>5. /\ Len(line) \in Nat /\ Len(line) > 0 /\ Len(line') = Len(line) - 1
        /\ \A k \in 1..Len(line) - 1 : line'[k] = line[k + 1]
    BY <1>1, NextByte, StreamType
  <1>6. Len(line') + 1 = Len(line) /\ Len(line') \in Nat
    BY <1>5
  <1>7. Drops(line, 1, line')
    BY <1>5, <1>6 DEF Drops
  <1> QED
    BY <1>1, <1>2, <1>3, <1>4, <1>7

(* A frame that is answered is gone.                                       *)
LEMMA FrameDropped ==
    ASSUME TypeInv, NEW a, NEW pc, NEW failures, Acknowledge(a, pc, failures)
    PROVE  /\ bios'.frame = << >> /\ stream' = line /\ Drops(stream, Len(bios.frame), stream')
  <1>1. bios'.frame = << >> /\ line' = line
    BY DEF Acknowledge, TypeInv
  <1>2. stream' = line
    BY <1>1, StreamType, ConcatEmptySeq DEF stream
  <1>3. /\ Len(bios.frame) \in Nat /\ Len(line) \in Nat
        /\ Len(stream) = Len(bios.frame) + Len(line)
        /\ \A k \in 1..Len(line) : stream[Len(bios.frame) + k] = line[k]
    BY StreamType
  <1>4. /\ Len(stream) \in Nat /\ Len(line) + Len(bios.frame) = Len(stream)
        /\ \A k \in 1..Len(line) : k + Len(bios.frame) = Len(bios.frame) + k
    BY <1>3
  <1>5. Drops(stream, Len(bios.frame), line)
    BY <1>3, <1>4 DEF Drops
  <1> QED
    BY <1>1, <1>2, <1>5

(* A frame whose timer has run out is gone, and nothing is behind it.      *)
LEMMA TimeoutDropped ==
    ASSUME TypeInv, FrameTimeout
    PROVE  bios'.frame = << >> /\ line = << >> /\ stream' = << >> /\ stream = bios.frame
  <1>1. bios'.frame = << >> /\ line = << >> /\ line' = << >>
    BY DEF FrameTimeout, TypeInv
  <1> QED
    BY <1>1, StreamType, EmptySeq, ConcatEmptySeq DEF stream

(* The bytes of a frame.                                                   *)
LEMMA BytesAre ==
    ASSUME TypeInv, Upload(host.program), NEW n \in 1..Len(host.program)
    PROVE  /\ Bytes(n) \in Seq(Byte) /\ Len(Bytes(n)) = FrameSize(host.program, n)
           /\ \A k \in 1..FrameSize(host.program, n) : Bytes(n)[k] = <<n, k - 1>>
  BY BytesType DEF FrameSize, Bytes

(* A frame is sent without loss.                                           *)
LEMMA SendIntact ==
    ASSUME TypeInv, Upload(host.program), line' = line \o Bytes(host.n), UNCHANGED bios
    PROVE  Extends(host.program, stream, host.n, stream')
  <1> DEFINE z == FrameSize(host.program, host.n)
             b == Bytes(host.n)
  <1>1. host.n \in 1..Len(host.program) /\ z \in Nat /\ z > 4
    BY ProgramSized DEF Sized
  <1>2. b \in Seq(Byte) /\ Len(b) = z /\ \A k \in 1..z : b[k] = <<host.n, k - 1>>
    BY <1>1, BytesAre
  <1>3. stream \in Seq(Byte) /\ Len(stream) \in Nat
    BY StreamType DEF StreamOf, Byte
  <1>4. stream' = stream \o b
    <2>1. bios.frame \in Seq(Byte) /\ line \in Seq(Byte) /\ b \in Seq(Byte)
      BY <1>2, StreamType
    <2>2. (bios.frame \o line) \o b = bios.frame \o (line \o b)
      <3>1. ASSUME NEW s \in Seq(Byte), NEW t \in Seq(Byte), NEW u \in Seq(Byte)
            PROVE  (s \o t) \o u = s \o (t \o u)
        BY ConcatAssociative
      <3> QED
        BY <2>1, <3>1, Zenon
    <2>3. stream' = bios.frame \o (line \o b) /\ stream = bios.frame \o line
      BY DEF stream, b
    <2> QED
      BY <2>2, <2>3
  <1> HIDE DEF b, z
  <1>5. /\ Len(stream') = Len(stream) + z
        /\ \A i \in 1..Len(stream) + z :
              stream'[i] = IF i <= Len(stream) THEN stream[i] ELSE b[i - Len(stream)]
    BY <1>2, <1>3, <1>4, ConcatProperties
  <1>6. ASSUME NEW i \in 1..Len(stream) PROVE stream'[i] = stream[i]
    <2>1. i \in 1..Len(stream) + z /\ i <= Len(stream)
      BY <1>1, <1>3
    <2> QED
      BY <1>5, <2>1
  <1>7. ASSUME NEW k \in 1..z PROVE stream'[Len(stream) + k] = <<host.n, k - 1>>
    <2>1. PICK i \in 1..Len(stream) + z :
            i = Len(stream) + k /\ ~(i <= Len(stream)) /\ i - Len(stream) = k
      BY <1>1, <1>3
    <2> QED
      BY <1>2, <1>5, <2>1
  <1>8. Len(stream') \in Nat
    BY <1>1, <1>3, <1>5
  <1> QED
    BY <1>3, <1>5, <1>6, <1>7, <1>8 DEF Extends, z

-------------------------------------------------------------------------------
(* What every step keeps.                                                  *)

Stages == InStep \/ Damaged \/ Accepted \/ InOrder \/ AllLoaded

(* What a step of serialboot that does not end it starts from.             *)
Going ==
    /\ TypeInv /\ TypeInv' /\ Streak /\ JumpInv /\ [Next]_vars
    /\ bios'.pc \notin Final /\ faults' <= 1

(* The program of the host stays, and memory only fills.                   *)
LEMMA Kept ==
    ASSUME TypeInv, [Next]_vars
    PROVE  /\ host'.program = host.program /\ Byte' = Byte /\ mem \subseteq mem'
           /\ faults \in Nat /\ faults' \in {faults, faults + 1}
  <1>1. mem \subseteq mem'
    BY DEF Next, BiosStep, HostStep, Start, HostAck, HostSend, HostReply, Key, Terminated,
       AckChar, AckTimeout, ReadLength, ReadByte, FrameTimeout, CrcError, Abort, Load,
       Jump, Unknown, vars
  <1>2. faults \in Nat
    BY SerialBootAssumption DEF TypeInv
  <1>3. faults' \in {faults, faults + 1}
    BY DEF Next, BiosStep, HostStep, Start, HostAck, HostSend, HostReply, Key, Terminated,
       AckChar, AckTimeout, ReadLength, ReadByte, FrameTimeout, CrcError, Abort, Load,
       Jump, Unknown, Fail, Acknowledge, Transmit, vars
  <1> QED
    BY <1>1, <1>2, <1>3, ProgramKept

(* What has been loaded stays in memory.                                   *)
LEMMA LoadedKept ==
    ASSUME TypeInv, [Next]_vars, NEW n, LoadedBelow(host.program, mem, n)
    PROVE  LoadedBelow(host'.program, mem', n)
  BY Kept DEF LoadedBelow

(* A step that goes on knows where the program of the host stands.         *)
LEMMA GoingFacts ==
    ASSUME Going
    PROVE  /\ TypeInv /\ TypeInv' /\ [Next]_vars /\ Upload(host.program)
           /\ host'.program = host.program /\ Sized(host.program)
           /\ host.n \in 1..Len(host.program) /\ host'.n \in 1..Len(host.program)
           /\ bios.pc \in {"start", "ack"} => bios.frame = << >>
           /\ stream \in StreamOf(host.program) /\ stream' \in StreamOf(host.program)
           /\ Len(stream) \in Nat /\ Len(stream') \in Nat
  <1>1. /\ TypeInv /\ TypeInv' /\ [Next]_vars /\ Upload(host.program)
        /\ bios.pc \in {"start", "ack"} => bios.frame = << >>
    BY DEF Going, JumpInv
  <1>2. host'.program = host.program /\ Byte' = Byte
    BY <1>1, Kept
  <1>3. Sized(host.program) /\ host.n \in 1..Len(host.program)
    BY <1>1, ProgramSized
  <1>4. host'.n \in 1..Len(host.program)
    BY <1>1, <1>2 DEF TypeInv
  <1>5. stream \in StreamOf(host.program)
    BY <1>1, StreamType
  <1>6. stream' \in StreamOf(host.program)
    <2>1. bios'.frame \in Seq(Byte) /\ line' \in Seq(Byte)
      BY <1>1, <1>2 DEF TypeInv
    <2>2. stream' \in Seq(Byte)
      BY <2>1, ConcatProperties DEF stream
    <2> QED
      BY <2>2 DEF StreamOf, Byte
  <1>7. Len(stream) \in Nat /\ Len(stream') \in Nat
    BY <1>5, <1>6, LenProperties DEF StreamOf
  <1> QED
    BY <1>1, <1>2, <1>3, <1>4, <1>5, <1>6, <1>7

(* Once the whole image is in memory it stays there.                       *)
LEMMA AllLoadedStep ==
    ASSUME Going, AllLoaded
    PROVE  AllLoaded'
  <1>1. LoadedBelow(host'.program, mem', Len(host.program) + 1)
    BY LoadedKept, GoingFacts DEF AllLoaded
  <1> QED
    BY <1>1, GoingFacts DEF AllLoaded

(* An answer that is not SUCCESS, behind others.                           *)
LEMMA AppendAnswer ==
    ASSUME NEW r \in Seq(Answers), NEW a \in Answers, a # "SUCCESS", NoSuccess(r)
    PROVE  NoSuccess(Append(r, a))
  BY AppendProperties, LenProperties DEF NoSuccess

(* The host takes the oldest answer.                                       *)
LEMMA TailAnswer ==
    ASSUME NEW r \in Seq(Answers), r # << >>
    PROVE  /\ Head(r) = r[1] /\ Tail(r) \in Seq(Answers)
           /\ NoSuccess(r) => r[1] # "SUCCESS" /\ NoSuccess(Tail(r))
  <1>1. Len(r) \in Nat \ {0} /\ Head(r) = r[1] /\ Len(Tail(r)) = Len(r) - 1
        /\ Tail(r) \in Seq(Answers) /\ \A k \in 1..Len(Tail(r)) : Tail(r)[k] = r[k + 1]
    BY EmptySeq, HeadTailProperties
  <1>2. 1 \in 1..Len(r) /\ \A k \in 1..Len(Tail(r)) : k + 1 \in 1..Len(r)
    BY <1>1
  <1> QED
    BY <1>1, <1>2 DEF NoSuccess

(* What an answer to a bad frame does.                                     *)
LEMMA FailDoes ==
    ASSUME Going, CrcError \/ Unknown
    PROVE  /\ bios.pc = "execute" /\ bios'.pc = "frame" /\ bios'.frame = << >>
           /\ stream' = line /\ Drops(stream, Len(bios.frame), stream')
           /\ UNCHANGED <<mem, line, host, faults>>
           /\ \E a \in Answers \ {"SUCCESS"} : replies' = Append(replies, a)
  <1>1. PICK a \in {"CRCERROR", "UNKNOWN"} : Fail(a) /\ UNCHANGED mem
    BY DEF CrcError, Unknown
  <1>2. PICK pc, failures : Acknowledge(a, pc, failures) /\ pc \in {"gaveUp", "frame"}
    BY <1>1 DEF Fail
  <1>3. /\ bios.pc = "execute" /\ bios'.pc = pc /\ replies' = Append(replies, a)
        /\ UNCHANGED <<line, host, faults>>
    BY <1>2, GoingFacts DEF Acknowledge, TypeInv
  <1>4. bios'.pc = "frame"
    BY <1>2, <1>3 DEF Going, Final
  <1>5. bios'.frame = << >> /\ stream' = line /\ Drops(stream, Len(bios.frame), stream')
    BY <1>2, FrameDropped, GoingFacts
  <1> QED
    BY <1>1, <1>3, <1>4, <1>5 DEF Answers

(* What the answer to a frame that was loaded does.                        *)
LEMMA LoadDoes ==
    ASSUME Going, Load
    PROVE  /\ bios.pc = "execute" /\ bios'.pc = "frame" /\ bios'.frame = << >>
           /\ stream' = line /\ Drops(stream, Len(bios.frame), stream')
           /\ UNCHANGED <<line, host, faults>> /\ replies' = Append(replies, "SUCCESS")
           /\ CrcOk /\ mem' = mem \cup {bios.frame[1][1]}
           /\ host.program[bios.frame[1][1]].cmd = "LOAD"
  <1>1. Acknowledge("SUCCESS", "frame", 0) /\ CrcOk /\ mem' = mem \cup {bios.frame[1][1]}
    BY DEF Load
  <1>2. host.program[bios.frame[1][1]].cmd = "LOAD"
    BY DEF Load, Command
  <1>3. /\ bios.pc = "execute" /\ bios'.pc = "frame" /\ replies' = Append(replies, "SUCCESS")
        /\ UNCHANGED <<line, host, faults>>
    BY <1>1, GoingFacts DEF Acknowledge, TypeInv
  <1>4. bios'.frame = << >> /\ stream' = line /\ Drops(stream, Len(bios.frame), stream')
    BY <1>1, FrameDropped, GoingFacts
  <1> QED
    BY <1>1, <1>2, <1>3, <1>4

(* A frame that passes the CRC is a whole frame of the host.               *)
LEMMA CrcFrame ==
    ASSUME Going, bios.pc = "execute", CrcOk
    PROVE  LET n == bios.frame[1][1]
           IN  /\ n \in 1..Len(host.program) /\ Len(bios.frame) = FrameSize(host.program, n)
               /\ \A k \in 1..FrameSize(host.program, n) : bios.frame[k] = <<n, k - 1>>
  <1> DEFINE n == bios.frame[1][1]
  <1>1. bios.frame # << >> /\ bios.frame \in Seq(Byte)
    BY GoingFacts, StreamType DEF Going, Streak
  <1>2. bios.frame[1] \in Byte
    BY <1>1, ElementOfSeq, EmptySeq
  <1>3. n \in 0..Len(host.program)
    BY <1>2 DEF Byte
  <1>4. n > 0 /\ bios.frame = Bytes(n)
    BY DEF CrcOk
  <1>5. n \in 1..Len(host.program)
    BY <1>3, <1>4, GoingFacts DEF Sized
  <1> HIDE DEF n
  <1>6. /\ Len(Bytes(n)) = FrameSize(host.program, n)
        /\ \A k \in 1..FrameSize(host.program, n) : Bytes(n)[k] = <<n, k - 1>>
    BY <1>5, BytesAre, GoingFacts
  <1>7. /\ n \in 1..Len(host.program) /\ Len(bios.frame) = FrameSize(host.program, n)
        /\ \A k \in 1..FrameSize(host.program, n) : bios.frame[k] = <<n, k - 1>>
    BY <1>4, <1>5, <1>6
  <1> QED
    BY <1>7 DEF n

(* A step that does not end serialboot is one of these.                    *)
LEMMA GoingCases ==
    ASSUME Going
    PROVE  \/ Start \/ HostAck \/ HostSend \/ HostReply \/ Key \/ AckChar
           \/ ReadLength \/ ReadByte \/ FrameTimeout \/ CrcError \/ Unknown \/ Load
           \/ UNCHANGED vars
  <1>1. TypeInv /\ [Next]_vars /\ bios'.pc \notin Final
    BY DEF Going
  <1>2. ~AckTimeout /\ ~Abort /\ ~Jump
    BY <1>1 DEF TypeInv, AckTimeout, Abort, Jump, Acknowledge, Final
  <1> QED
    BY <1>1, <1>2 DEF Next, BiosStep, HostStep, Terminated

-------------------------------------------------------------------------------
(* The stages of an upload, one lemma for each.                            *)

(* The stream loses its front, and nothing is accepted: a damaged frame is *)
(* still one.                                                              *)
LEMMA DamagedKept ==
    ASSUME Going, Damaged, faults' = faults, bios'.pc # "start", host'.n = host.n,
           host'.phase \in {"answer", "send", "wait"}, host'.phase = "answer" => host.phase = "answer",
           NoSuccess(replies'), NEW d, Drops(stream, d, stream')
    PROVE  Damaged'
  <1>1. Resync(host.program, host.n, stream')
    BY GoingFacts, DropResync DEF Damaged
  <1>2. LoadedBelow(host'.program, mem', host'.n)
    BY LoadedKept, GoingFacts DEF Damaged
  <1>3. /\ d \in Nat /\ Len(stream') + d = Len(stream) /\ Len(stream) \in Nat /\ Len(stream') \in Nat
        /\ \A q \in 1..Len(stream') : stream'[q] = stream[q + d]
    BY DEF Drops
  <1>4. \A q \in 1..Len(stream') : q + d \in 1..Len(stream)
    BY <1>3
  <1>5. \A q \in 1..Len(stream') : stream'[q][1] \in {0, host.n}
    BY <1>3, <1>4 DEF Damaged
  <1>6. host'.phase = "answer" => OnlyChars(stream')
    BY <1>3, <1>4 DEF Damaged, OnlyChars
  <1>7. faults' = 1
    BY DEF Damaged
  <1>8. host'.program = host.program
    BY GoingFacts
  <1> QED
    BY <1>1, <1>2, <1>5, <1>6, <1>7, <1>8 DEF Damaged

(* Nothing is lost of a stream that does not change.                       *)
LEMMA DropsNothing ==
    ASSUME NEW s, Len(s) \in Nat
    PROVE  Drops(s, 0, s)
  BY DEF Drops

(* A stream that is lost as a whole.                                       *)
LEMMA DropsAll ==
    ASSUME NEW s, Len(s) \in Nat
    PROVE  Drops(s, Len(s), << >>)
  BY DEF Drops

(* Without a loss everything arrives.                                      *)
LEMMA TransmitIntact ==
    ASSUME faults \in Nat, NEW s, Transmit(s), faults' = faults
    PROVE  line' = line \o s
  <1>1. faults' # faults + 1
    OBVIOUS
  <1> QED
    BY <1>1, Zenon DEF Transmit

(* The steps of the BIOS and of the host after a byte was damaged.         *)
LEMMA DamagedStep ==
    ASSUME Going, Damaged
    PROVE  Stages'
  <1> USE GoingFacts
  <1>1. faults = 1 /\ bios.pc # "start" /\ host.phase \in {"answer", "send", "wait"}
        /\ NoSuccess(replies) /\ replies \in Seq(Answers)
    BY DEF Damaged, TypeInv
  <1>2. faults' = faults
    BY <1>1, Kept DEF Going
  <1>3. CASE HostAck
    <2>1. line' = line \o [k \in 1..Len(Magic) |-> <<0, Magic[k]>>]
      BY <1>1, <1>2, <1>3, TransmitIntact DEF HostAck
    <2>2. /\ host.phase = "answer" /\ host'.phase = "send" /\ host'.n = host.n
          /\ UNCHANGED <<bios, mem, replies>>
      BY <1>3 DEF HostAck, TypeInv
    <2> DEFINE m == [k \in 1..Len(Magic) |-> <<0, Magic[k]>>]
    <2>3. m \in Seq(Byte) /\ Len(m) \in Nat /\ Len(m) = Len(Magic) /\ \A k \in 1..Len(m) : m[k][1] = 0
      BY MagicType, SerialBootAssumption
    <2> HIDE DEF m
    <2>4. stream' = stream \o m
      <3>1. bios.frame \in Seq(Byte) /\ line \in Seq(Byte)
        BY StreamType
      <3>2. ASSUME NEW s \in Seq(Byte), NEW t \in Seq(Byte), NEW u \in Seq(Byte)
            PROVE  (s \o t) \o u = s \o (t \o u)
        BY ConcatAssociative, SMTT(30)
      <3>3. stream' = bios.frame \o (line \o m) /\ stream = bios.frame \o line
        BY <2>1, <2>2 DEF stream, m
      <3> QED
        BY <2>3, <3>1, <3>2, <3>3, Zenon
    <2>5. stream \in Seq(Byte)
      BY DEF StreamOf, Byte
    <2>6. /\ Len(stream') = Len(stream) + Len(m)
          /\ \A i \in 1..Len(stream) + Len(m) :
                stream'[i] = IF i <= Len(stream) THEN stream[i] ELSE m[i - Len(stream)]
      BY <2>3, <2>4, <2>5, ConcatProperties
    <2>7. OnlyChars(stream')
      <3> SUFFICES ASSUME NEW q \in 1..Len(stream) + Len(m) PROVE stream'[q][1] = 0
        BY <2>6 DEF OnlyChars
      <3>1. CASE q <= Len(stream)
        BY <2>2, <2>3, <2>6, <3>1 DEF Damaged, OnlyChars
      <3>2. CASE ~(q <= Len(stream))
        <4>1. q - Len(stream) \in 1..Len(m)
          BY <2>3, <3>2
        <4> QED
          BY <2>3, <2>6, <3>2, <4>1
      <3> QED
        BY <3>1, <3>2
    <2>8. Resync(host.program, host.n, stream')
      BY <2>7, CharsResync
    <2>9. LoadedBelow(host'.program, mem', host'.n)
      BY <2>2, LoadedKept DEF Damaged
    <2>10. Damaged'
      BY <1>1, <1>2, <2>2, <2>7, <2>8, <2>9 DEF Damaged, OnlyChars
    <2> QED
      BY <2>10 DEF Stages
  <1>4. CASE HostSend
    <2>1. line' = line \o Bytes(host.n)
      BY <1>1, <1>2, <1>4, TransmitIntact DEF HostSend
    <2>2. /\ host.phase = "send" /\ host'.phase = "wait" /\ host'.n = host.n
          /\ UNCHANGED <<bios, mem, replies>>
      BY <1>4 DEF HostSend, TypeInv
    <2>3. Extends(host.program, stream, host.n, stream')
      BY <2>1, <2>2, SendIntact
    <2>4. Resync(host.program, host.n, stream')
      BY <2>3, ExtendResync DEF Damaged
    <2>5. \A q \in 1..Len(stream') : stream'[q][1] \in {0, host.n}
      <3> DEFINE z == FrameSize(host.program, host.n)
      <3>1. z \in Nat /\ Len(stream') = Len(stream) + z
        BY <2>3 DEF Sized, Extends
      <3> SUFFICES ASSUME NEW q \in 1..Len(stream') PROVE stream'[q][1] \in {0, host.n}
        OBVIOUS
      <3>2. CASE q <= Len(stream)
        <4>1. q \in 1..Len(stream)
          BY <3>2
        <4> QED
          BY <2>3, <4>1 DEF Extends, Damaged
      <3>3. CASE q > Len(stream)
        <4>1. q - Len(stream) \in 1..z /\ Len(stream) + (q - Len(stream)) = q
          BY <3>1, <3>3
        <4>0. PICK k \in 1..z : Len(stream) + k = q
          BY <4>1
        <4>2. stream'[q] = <<host.n, k - 1>>
          BY <2>3, <4>0 DEF Extends
        <4> QED
          BY <4>2
      <3> QED
        BY <3>1, <3>2, <3>3
    <2>6. LoadedBelow(host'.program, mem', host'.n)
      BY <2>2, LoadedKept DEF Damaged
    <2>7. Damaged'
      BY <1>1, <1>2, <2>2, <2>4, <2>5, <2>6 DEF Damaged
    <2> QED
      BY <2>7 DEF Stages
  <1>5. CASE HostReply
    <2>1. /\ host.phase = "wait" /\ replies # << >> /\ replies' = Tail(replies)
          /\ UNCHANGED <<bios, mem, line>>
      BY <1>5 DEF HostReply
    <2>2. Head(replies) # "SUCCESS" /\ NoSuccess(replies')
      BY <1>1, <2>1, TailAnswer
    <2>3. host'.phase = "send" /\ host'.n = host.n
      BY <1>5, <2>2 DEF HostReply, TypeInv
    <2>4. stream' = stream
      BY <2>1 DEF stream
    <2>5. Damaged'
      BY <1>1, <1>2, <2>1, <2>2, <2>3, <2>4, DropsNothing, DamagedKept
    <2> QED
      BY <2>5 DEF Stages
  <1>6. CASE AckChar
    <2>1. bios.pc = "ack" /\ UNCHANGED <<mem, replies, host>> /\ bios'.pc \in {"ack", "cancelled", "frame"}
      BY <1>6 DEF AckChar, TypeInv
    <2>2. Drops(stream, 1, stream')
      BY <1>6, <2>1, CharDropped
    <2>3. Damaged'
      BY <1>1, <1>2, <2>1, <2>2, DamagedKept
    <2> QED
      BY <2>3 DEF Stages
  <1>7. CASE ReadLength \/ ReadByte
    <2>1. UNCHANGED <<mem, replies, host>> /\ bios'.pc \in {"frame", "execute"}
      BY <1>7 DEF ReadLength, ReadByte, TypeInv
    <2>2. stream' = stream
      BY <1>7, ReadKeepsStream
    <2>3. Damaged'
      BY <1>1, <1>2, <2>1, <2>2, DropsNothing, DamagedKept
    <2> QED
      BY <2>3 DEF Stages
  <1>8. CASE FrameTimeout
    <2>1. /\ UNCHANGED <<mem, host>> /\ bios'.pc = "frame" /\ replies' = Append(replies, "ERROR")
      BY <1>8 DEF FrameTimeout, TypeInv
    <2>2. NoSuccess(replies')
      BY <1>1, <2>1, AppendAnswer DEF Answers
    <2>3. Drops(stream, Len(stream), stream')
      BY <1>8, TimeoutDropped, DropsAll
    <2>4. Damaged'
      BY <1>1, <1>2, <2>1, <2>2, <2>3, DamagedKept
    <2> QED
      BY <2>4 DEF Stages
  <1>9. CASE CrcError \/ Unknown
    <2>1. /\ UNCHANGED <<mem, host>> /\ bios'.pc = "frame"
          /\ Drops(stream, Len(bios.frame), stream')
      BY <1>9, FailDoes
    <2>2. NoSuccess(replies')
      BY <1>1, <1>9, FailDoes, AppendAnswer
    <2>3. Damaged'
      BY <1>1, <1>2, <2>1, <2>2, DamagedKept
    <2> QED
      BY <2>3 DEF Stages
  <1>10. CASE Load
    <2> DEFINE n == bios.frame[1][1]
               z == FrameSize(host.program, n)
    <2>1. /\ bios.pc = "execute" /\ bios'.pc = "frame" /\ bios'.frame = << >>
          /\ Drops(stream, Len(bios.frame), stream')
          /\ UNCHANGED <<line, host, faults>> /\ CrcOk /\ mem' = mem \cup {n}
      BY <1>10, LoadDoes
    <2>2. /\ n \in 1..Len(host.program) /\ Len(bios.frame) = z
          /\ \A k \in 1..z : bios.frame[k] = <<n, k - 1>>
      BY <2>1, CrcFrame
    <2> HIDE DEF n
    <2>3. z \in Nat /\ z > 4 /\ z \in 1..Len(stream) /\ 0 \in 0..Len(stream')
          /\ \A k \in 1..z : stream[k] = <<n, k - 1>>
      <3>1. z \in Nat /\ z > 4
        BY <2>2 DEF Sized
      <3>2. Len(line) \in Nat /\ Len(stream) = z + Len(line) /\ \A k \in 1..z : stream[k] = bios.frame[k]
        BY <2>2, StreamType
      <3>3. z \in 1..Len(stream) /\ 0 \in 0..Len(stream')
        BY <3>1, <3>2
      <3> QED
        BY <2>2, <3>1, <3>2, <3>3
    <2>4. n = host.n /\ host.phase # "answer"
      <3>1. 1 \in 1..Len(stream) /\ stream[1] = <<n, 0>>
        BY <2>3
      <3>2. stream[1][1] = n /\ n # 0
        BY <2>2, <3>1
      <3> QED
        BY <3>1, <3>2 DEF Damaged, OnlyChars
    <2>5. Run(host.program, host.n, stream, z)
      <3>1. z >= z /\ \A k \in 1..z : z - z + k = k
        BY <2>3
      <3> QED
        BY <2>3, <2>4, <3>1 DEF Run
    <2>6. Whole(host.program, stream, z)
      BY <2>3, <2>5 DEF Damaged, Resync
    <2>7. Whole(host.program, stream', 0)
      <3>1. 0 + z = z
        BY <2>3
      <3> QED
        BY <2>1, <2>2, <2>3, <2>6, <3>1, DropWhole
    <2>8. \A q \in 1..Len(stream') : stream'[q][1] = host.n
      <3> SUFFICES ASSUME NEW q \in 1..Len(stream') PROVE stream'[q][1] = host.n
        OBVIOUS
      <3>1. stream'[q] = stream[q + z] /\ q + z \in 1..Len(stream)
        BY <2>1, <2>2, <2>3, SMTT(30) DEF Drops
      <3>2. q \in 0 + 1..Len(stream')
        OBVIOUS
      <3>3. stream'[q][1] \in 1..Len(host.program)
        BY <2>7, <3>2 DEF Whole
      <3> QED
        BY <3>1, <3>3 DEF Damaged
    <2>9. Sorted(stream') /\ \A q \in 1..Len(stream') : stream'[q][1] <= host.n
      BY <2>8 DEF Sorted
    <2>10. ASSUME NEW m \in 1..host.n PROVE Held(host.program, mem', stream', m)
      <3>1. CASE m = host.n
        BY <2>1, <2>4, <3>1 DEF Held
      <3>2. CASE m # host.n
        <4>1. m \in 1..host.n - 1
          BY <3>2
        <4> QED
          BY <2>1, <4>1 DEF Damaged, LoadedBelow, Held
      <3> QED
        BY <3>1, <3>2
    <2>11. Reading(host.program, bios')
      BY <2>1 DEF Reading
    <2>12. InOrder'
      BY <1>1, <2>1, <2>4, <2>7, <2>9, <2>10, <2>11 DEF InOrder
    <2> QED
      BY <2>12 DEF Stages
  <1>11. CASE UNCHANGED vars
    <2>1. Damaged'
      BY <1>11 DEF vars, Damaged, stream
    <2> QED
      BY <2>1 DEF Stages
  <1>12. ~Start /\ ~Key
    BY <1>1, <1>2 DEF Start, Key
  <1> QED
    BY <1>3, <1>4, <1>5, <1>6, <1>7, <1>8, <1>9, <1>10, <1>11, <1>12, GoingCases

(* The first frame is accepted, and only what was typed comes behind it.   *)
LEMMA AcceptedKept ==
    ASSUME Going, Accepted, faults' = faults, host' = host, bios'.pc \in {"frame", "execute"},
           replies' = replies \/ \E a \in Answers \ {"SUCCESS"} : replies' = Append(replies, a),
           NEW d, Drops(stream, d, stream')
    PROVE  Accepted'
  <1>1. LoadedBelow(host'.program, mem', host'.n + 1)
    BY LoadedKept, GoingFacts DEF Accepted
  <1>2. /\ d \in Nat /\ Len(stream') + d = Len(stream) /\ Len(stream) \in Nat /\ Len(stream') \in Nat
        /\ \A q \in 1..Len(stream') : stream'[q] = stream[q + d]
    BY DEF Drops
  <1>3. \A q \in 1..Len(stream') : q + d \in 1..Len(stream)
    BY <1>2
  <1>4. OnlyChars(stream')
    BY <1>2, <1>3 DEF Accepted, OnlyChars
  <1>5. replies' # << >> /\ replies'[1] = "SUCCESS" /\ NoSuccess(Tail(replies'))
    <2>1. CASE replies' = replies
      BY <2>1 DEF Accepted
    <2>2. CASE replies' # replies
      <3>1. PICK a \in Answers \ {"SUCCESS"} : replies' = Append(replies, a)
        BY <2>2
      <3>2. replies \in Seq(Answers) /\ replies # << >>
        BY GoingFacts DEF TypeInv, Accepted
      <3>3. Len(replies) \in Nat \ {0} /\ Tail(replies) \in Seq(Answers)
        BY <3>2, EmptySeq, HeadTailProperties
      <3>4. replies' # << >> /\ \A i \in 1..Len(replies) : replies'[i] = replies[i]
        BY <3>1, <3>2, AppendProperties
      <3>5. replies'[1] = "SUCCESS"
        BY <3>3, <3>4 DEF Accepted
      <3>6. Tail(replies') = Append(Tail(replies), a)
        BY <3>1, <3>2, HeadTailAppend
      <3>7. NoSuccess(Append(Tail(replies), a))
        BY <3>3, AppendAnswer DEF Accepted
      <3> QED
        BY <3>4, <3>5, <3>6, <3>7
    <2> QED
      BY <2>1, <2>2
  <1> QED
    BY <1>1, <1>4, <1>5 DEF Accepted

(* The steps after the first frame was accepted, with a character behind   *)
(* it.                                                                     *)
LEMMA AcceptedStep ==
    ASSUME Going, Accepted
    PROVE  Stages'
  <1> USE GoingFacts
  <1>1. faults = 1 /\ bios.pc \in {"frame", "execute"} /\ host.phase = "wait"
        /\ replies # << >> /\ replies[1] = "SUCCESS" /\ replies \in Seq(Answers)
        /\ NoSuccess(Tail(replies)) /\ OnlyChars(stream)
    BY DEF Accepted, TypeInv
  <1>2. faults' = faults
    BY <1>1, Kept DEF Going
  <1>3. CASE HostReply
    <2>1. replies' = Tail(replies) /\ UNCHANGED <<bios, mem, line>> /\ stream' = stream
      BY <1>3 DEF HostReply, stream
    <2>2. Head(replies) = "SUCCESS"
      BY <1>1, TailAnswer
    <2>3. LoadedBelow(host'.program, mem', host.n + 1)
      BY LoadedKept DEF Accepted
    <2>4. CASE host.n = Len(host.program)
      <3>1. AllLoaded'
        BY <2>3, <2>4 DEF AllLoaded
      <3> QED
        BY <3>1 DEF Stages
    <2>5. CASE host.n # Len(host.program)
      <3>1. host'.phase = "send" /\ host'.n = host.n + 1
        BY <1>3, <2>2, <2>5 DEF HostReply, TypeInv
      <3>2. Resync(host.program, host'.n, stream)
        BY <1>1, CharsResync
      <3>3. \A q \in 1..Len(stream) : stream[q][1] \in {0, host'.n}
        BY <1>1 DEF OnlyChars
      <3>4. Damaged'
        BY <1>1, <1>2, <2>1, <2>3, <3>1, <3>2, <3>3 DEF Damaged
      <3> QED
        BY <3>4 DEF Stages
    <2> QED
      BY <2>4, <2>5
  <1>4. CASE ReadLength \/ ReadByte
    <2>1. UNCHANGED <<replies, host>> /\ bios'.pc \in {"frame", "execute"}
      BY <1>4 DEF ReadLength, ReadByte, TypeInv
    <2>2. Drops(stream, 0, stream')
      BY <1>4, ReadKeepsStream, DropsNothing
    <2>3. Accepted'
      BY <1>2, <2>1, <2>2, AcceptedKept
    <2> QED
      BY <2>3 DEF Stages
  <1>5. CASE FrameTimeout
    <2>1. /\ UNCHANGED host /\ bios'.pc = "frame" /\ replies' = Append(replies, "ERROR")
      BY <1>5 DEF FrameTimeout, TypeInv
    <2>2. "ERROR" \in Answers \ {"SUCCESS"}
      BY DEF Answers
    <2>3. Drops(stream, Len(stream), stream')
      BY <1>5, TimeoutDropped, DropsAll
    <2>4. Accepted'
      BY <1>2, <2>1, <2>2, <2>3, AcceptedKept
    <2> QED
      BY <2>4 DEF Stages
  <1>6. CASE CrcError
    <2>1. Accepted'
      BY <1>2, <1>6, FailDoes, AcceptedKept
    <2> QED
      BY <2>1 DEF Stages
  <1>7. ~Unknown /\ ~Load
    <2> SUFFICES ASSUME Unknown \/ Load PROVE FALSE
      OBVIOUS
    <2>1. bios.pc = "execute" /\ CrcOk
      BY DEF Unknown, Fail, Load, Acknowledge
    <2>2. bios.frame[1][1] \in 1..Len(host.program) /\ bios.frame # << >>
      BY <2>1, CrcFrame DEF Going, Streak
    <2>3. 1 \in 1..Len(bios.frame) /\ 1 \in 1..Len(stream) /\ stream[1] = bios.frame[1]
      <3>1. Len(bios.frame) \in Nat \ {0}
        BY <2>2, StreamType, EmptySeq
      <3> QED
        BY <3>1, StreamType
    <2> QED
      BY <1>1, <2>2, <2>3 DEF OnlyChars
  <1>8. CASE UNCHANGED vars
    <2>1. Accepted'
      BY <1>8 DEF vars, Accepted, stream
    <2> QED
      BY <2>1 DEF Stages
  <1>9. ~Start /\ ~Key /\ ~HostAck /\ ~HostSend /\ ~AckChar
    BY <1>1 DEF Start, Key, HostAck, HostSend, AckChar
  <1> QED
    BY <1>3, <1>4, <1>5, <1>6, <1>7, <1>8, <1>9, GoingCases

-------------------------------------------------------------------------------
(* Reading frames that arrive whole.                                       *)

(* A frame that is executed is complete.                                   *)
LEMMA ReadingComplete ==
    ASSUME Going, Reading(host.program, bios), bios.pc = "execute"
    PROVE  LET m == bios.frame[1][1]
           IN  /\ m \in 1..Len(host.program) /\ Len(bios.frame) = FrameSize(host.program, m)
               /\ \A k \in 1..FrameSize(host.program, m) : bios.frame[k] = <<m, k - 1>>
               /\ CrcOk
  <1> USE GoingFacts
  <1> DEFINE m == bios.frame[1][1]
             z == FrameSize(host.program, m)
  <1>1. bios.frame # << >> /\ bios.frame \in Seq(Byte)
    BY StreamType DEF Going, Streak
  <1>2. m \in 1..Len(host.program) /\ \A k \in 1..Len(bios.frame) : bios.frame[k] = <<m, k - 1>>
    BY <1>1 DEF Reading
  <1>3. Len(bios.frame) = z
    BY <1>1 DEF Reading
  <1> HIDE DEF m, z
  <1>4. Bytes(m) \in Seq(Byte) /\ Len(Bytes(m)) = z /\ \A k \in 1..z : Bytes(m)[k] = <<m, k - 1>>
    BY <1>2, BytesAre DEF z
  <1>5. bios.frame = Bytes(m)
    BY <1>1, <1>2, <1>3, <1>4, SeqEqual
  <1>6. m > 0
    BY <1>2
  <1>7. CrcOk
    BY <1>5, <1>6 DEF CrcOk, m
  <1> QED
    BY <1>2, <1>3, <1>7 DEF m, z

(* The loop of the reader ends with the last byte of the frame.            *)
LEMMA LoopEnd ==
    ASSUME NEW i \in Nat, NEW z \in Nat, NEW l \in Nat, z > 4, z = l + 4, i <= z, i # z
    PROVE  i + 1 <= z /\ (i >= 4 /\ i = l + 4 - 1 <=> i + 1 = z)
  OBVIOUS

(* The byte that is read starts the next frame, or is the next one of the  *)
(* frame under way.                                                        *)
LEMMA ReadingStep ==
    ASSUME Going, Reading(host.program, bios), ReadLength \/ ReadByte,
           bios.frame = << >> => stream[1][1] \in 1..Len(host.program) /\ stream[1][2] = 0,
           NEW m, bios.frame # << >> => m = bios.frame[1][1],
           bios.frame # << >> /\ Len(bios.frame) < FrameSize(host.program, m) =>
              stream[Len(bios.frame) + 1] = <<m, Len(bios.frame)>>
    PROVE  Reading(host.program, bios')
  <1> USE GoingFacts
  <1>1. CASE ReadLength
    <2> DEFINE b == Head(line)
    <2>1. line # << >> /\ bios.frame = << >> /\ bios.pc = "frame"
      BY <1>1 DEF ReadLength
    <2>2. PICK len \in LengthOf(b) :
            bios' = [bios EXCEPT !.frame = <<b>>, !.payload_length = len]
      BY <1>1 DEF ReadLength
    <2>3. b = stream[1] /\ b \in Byte
      <3>1. b = stream[Len(bios.frame) + 1] /\ b \in Byte /\ Len(bios.frame) = 0
        BY <2>1, NextByte, EmptySeq
      <3>2. Len(bios.frame) + 1 = 1
        BY <3>1
      <3> QED
        BY <3>1, <3>2
    <2>4. b[1] \in 1..Len(host.program) /\ b[2] = 0 /\ b = <<b[1], 0>>
      BY <2>1, <2>3 DEF Byte
    <2>5. len = host.program[b[1]].payload_length
      BY <2>4 DEF LengthOf
    <2> HIDE DEF b
    <2>6. bios'.frame = <<b>> /\ bios'.pc = "frame" /\ bios'.payload_length = len
      BY <2>1, <2>2 DEF TypeInv
    <2>7. FrameSize(host.program, b[1]) \in Nat /\ FrameSize(host.program, b[1]) > 4
      BY <2>4 DEF Sized
    <2>8. /\ bios'.frame # << >> /\ Len(bios'.frame) = 1 /\ bios'.frame[1] = b
          /\ \A k \in 1..1 : bios'.frame[k] = <<b[1], k - 1>>
      BY <2>4, <2>6
    <2> QED
      BY <2>4, <2>5, <2>6, <2>7, <2>8, SMTT(30) DEF Reading
  <1>2. CASE ReadByte
    <2> DEFINE i == Len(bios.frame)
               z == FrameSize(host.program, m)
               f == bios'.frame
    <2>1. line # << >> /\ i > 0 /\ bios.pc = "frame"
      BY <1>2 DEF ReadByte
    <2>2. bios.frame # << >> /\ i \in Nat /\ bios.frame \in Seq(Byte)
      BY <2>1, StreamType, EmptySeq
    <2>3. /\ m \in 1..Len(host.program) /\ \A k \in 1..i : bios.frame[k] = <<m, k - 1>>
          /\ bios.payload_length = host.program[m].payload_length /\ i <= z /\ i # z
      BY <2>1, <2>2 DEF Reading
    <2>4. z \in Nat /\ z > 4 /\ z = bios.payload_length + 4 /\ bios.payload_length \in Nat
      <3>1. z \in Nat /\ z > 4 /\ z = bios.payload_length + 4
        BY <2>3 DEF Sized, FrameSize
      <3>2. bios.payload_length \in Nat
        BY Fields, SerialBootAssumption
      <3> QED
        BY <3>1, <3>2
    <2>5. Head(line) = <<m, i>> /\ Head(line) \in Byte
      BY <2>1, <2>2, <2>3, <2>4, NextByte, SMTT(30)
    <2>6. /\ f = Append(bios.frame, Head(line)) /\ bios'.payload_length = bios.payload_length
          /\ bios'.pc = IF i >= 4 /\ i = bios.payload_length + 4 - 1 THEN "execute" ELSE "frame"
      BY <1>2, <2>1 DEF ReadByte, TypeInv
    <2>7. /\ f # << >> /\ Len(f) = i + 1 /\ \A k \in 1..i : f[k] = bios.frame[k]
          /\ f[i + 1] = <<m, i>>
      BY <2>2, <2>5, <2>6, AppendProperties, SMTT(30)
    <2> HIDE DEF i, z, f
    <2>8. ASSUME NEW k \in 1..i + 1 PROVE f[k] = <<m, k - 1>>
      <3>1. CASE k = i + 1
        <4>1. k - 1 = i
          BY <2>2, <3>1
        <4> QED
          BY <2>7, <3>1, <4>1
      <3>2. CASE k # i + 1
        <4>1. k \in 1..i
          BY <2>2, <3>2
        <4> QED
          BY <2>3, <2>7, <4>1
      <3> QED
        BY <3>1, <3>2
    <2>9. f[1][1] = m
      BY <2>2, <2>8
    <2>10. i + 1 <= z /\ (i >= 4 /\ i = bios.payload_length + 4 - 1 <=> i + 1 = z)
      <3> HIDE GoingFacts
      <3>1. i \in Nat /\ z \in Nat /\ bios.payload_length \in Nat /\ z > 4
            /\ z = bios.payload_length + 4 /\ i <= z /\ i # z
        BY <2>2, <2>3, <2>4
      <3> QED
        BY <3>1, LoopEnd
    <2>11. bios'.pc = IF i + 1 = z THEN "execute" ELSE "frame"
      BY <2>6, <2>10
    <2>12. bios'.payload_length = host.program[m].payload_length
      BY <2>3, <2>6
    <2>13. /\ f[1][1] \in 1..Len(host.program) /\ \A k \in 1..Len(f) : f[k] = <<f[1][1], k - 1>>
           /\ bios'.payload_length = host.program[f[1][1]].payload_length
           /\ Len(f) <= FrameSize(host.program, f[1][1])
           /\ bios'.pc = IF Len(f) = FrameSize(host.program, f[1][1]) THEN "execute" ELSE "frame"
      <3>1. /\ m \in 1..Len(host.program) /\ \A k \in 1..Len(f) : f[k] = <<m, k - 1>>
            /\ bios'.payload_length = host.program[m].payload_length
            /\ Len(f) <= z /\ bios'.pc = IF Len(f) = z THEN "execute" ELSE "frame"
        BY <2>3, <2>7, <2>8, <2>10, <2>11, <2>12, Zenon
      <3> QED
        BY <2>9, <3>1, Zenon DEF z
    <2> QED
      BY <2>7, <2>13, Zenon DEF Reading, f
  <1> QED
    BY <1>1, <1>2

-------------------------------------------------------------------------------
(* The host ahead of the BIOS.                                             *)

(* Behind the last byte of a frame the others are whole.                   *)
LEMMA WholeBehind ==
    ASSUME NEW prog, NEW s, Len(s) \in Nat, Whole(prog, s, 0), NEW p \in 1..Len(s),
           IsLast(prog, s[p])
    PROVE  Whole(prog, s, p)
  <1>1. \A q \in p + 1..Len(s) : q \in 0 + 1..Len(s)
    OBVIOUS
  <1>2. \A q \in p + 1..Len(s) - 1 : q \in 0 + 1..Len(s) - 1
    OBVIOUS
  <1>3. ASSUME p < Len(s) PROVE s[p + 1][2] = 0 /\ IsLast(prog, s[Len(s)])
    <2>1. p \in 0 + 1..Len(s) - 1 /\ 0 < Len(s)
      BY <1>3
    <2>2. Succeeds(prog, s[p], s[p + 1])
      BY <2>1 DEF Whole
    <2> QED
      BY <2>1, <2>2 DEF Whole, Succeeds
  <1> QED
    BY <1>1, <1>2, <1>3 DEF Whole

(* What is in order stays so when a frame has been executed.               *)
LEMMA InOrderExecuted ==
    ASSUME Going, InOrder, Load \/ Unknown
    PROVE  InOrder'
  <1> USE GoingFacts
  <1> DEFINE m == bios.frame[1][1]
             z == FrameSize(host.program, m)
  <1>1. /\ bios.pc = "execute" /\ bios'.pc = "frame" /\ bios'.frame = << >>
        /\ Drops(stream, Len(bios.frame), stream') /\ UNCHANGED <<host, faults>>
    BY LoadDoes, FailDoes
  <1>2. mem \subseteq mem' /\ (host.program[m].cmd = "LOAD" => m \in mem')
    BY LoadDoes DEF Unknown, Command
  <1>3. /\ m \in 1..Len(host.program) /\ Len(bios.frame) = z
        /\ \A k \in 1..z : bios.frame[k] = <<m, k - 1>>
    BY <1>1, ReadingComplete DEF InOrder
  <1> HIDE DEF m
  <1>4. z \in Nat /\ z > 4 /\ z \in 1..Len(stream) /\ 0 \in 0..Len(stream')
        /\ \A k \in 1..z : stream[k] = <<m, k - 1>>
    <2>1. z \in Nat /\ z > 4
      BY <1>3 DEF Sized
    <2>2. Len(line) \in Nat /\ Len(stream) = z + Len(line) /\ \A k \in 1..z : stream[k] = bios.frame[k]
      BY <1>3, StreamType
    <2>3. z \in 1..Len(stream) /\ 0 \in 0..Len(stream')
      BY <2>1, <2>2
    <2> QED
      BY <1>3, <2>1, <2>2, <2>3
  <1>5. Whole(host.program, stream', 0)
    <2>1. z \in 1..z /\ z - 1 + 1 = z /\ 0 + z = z
      BY <1>4
    <2>2. IsLast(host.program, stream[z])
      BY <1>4, <2>1 DEF IsLast
    <2>3. Whole(host.program, stream, z)
      BY <1>4, <2>2, WholeBehind DEF InOrder
    <2> QED
      BY <1>1, <1>3, <1>4, <2>1, <2>3, DropWhole
  <1> HIDE DEF z
  <1>6. /\ Len(stream') + z = Len(stream)
        /\ \A q \in 1..Len(stream') : stream'[q] = stream[q + z] /\ q + z \in 1..Len(stream)
    <2>1. /\ Len(stream') + z = Len(stream)
          /\ \A q \in 1..Len(stream') : stream'[q] = stream[q + z]
      BY <1>1, <1>3 DEF Drops
    <2>2. \A q \in 1..Len(stream') : q + z \in 1..Len(stream)
      BY <1>4, <2>1
    <2> QED
      BY <2>1, <2>2
  <1>7. Sorted(stream')
    <2> SUFFICES ASSUME NEW q \in 1..Len(stream'), NEW r \in 1..Len(stream'), q <= r
                 PROVE  stream'[q][1] <= stream'[r][1]
      BY DEF Sorted
    <2>1. q + z <= r + z
      BY <1>4
    <2> QED
      BY <1>6, <2>1 DEF InOrder, Sorted
  <1>8. \A q \in 1..Len(stream') : stream'[q][1] <= host.n
    BY <1>6 DEF InOrder
  <1>9. ASSUME NEW k \in 1..host.n, k < host.n \/ host.phase # "send"
        PROVE  Held(host.program, mem', stream', k)
    <2> SUFFICES ASSUME host.program[k].cmd = "LOAD", k \notin mem'
                 PROVE  \E q \in 1..Len(stream') : stream'[q][1] = k
      BY DEF Held
    <2>1. PICK q \in 1..Len(stream) : stream[q][1] = k
      BY <1>2, <1>9 DEF InOrder, Held
    <2>2. q > z
      <3> SUFFICES ASSUME q \in 1..z PROVE FALSE
        BY <1>4
      <3>1. stream[q][1] = m
        BY <1>4
      <3> QED
        BY <1>2, <2>1, <3>1
    <2>3. q - z \in 1..Len(stream') /\ q - z + z = q
      BY <1>4, <1>6, <2>2
    <2>4. stream'[q - z] = stream[q]
      BY <1>6, <2>3
    <2> QED
      BY <2>1, <2>3, <2>4
  <1>10. Reading(host.program, bios')
    BY <1>1 DEF Reading
  <1>11. faults' = 1 /\ host.phase \in {"send", "wait", "done"}
    BY <1>1 DEF InOrder
  <1> QED
    BY <1>1, <1>5, <1>7, <1>8, <1>9, <1>10, <1>11 DEF InOrder

(* The host sends another frame behind what is in order.                   *)
LEMMA InOrderSend ==
    ASSUME Going, InOrder, HostSend
    PROVE  InOrder'
  <1> USE GoingFacts
  <1> DEFINE z == FrameSize(host.program, host.n)
             l == Len(stream)
  <1>1. faults = 1 /\ faults' = faults
    BY Kept DEF Going, InOrder
  <1>2. /\ line' = line \o Bytes(host.n) /\ host.phase = "send" /\ host'.phase = "wait"
        /\ host'.n = host.n /\ UNCHANGED <<bios, mem>>
    BY <1>1, TransmitIntact DEF HostSend, TypeInv
  <1>3. Extends(host.program, stream, host.n, stream')
    BY <1>2, SendIntact
  <1>4. /\ l \in Nat /\ z \in Nat /\ z > 4 /\ Len(stream') = l + z
        /\ \A q \in 1..l : stream'[q] = stream[q]
    BY <1>3 DEF Extends, Sized
  <1>5. \A q \in l + 1..l + z : stream'[q][1] = host.n
    <2> SUFFICES ASSUME NEW q \in l + 1..l + z PROVE stream'[q][1] = host.n
      OBVIOUS
    <2>1. q - l \in 1..z /\ l + (q - l) = q
      BY <1>4
    <2>2. PICK k \in 1..z : l + k = q
      BY <2>1
    <2>3. stream'[q] = <<host.n, k - 1>>
      BY <1>3, <2>2 DEF Extends
    <2> QED
      BY <2>3
  <1>6. Whole(host.program, stream', 0)
    BY <1>3, <1>4, ExtendWhole DEF InOrder
  <1>7. \A q \in 1..l : stream[q][1] <= host.n /\ stream[q][1] \in Nat
    BY StreamByte DEF InOrder, Sized
  <1> HIDE DEF z, l
  <1>8. ASSUME NEW q \in 1..l + z PROVE stream'[q][1] <= host.n
    <2>1. CASE q \in 1..l
      BY <1>4, <1>7, <2>1
    <2>2. CASE q \in l + 1..l + z
      BY <1>5, <2>2
    <2> QED
      BY <1>4, <2>1, <2>2
  <1>9. ASSUME NEW q \in 1..l + z, NEW r \in 1..l + z, q <= r
        PROVE  stream'[q][1] <= stream'[r][1]
    <2>1. CASE r \in 1..l
      <3>1. q \in 1..l
        BY <1>4, <1>9, <2>1
      <3> QED
        BY <1>4, <1>9, <2>1, <3>1 DEF InOrder, Sorted, l
    <2>2. CASE r \in l + 1..l + z
      BY <1>5, <1>8, <2>2
    <2> QED
      BY <1>4, <2>1, <2>2
  <1>10. ASSUME NEW k \in 1..host.n PROVE Held(host.program, mem, stream', k)
    <2>1. CASE k < host.n
      <3>1. Held(host.program, mem, stream, k)
        BY <2>1 DEF InOrder
      <3>2. \A q \in 1..l : q \in 1..l + z /\ stream'[q] = stream[q]
        BY <1>4
      <3> QED
        BY <1>4, <3>1, <3>2 DEF Held, l
    <2>2. CASE k = host.n
      <3>1. l + 1 \in l + 1..l + z /\ l + 1 \in 1..l + z
        BY <1>4
      <3>2. stream'[l + 1][1] = k
        BY <1>5, <2>2, <3>1
      <3> QED
        BY <1>4, <3>1, <3>2 DEF Held
    <2> QED
      BY <2>1, <2>2
  <1>11. Reading(host.program, bios') /\ bios'.pc \in {"frame", "execute"}
    BY <1>2 DEF InOrder
  <1>12. Sorted(stream') /\ \A q \in 1..Len(stream') : stream'[q][1] <= host.n
    BY <1>4, <1>8, <1>9 DEF Sorted
  <1> QED
    BY <1>1, <1>2, <1>6, <1>10, <1>11, <1>12 DEF InOrder

(* The steps while the host is ahead.                                      *)
LEMMA InOrderStep ==
    ASSUME Going, InOrder
    PROVE  Stages'
  <1> USE GoingFacts
  <1>1. faults = 1 /\ bios.pc \in {"frame", "execute"} /\ host.phase \in {"send", "wait", "done"}
        /\ Reading(host.program, bios) /\ Whole(host.program, stream, 0)
    BY DEF InOrder
  <1>2. faults' = faults
    BY <1>1, Kept DEF Going
  <1>3. CASE HostSend
    BY <1>3, InOrderSend DEF Stages
  <1>4. CASE HostReply
    <2>1. /\ host.phase = "wait" /\ UNCHANGED <<bios, mem, line>> /\ stream' = stream
      BY <1>4 DEF HostReply, stream
    <2>2. /\ host'.phase \in {"send", "done"}
          /\ \/ host'.n = host.n
             \/ host'.n = host.n + 1 /\ host'.phase = "send"
      BY <1>4 DEF HostReply, TypeInv
    <2>3. ASSUME NEW k \in 1..host'.n, k < host'.n \/ host'.phase # "send"
          PROVE  Held(host.program, mem, stream, k)
      <3>1. k \in 1..host.n
        BY <2>2, <2>3
      <3> QED
        BY <2>1, <3>1 DEF InOrder
    <2>4. \A q \in 1..Len(stream) : stream[q][1] <= host'.n
      <3> SUFFICES ASSUME NEW q \in 1..Len(stream) PROVE stream[q][1] <= host'.n
        OBVIOUS
      <3>1. stream[q][1] \in Nat /\ stream[q][1] <= host.n
        BY StreamByte DEF InOrder, Sized
      <3> QED
        BY <2>2, <3>1
    <2>5. InOrder'
      BY <1>2, <2>1, <2>2, <2>3, <2>4 DEF InOrder
    <2> QED
      BY <2>5 DEF Stages
  <1>5. CASE ReadLength \/ ReadByte
    <2>1. UNCHANGED <<mem, replies, host>> /\ bios'.pc \in {"frame", "execute"} /\ line # << >>
      BY <1>5 DEF ReadLength, ReadByte, TypeInv
    <2>2. stream' = stream
      BY <1>5, ReadKeepsStream
    <2> DEFINE i == Len(bios.frame)
               m == bios.frame[1][1]
    <2>3. i \in Nat /\ i + 1 \in 1..Len(stream)
      BY <2>1, NextByte, StreamType
    <2>4. stream[1][1] \in 1..Len(host.program) /\ stream[1][2] = 0
      <3>1. 0 < Len(stream) /\ 1 \in 0 + 1..Len(stream) /\ 0 + 1 = 1
        BY <2>3
      <3> QED
        BY <1>1, <3>1 DEF Whole
    <2>5. ASSUME bios.frame # << >>, i < FrameSize(host.program, m)
          PROVE  stream[i + 1] = <<m, i>>
      <3>1. i \in Nat \ {0}
        BY <2>5, StreamType, EmptySeq
      <3>2. bios.frame[i] = <<m, i - 1>> /\ stream[i] = bios.frame[i]
        <4>1. i \in 1..i
          BY <3>1
        <4>2. \A k \in 1..i : bios.frame[k] = <<m, k - 1>>
          BY <1>1, <2>5 DEF Reading
        <4>3. \A k \in 1..i : stream[k] = bios.frame[k]
          BY StreamType
        <4> HIDE DEF i, m
        <4> QED
          BY <4>1, <4>2, <4>3
      <3>3. i \in 0 + 1..Len(stream) - 1 /\ i - 1 + 1 = i
        BY <2>3, <3>1
      <3>4. Succeeds(host.program, stream[i], stream[i + 1])
        BY <1>1, <3>3 DEF Whole
      <3>5. m \in 1..Len(host.program)
        BY <1>1, <2>5 DEF Reading
      <3>6. i # FrameSize(host.program, m)
        BY <2>5, <3>1, <3>5 DEF Sized
      <3>7. ~IsLast(host.program, stream[i])
        BY <3>2, <3>3, <3>6 DEF IsLast
      <3> HIDE DEF i, m
      <3>8. stream[i + 1] = <<stream[i][1], stream[i][2] + 1>>
        BY <3>4, <3>7 DEF Succeeds
      <3>9. stream[i][1] = m /\ stream[i][2] = i - 1
        BY <3>2
      <3> QED
        BY <3>3, <3>8, <3>9, Zenon
    <2>6. Reading(host.program, bios')
      <3> HIDE DEF i
      <3> QED
        BY <1>1, <1>5, <2>4, <2>5, ReadingStep DEF i
    <2>7. InOrder'
      BY <1>2, <2>1, <2>2, <2>6 DEF InOrder
    <2> QED
      BY <2>7 DEF Stages
  <1>6. ~FrameTimeout
    <2> SUFFICES ASSUME FrameTimeout PROVE FALSE
      OBVIOUS
    <2> DEFINE i == Len(bios.frame)
               m == bios.frame[1][1]
    <2>1. bios.pc = "frame" /\ bios.frame # << >> /\ line = << >>
      BY DEF FrameTimeout
    <2>2. i \in Nat \ {0} /\ Len(stream) = i /\ stream[i] = bios.frame[i]
      <3>1. i \in Nat \ {0} /\ Len(line) = 0
        BY <2>1, StreamType, EmptySeq
      <3> QED
        BY <3>1, StreamType
    <2>3. bios.frame[i] = <<m, i - 1>> /\ i # FrameSize(host.program, m)
      BY <1>1, <2>1, <2>2 DEF Reading
    <2>4. i - 1 + 1 = i /\ 0 < i
      BY <2>2
    <2>5. ~IsLast(host.program, stream[i])
      BY <2>2, <2>3, <2>4 DEF IsLast
    <2> QED
      BY <1>1, <2>2, <2>4, <2>5 DEF Whole
  <1>7. ~CrcError
    <2> SUFFICES ASSUME CrcError PROVE FALSE
      OBVIOUS
    <2>1. bios.pc = "execute" /\ ~CrcOk
      BY DEF CrcError, Fail, Acknowledge
    <2> QED
      BY <1>1, <2>1, ReadingComplete
  <1>8. CASE Load \/ Unknown
    BY <1>8, InOrderExecuted DEF Stages
  <1>9. CASE UNCHANGED vars
    <2>1. InOrder'
      BY <1>9 DEF vars, InOrder, stream
    <2> QED
      BY <2>1 DEF Stages
  <1>10. ~Start /\ ~Key /\ ~HostAck /\ ~AckChar
    BY <1>1 DEF Start, Key, HostAck, AckChar
  <1> QED
    BY <1>3, <1>4, <1>5, <1>6, <1>7, <1>8, <1>9, <1>10, GoingCases

-------------------------------------------------------------------------------
(* Host and BIOS in step, and the step that damages a byte.                *)

(* A sequence that loses an element, place by place.                       *)
LEMMA RemoveProperties ==
    ASSUME NEW S, NEW s \in Seq(S), NEW k \in 1..Len(s)
    PROVE  LET r == RemoveAt(s, k)
           IN  /\ Len(r) = Len(s) - 1
               /\ \A i \in 1..Len(r) : i \in 1..Len(s) /\ i + 1 \in 1..Len(s) /\ r[i] \in {s[i], s[i + 1]}
  <1> DEFINE a == SubSeq(s, 1, k - 1)
             b == SubSeq(s, k + 1, Len(s))
  <1>1. Len(s) \in Nat /\ \A i \in 1..Len(s) : s[i] \in S
    BY LenProperties, ElementOfSeq
  <1>2. a \in Seq(S) /\ Len(a) = k - 1 /\ \A i \in 1..k - 1 : a[i] = s[i]
    <2>1. 1 \in Int /\ k - 1 \in Int /\ \A i \in 1..k - 1 : s[i] \in S
      BY <1>1
    <2>2. a \in Seq(S) /\ Len(a) = (IF 1 <= k - 1 THEN k - 1 - 1 + 1 ELSE 0)
          /\ \A i \in 1..k - 1 - 1 + 1 : a[i] = s[1 + i - 1]
      BY <2>1, SubSeqProperties
    <2>3. k - 1 - 1 + 1 = k - 1 /\ \A i \in 1..k - 1 : 1 + i - 1 = i
      BY <1>1
    <2> QED
      BY <1>1, <2>2, <2>3
  <1>3. b \in Seq(S) /\ Len(b) = Len(s) - k /\ \A i \in 1..Len(s) - k : b[i] = s[k + i]
    <2>1. k + 1 \in Int /\ Len(s) \in Int /\ \A i \in k + 1..Len(s) : s[i] \in S
      BY <1>1
    <2>2. b \in Seq(S) /\ Len(b) = (IF k + 1 <= Len(s) THEN Len(s) - (k + 1) + 1 ELSE 0)
          /\ \A i \in 1..Len(s) - (k + 1) + 1 : b[i] = s[(k + 1) + i - 1]
      BY <2>1, SubSeqProperties
    <2>3. Len(s) - (k + 1) + 1 = Len(s) - k /\ \A i \in 1..Len(s) - k : (k + 1) + i - 1 = k + i
      BY <1>1
    <2>4. Len(b) = Len(s) - k
      BY <1>1, <2>2
    <2>5. ASSUME NEW i \in 1..Len(s) - k PROVE b[i] = s[k + i]
      <3>1. b[i] = s[(k + 1) + i - 1]
        BY <2>2, <2>3
      <3> QED
        BY <2>3, <3>1
    <2> QED
      BY <2>2, <2>4, <2>5
  <1> HIDE DEF a, b
  <1>4. /\ Len(a \o b) = Len(a) + Len(b)
        /\ \A i \in 1..Len(a) + Len(b) :
              (a \o b)[i] = IF i <= Len(a) THEN a[i] ELSE b[i - Len(a)]
    BY <1>2, <1>3, ConcatProperties
  <1>5. Len(a) + Len(b) = Len(s) - 1
    BY <1>1, <1>2, <1>3
  <1>6. ASSUME NEW i \in 1..Len(s) - 1
        PROVE  i \in 1..Len(s) /\ i + 1 \in 1..Len(s) /\ (a \o b)[i] \in {s[i], s[i + 1]}
    <2>1. i \in 1..Len(s) /\ i + 1 \in 1..Len(s)
      BY <1>1
    <2>2. CASE i <= k - 1
      <3>1. i \in 1..k - 1
        BY <2>2
      <3>2. (a \o b)[i] = s[i]
        BY <1>2, <1>4, <1>5, <2>2, <3>1
      <3> QED
        BY <2>1, <3>2
    <2>3. CASE ~(i <= k - 1)
      <3>1. i - (k - 1) \in 1..Len(s) - k /\ k + (i - (k - 1)) = i + 1
        BY <1>1, <2>3
      <3>2. (a \o b)[i] = b[i - (k - 1)]
        BY <1>2, <1>4, <1>5, <2>3
      <3>3. (a \o b)[i] = s[i + 1]
        BY <1>3, <3>1, <3>2
      <3> QED
        BY <2>1, <3>3
    <2> QED
      BY <2>2, <2>3
  <1>7. RemoveAt(s, k) = a \o b
    BY DEF RemoveAt, a, b
  <1> QED
    BY <1>4, <1>5, <1>6, <1>7

(* A sequence that gains an element, place by place.                       *)
LEMMA InsertProperties ==
    ASSUME NEW S, NEW s \in Seq(S), NEW p \in 1..Len(s) + 1, NEW e \in S
    PROVE  LET r == InsertAt(s, p, e)
           IN  /\ Len(r) = Len(s) + 1 /\ r[p] = e
               /\ \A i \in 1..p - 1 : r[i] = s[i]
               /\ \A i \in p + 1..Len(s) + 1 : r[i] = s[i - 1]
  <1> DEFINE a == SubSeq(s, 1, p - 1)
             b == SubSeq(s, p, Len(s))
             c == a \o <<e>>
  <1>1. Len(s) \in Nat /\ \A i \in 1..Len(s) : s[i] \in S
    BY LenProperties, ElementOfSeq
  <1>2. a \in Seq(S) /\ Len(a) = p - 1 /\ \A i \in 1..p - 1 : a[i] = s[i]
    <2>1. 1 \in Int /\ p - 1 \in Int /\ \A i \in 1..p - 1 : s[i] \in S
      BY <1>1
    <2>2. a \in Seq(S) /\ Len(a) = (IF 1 <= p - 1 THEN p - 1 - 1 + 1 ELSE 0)
          /\ \A i \in 1..p - 1 - 1 + 1 : a[i] = s[1 + i - 1]
      BY <2>1, SubSeqProperties
    <2>3. p - 1 - 1 + 1 = p - 1 /\ \A i \in 1..p - 1 : 1 + i - 1 = i
      BY <1>1
    <2> QED
      BY <1>1, <2>2, <2>3
  <1>3. b \in Seq(S) /\ Len(b) = Len(s) - p + 1 /\ \A i \in 1..Len(s) - p + 1 : b[i] = s[p + i - 1]
    <2>1. p \in Int /\ Len(s) \in Int /\ \A i \in p..Len(s) : s[i] \in S
      BY <1>1
    <2>2. b \in Seq(S) /\ Len(b) = (IF p <= Len(s) THEN Len(s) - p + 1 ELSE 0)
          /\ \A i \in 1..Len(s) - p + 1 : b[i] = s[p + i - 1]
      BY <2>1, SubSeqProperties
    <2> QED
      BY <1>1, <2>2
  <1>4. <<e>> \in Seq(S) /\ Len(<<e>>) = 1 /\ <<e>>[1] = e
    OBVIOUS
  <1> HIDE DEF a, b
  <1>5. /\ c \in Seq(S) /\ Len(c) = Len(a) + 1
        /\ \A i \in 1..Len(a) + 1 : c[i] = IF i <= Len(a) THEN a[i] ELSE <<e>>[i - Len(a)]
    BY <1>2, <1>4, ConcatProperties
  <1>6. Len(c) = p /\ c[p] = e /\ \A i \in 1..p - 1 : c[i] = s[i]
    <2>1. Len(a) + 1 = p /\ p \in 1..p /\ ~(p <= Len(a)) /\ p - Len(a) = 1
      BY <1>1, <1>2
    <2>2. c[p] = <<e>>[1]
      BY <1>5, <2>1
    <2>3. ASSUME NEW i \in 1..p - 1 PROVE c[i] = s[i]
      <3>1. i \in 1..Len(a) + 1 /\ i <= Len(a)
        BY <1>2, <2>1
      <3> QED
        BY <1>2, <1>5, <3>1
    <2> QED
      BY <1>4, <1>5, <2>1, <2>2, <2>3
  <1> HIDE DEF c
  <1>7. /\ Len(c \o b) = p + Len(b)
        /\ \A i \in 1..p + Len(b) : (c \o b)[i] = IF i <= p THEN c[i] ELSE b[i - p]
    BY <1>3, <1>5, <1>6, ConcatProperties, ZenonT(40)
  <1>8. p + Len(b) = Len(s) + 1
    BY <1>1, <1>3
  <1>9. (c \o b)[p] = e /\ \A i \in 1..p - 1 : (c \o b)[i] = s[i]
    <2>1. \A i \in 1..p : i \in 1..p + Len(b) /\ i <= p
      BY <1>1, <1>8
    <2>2. \A i \in 1..p : (c \o b)[i] = c[i]
      BY <1>7, <2>1
    <2> QED
      BY <1>1, <1>6, <2>2
  <1>10. ASSUME NEW i \in p + 1..Len(s) + 1 PROVE (c \o b)[i] = s[i - 1]
    <2>1. /\ i \in 1..p + Len(b) /\ ~(i <= p) /\ i - p \in 1..Len(s) - p + 1
          /\ p + (i - p) - 1 = i - 1
      BY <1>1, <1>8
    <2>2. (c \o b)[i] = b[i - p]
      BY <1>7, <2>1
    <2>3. PICK j \in 1..Len(s) - p + 1 : j = i - p /\ p + j - 1 = i - 1
      BY <2>1
    <2> QED
      BY <1>3, <2>2, <2>3
  <1>11. InsertAt(s, p, e) = c \o b
    BY DEF InsertAt, a, b, c
  <1> QED
    BY <1>7, <1>8, <1>9, <1>10, <1>11

(* A byte is damaged while no answer is under way.                         *)
LEMMA NowDamaged ==
    ASSUME Going, LoadedBelow(host.program, mem, host.n), replies' = << >>, faults' = 1,
           bios'.pc # "start", host'.n = host.n, host'.phase \in {"answer", "send", "wait"},
           \A q \in 1..Len(stream') : stream'[q][1] \in {0, host.n},
           host'.phase = "answer" => OnlyChars(stream'),
           Resync(host.program, host.n, stream')
    PROVE  Damaged'
  <1>1. LoadedBelow(host'.program, mem', host'.n)
    BY LoadedKept, GoingFacts
  <1>2. NoSuccess(replies')
    BY DEF NoSuccess
  <1>3. host'.program = host.program
    BY GoingFacts
  <1> QED
    BY <1>1, <1>2, <1>3 DEF Damaged

(* Only characters are left of what the damaged byte was part of.          *)
LEMMA CharsDamaged ==
    ASSUME Going, LoadedBelow(host.program, mem, host.n), replies' = << >>, faults' = 1,
           bios'.pc # "start", host'.n = host.n, host'.phase \in {"answer", "send", "wait"},
           OnlyChars(stream')
    PROVE  Damaged'
  <1>1. Resync(host.program, host.n, stream')
    BY GoingFacts, CharsResync
  <1>2. \A q \in 1..Len(stream') : stream'[q][1] \in {0, host.n}
    BY DEF OnlyChars
  <1> QED
    BY <1>1, <1>2, NowDamaged

(* Nothing has been read of a frame: the stream is the line.               *)
LEMMA LineIsStream ==
    ASSUME Going, bios'.frame = << >>
    PROVE  stream' = line' /\ line' \in Seq(Byte) /\ Len(line') \in Nat
  <1>1. line' \in Seq(Byte)
    BY GoingFacts, Kept DEF TypeInv
  <1>2. stream' = line'
    BY <1>1, ConcatEmptySeq DEF stream
  <1> QED
    BY <1>1, <1>2, LenProperties

(* Somebody types a character, at any place of the line.                   *)
LEMMA KeyInserts ==
    ASSUME TypeInv, Key
    PROVE  \E p \in 1..Len(line) + 1 :
              /\ Len(line') = Len(line) + 1 /\ line'[p][1] = 0
              /\ \A i \in 1..p - 1 : line'[i] = line[i]
              /\ \A i \in p + 1..Len(line) + 1 : line'[i] = line[i - 1]
  <1>1. PICK c \in Chars, p \in 1..Len(line) + 1 : line' = InsertAt(line, p, <<0, c>>)
    BY DEF Key
  <1>2. <<0, c>> \in Byte /\ line \in Seq(Byte)
    <2>1. c \in Nat /\ Len(host.program) \in Nat
      BY CharsAreNat, SerialBootAssumption, LenProperties DEF TypeInv
    <2> QED
      BY <2>1, StreamType DEF Byte
  <1>3. /\ Len(line') = Len(line) + 1 /\ line'[p] = <<0, c>>
        /\ \A i \in 1..p - 1 : line'[i] = line[i]
        /\ \A i \in p + 1..Len(line) + 1 : line'[i] = line[i - 1]
    <2>1. ASSUME NEW s \in Seq(Byte), NEW k \in 1..Len(s) + 1, NEW e \in Byte
          PROVE  /\ Len(InsertAt(s, k, e)) = Len(s) + 1 /\ InsertAt(s, k, e)[k] = e
                 /\ \A i \in 1..k - 1 : InsertAt(s, k, e)[i] = s[i]
                 /\ \A i \in k + 1..Len(s) + 1 : InsertAt(s, k, e)[i] = s[i - 1]
      BY InsertProperties
    <2> QED
      BY <1>1, <1>2, <2>1, ZenonT(40)
  <1> QED
    BY <1>3

(* What the host answers, before a loss.                                   *)
MagicBytes == [k \in 1..Len(Magic) |-> <<0, Magic[k]>>]

(* The host listens and answers.                                           *)
LEMMA WaitsStep ==
    ASSUME Going, LoadedBelow(host.program, mem, host.n), Waits
    PROVE  Stages'
  <1> USE GoingFacts
  <1>1. /\ host.n = 1 /\ faults = 0 /\ bios.pc \in {"start", "ack"} /\ bios.frame = << >>
        /\ line = << >> /\ replies = << >>
    BY DEF Waits
  <1>2. LoadedBelow(host'.program, mem', host.n)
    BY LoadedKept
  <1>3. CASE Start
    <2>1. Waits'
      BY <1>1, <1>3 DEF Start, Waits, TypeInv
    <2>2. host'.n = host.n
      BY <1>3 DEF Start, TypeInv
    <2>3. InStep'
      BY <1>2, <2>1, <2>2 DEF InStep
    <2> QED
      BY <2>3 DEF Stages
  <1>4. CASE HostAck
    <2>1. /\ host.phase = "answer" /\ host'.phase = "send" /\ host'.n = host.n
          /\ UNCHANGED <<bios, mem, replies>> /\ Transmit(MagicBytes)
      BY <1>4 DEF HostAck, TypeInv, MagicBytes
    <2>2. bios.pc = "ack" /\ bios.recognized = 0
      BY <1>1, <2>1 DEF Waits
    <2>3. /\ MagicBytes \in Seq(Byte) /\ Len(MagicBytes) = Len(Magic) /\ Len(Magic) \in Nat
          /\ \A k \in 1..Len(Magic) : MagicBytes[k] = <<0, Magic[k]>>
      BY MagicType, SerialBootAssumption DEF MagicBytes
    <2>4. stream' = line' /\ Len(line') \in Nat
      BY <1>1, <2>1, LineIsStream
    <2>5. CASE faults' = faults
      <3>1. line' = MagicBytes
        BY <1>1, <2>1, <2>3, <2>5, TransmitIntact, ConcatEmptySeq
      <3>2. Unheard' = Len(Magic) /\ \A k \in 1..Len(Magic) : bios'.recognized + k = k
        BY <2>1, <2>2, <2>3 DEF Unheard
      <3>3. MagicAhead' /\ Len(line') = Unheard'
        BY <2>3, <3>1, <3>2 DEF MagicAhead
      <3>4. Hears'
        BY <1>1, <2>1, <2>2, <2>5, <3>3 DEF Hears
      <3>5. InStep'
        BY <1>2, <2>1, <3>4 DEF InStep
      <3> QED
        BY <3>5 DEF Stages
    <2>6. CASE faults' # faults
      <3>1. faults' = 1 /\ \E k \in 1..Len(Magic) : line' = line \o RemoveAt(MagicBytes, k)
        BY <1>1, <2>1, <2>3, <2>6 DEF Transmit
      <3>2. PICK k \in 1..Len(MagicBytes) : line' = line \o RemoveAt(MagicBytes, k)
        BY <2>3, <3>1
      <3>3. line' = RemoveAt(MagicBytes, k)
        BY <1>1, <2>3, <3>2, RemoveType, ConcatEmptySeq
      <3>4. \A i \in 1..Len(line') : i \in 1..Len(Magic) /\ i + 1 \in 1..Len(Magic)
              /\ line'[i] \in {MagicBytes[i], MagicBytes[i + 1]}
        BY <2>3, <3>3, RemoveProperties
      <3>5. OnlyChars(stream')
        <4> SUFFICES ASSUME NEW i \in 1..Len(line') PROVE line'[i][1] = 0
          BY <2>4 DEF OnlyChars
        <4>1. PICK j \in 1..Len(Magic) : line'[i] = MagicBytes[j]
          BY <3>4
        <4>2. line'[i] = <<0, Magic[j]>>
          BY <2>3, <4>1
        <4> QED
          BY <4>2
      <3>6. Damaged'
        BY <1>1, <2>1, <2>2, <3>1, <3>5, CharsDamaged
      <3> QED
        BY <3>6 DEF Stages
    <2> QED
      BY <2>5, <2>6
  <1>5. CASE Key
    <2>1. /\ bios.pc = "ack" /\ faults' = 1 /\ UNCHANGED <<bios, mem, replies, host>>
      BY <1>1, <1>5 DEF Key
    <2>2. PICK p \in 1..Len(line) + 1 : Len(line') = Len(line) + 1 /\ line'[p][1] = 0
      BY <1>5, KeyInserts
    <2>3. Len(line) = 0 /\ p = 1
      BY <1>1
    <2>4. Len(line') = 1 /\ line'[1][1] = 0
      BY <2>2, <2>3
    <2>5. stream' = line'
      BY <1>1, <2>1, LineIsStream
    <2>6. OnlyChars(stream')
      <3>1. \A q \in 1..Len(line') : q = 1
        BY <2>4
      <3> QED
        BY <2>4, <2>5, <3>1, Zenon DEF OnlyChars
    <2>7. Damaged'
      BY <1>1, <2>1, <2>6, CharsDamaged DEF Waits
    <2> QED
      BY <2>7 DEF Stages
  <1>6. CASE UNCHANGED vars
    <2>1. Waits' /\ host' = host
      BY <1>6 DEF vars, Waits
    <2>2. InStep'
      BY <1>2, <2>1 DEF InStep
    <2> QED
      BY <2>2 DEF Stages
  <1>7. /\ ~AckChar /\ ~ReadLength /\ ~ReadByte /\ ~FrameTimeout /\ ~CrcError /\ ~Unknown /\ ~Load
        /\ ~HostReply /\ ~HostSend
    BY <1>1 DEF Waits, AckChar, ReadLength, ReadByte, FrameTimeout, CrcError, Unknown, Load,
       HostReply, HostSend, Fail, Acknowledge
  <1> QED
    BY <1>3, <1>4, <1>5, <1>6, <1>7, GoingCases

(* One character less in front of a frame.                                 *)
LEMMA FrameAtDrop ==
    ASSUME NEW prog, NEW n \in 1..Len(prog), Sized(prog), NEW s, NEW t, NEW r \in Nat \ {0},
           NEW e \in Nat, FrameAt(prog, n, s, r, e), Drops(s, 1, t)
    PROVE  FrameAt(prog, n, t, r - 1, e)
  <1> DEFINE z == FrameSize(prog, n)
  <1>1. z \in Nat /\ z > 4 /\ Len(s) = r + z + e /\ Len(t) \in Nat /\ Len(t) + 1 = Len(s)
    BY DEF Sized, FrameAt, Drops
  <1>2. \A q \in 1..Len(t) : t[q] = s[q + 1]
    BY DEF Drops
  <1> HIDE DEF z
  <1>3. ASSUME NEW k \in 1..z PROVE t[(r - 1) + k] = <<n, k - 1>>
    <2>1. (r - 1) + k \in 1..Len(t) /\ (r - 1) + k + 1 = r + k
      BY <1>1
    <2>2. t[(r - 1) + k] = s[r + k]
      BY <1>2, <2>1
    <2> QED
      BY <2>2 DEF FrameAt, z
  <1>4. t[Len(t)] = s[Len(s)] /\ Len(t) = (r - 1) + z + e
    <2>1. Len(t) \in 1..Len(t) /\ Len(t) = (r - 1) + z + e
      BY <1>1
    <2> QED
      BY <1>1, <1>2, <2>1
  <1> QED
    BY <1>3, <1>4 DEF FrameAt, z

(* The frame has lost a byte: there is no whole one.                       *)
LEMMA LossyResync ==
    ASSUME NEW prog, NEW n \in 1..Len(prog), Sized(prog), NEW s, NEW l \in Nat,
           Len(s) = l + FrameSize(prog, n) - 1, \A q \in 1..l : s[q][1] = 0
    PROVE  Resync(prog, n, s)
  <1> SUFFICES ASSUME NEW p \in 1..Len(s), Run(prog, n, s, p)
               PROVE  FALSE
    BY DEF Resync
  <1> DEFINE z == FrameSize(prog, n)
  <1>1. z \in Nat /\ z > 4 /\ p >= z /\ p <= l + z - 1
    BY DEF Run, Sized
  <1>2. p - z + 1 \in 1..l /\ 1 \in 1..z
    BY <1>1
  <1>3. s[p - z + 1] = <<n, 1 - 1>>
    BY <1>2 DEF Run
  <1>4. s[p - z + 1][1] = n /\ n # 0
    BY <1>3 DEF Sized
  <1> QED
    BY <1>2, <1>4

(* A character typed in front of the end of a frame: what could be its end *)
(* is the end of the stream.                                               *)
LEMMA InsertResync ==
    ASSUME NEW prog, NEW n \in 1..Len(prog), Sized(prog), NEW s, NEW t, NEW r \in Nat,
           FrameAt(prog, n, s, r, 0), \A q \in 1..r : s[q][1] = 0,
           NEW p \in 1..Len(s), Len(t) = Len(s) + 1, t[p][1] = 0,
           \A i \in 1..p - 1 : t[i] = s[i], \A i \in p + 1..Len(s) + 1 : t[i] = s[i - 1]
    PROVE  Resync(prog, n, t) /\ \A q \in 1..Len(t) : t[q][1] \in {0, n}
  <1> DEFINE z == FrameSize(prog, n)
  <1>1. z \in Nat /\ z > 4 /\ Len(s) = r + z /\ n # 0
    BY DEF Sized, FrameAt
  <1>2. \A k \in 1..z : s[r + k] = <<n, k - 1>>
    BY DEF FrameAt
  <1> HIDE DEF z
  <1>3. ASSUME NEW i \in 1..r + z PROVE s[i][1] = 0 \/ s[i] = <<n, i - r - 1>>
    <2>1. CASE i <= r
      BY <2>1
    <2>2. CASE i > r
      <3>1. i - r \in 1..z /\ r + (i - r) = i
        BY <1>1, <2>2
      <3> QED
        BY <1>2, <3>1
    <2> QED
      BY <1>1, <2>1, <2>2
  <1>4. ASSUME NEW q \in 1..Len(t)
        PROVE  t[q][1] = 0 \/ \E i \in 1..r + z : t[q] = s[i] /\ (i = r + z => q = Len(t))
    <2>1. CASE q < p
      <3>1. q \in 1..p - 1 /\ q \in 1..r + z /\ q # r + z
        BY <1>1, <2>1
      <3> QED
        BY <3>1
    <2>2. CASE q > p
      <3>1. q \in p + 1..Len(s) + 1 /\ q - 1 \in 1..r + z /\ (q - 1 = r + z => q = Len(t))
        BY <1>1, <2>2
      <3> QED
        BY <3>1
    <2>3. CASE q = p
      BY <2>3
    <2> QED
      BY <1>1, <2>1, <2>2, <2>3
  <1>5. \A q \in 1..Len(t) : t[q][1] \in {0, n}
    <2> SUFFICES ASSUME NEW q \in 1..Len(t), t[q][1] # 0 PROVE t[q][1] = n
      OBVIOUS
    <2>1. PICK i \in 1..r + z : t[q] = s[i]
      BY <1>4
    <2>2. s[i] = <<n, i - r - 1>>
      BY <1>3, <2>1
    <2> QED
      BY <2>1, <2>2
  <1>6. ASSUME NEW q \in 1..Len(t), Run(prog, n, t, q) PROVE q = Len(t)
    <2>1. q - z + z = q /\ z \in 1..z
      BY <1>1
    <2>2. t[q] = <<n, z - 1>>
      BY <1>6, <2>1 DEF Run, z
    <2>3. t[q][1] # 0
      BY <1>1, <2>2
    <2>4. PICK i \in 1..r + z : t[q] = s[i] /\ (i = r + z => q = Len(t))
      BY <1>4, <2>3
    <2>5. s[i] = <<n, i - r - 1>>
      BY <1>3, <2>3, <2>4
    <2>6. i - r - 1 = z - 1
      BY <2>2, <2>4, <2>5
    <2>7. i = r + z
      BY <1>1, <2>6
    <2> QED
      BY <2>4, <2>7
  <1>7. Len(t) \in Nat
    BY <1>1
  <1>8. Whole(prog, t, Len(t))
    BY <1>7 DEF Whole
  <1> QED
    BY <1>5, <1>6, <1>8 DEF Resync

(* A frame is sent and loses a byte.                                       *)
LEMMA SendLossy ==
    ASSUME TypeInv, Upload(host.program), faults = 0, HostSend, faults' # faults
    PROVE  /\ faults' = 1
           /\ Len(line') = Len(line) + FrameSize(host.program, host.n) - 1
           /\ \A q \in 1..Len(line) : line'[q] = line[q]
           /\ \A q \in Len(line) + 1..Len(line') : line'[q][1] = host.n
  <1> DEFINE z == FrameSize(host.program, host.n)
             b == Bytes(host.n)
             l == Len(line)
  <1>1. host.n \in 1..Len(host.program) /\ z \in Nat /\ z > 4
    BY ProgramSized DEF Sized
  <1>2. b \in Seq(Byte) /\ Len(b) = z /\ \A k \in 1..z : b[k] = <<host.n, k - 1>>
    BY <1>1, BytesAre
  <1> HIDE DEF b, z
  <1>3. PICK k \in 1..Len(b) : line' = line \o RemoveAt(b, k) /\ faults' = faults + 1
    BY DEF HostSend, Transmit, b
  <1> DEFINE c == RemoveAt(b, k)
  <1>4. /\ c \in Seq(Byte) /\ Len(c) = z - 1
        /\ \A i \in 1..Len(c) : i \in 1..z /\ i + 1 \in 1..z /\ c[i] \in {b[i], b[i + 1]}
    <2>1. ASSUME NEW s \in Seq(Byte), NEW j \in 1..Len(s)
          PROVE  /\ RemoveAt(s, j) \in Seq(Byte) /\ Len(RemoveAt(s, j)) = Len(s) - 1
                 /\ \A i \in 1..Len(RemoveAt(s, j)) :
                      i \in 1..Len(s) /\ i + 1 \in 1..Len(s) /\ RemoveAt(s, j)[i] \in {s[i], s[i + 1]}
      BY RemoveType, RemoveProperties
    <2> QED
      BY <1>2, <2>1, Zenon
  <1> HIDE DEF c
  <1>5. line \in Seq(Byte) /\ l \in Nat
    BY StreamType
  <1>6. /\ Len(line') = l + (z - 1)
        /\ \A i \in 1..l + (z - 1) : line'[i] = IF i <= l THEN line[i] ELSE c[i - l]
    <2>1. /\ Len(line \o c) = Len(line) + Len(c)
          /\ \A i \in 1..Len(line) + Len(c) :
                (line \o c)[i] = IF i <= Len(line) THEN line[i] ELSE c[i - Len(line)]
      BY <1>4, <1>5, ConcatProperties
    <2> QED
      BY <1>3, <1>4, <2>1 DEF c
  <1> HIDE DEF l
  <1>7. ASSUME NEW q \in 1..l PROVE line'[q] = line[q]
    <2>1. q \in 1..l + (z - 1) /\ q <= l
      BY <1>1, <1>5
    <2> QED
      BY <1>6, <2>1
  <1>8. ASSUME NEW q \in l + 1..l + (z - 1) PROVE line'[q][1] = host.n
    <2>1. q - l \in 1..z - 1 /\ q \in 1..l + (z - 1) /\ ~(q <= l)
      BY <1>1, <1>5
    <2>2. line'[q] = c[q - l]
      BY <1>6, <2>1
    <2>3. PICK j \in 1..z : c[q - l] = b[j]
      BY <1>4, <2>1
    <2>4. line'[q] = <<host.n, j - 1>>
      BY <1>2, <2>2, <2>3
    <2> QED
      BY <2>4
  <1>9. l + (z - 1) = l + z - 1 /\ faults' = 1
    BY <1>1, <1>3, <1>5
  <1> QED
    BY <1>6, <1>7, <1>8, <1>9 DEF l, z

(* check_ack reads the next character of the magic string.                 *)
LEMMA HearsChar ==
    ASSUME Going, LoadedBelow(host.program, mem, host.n), Hears, AckChar
    PROVE  Stages'
  <1> USE GoingFacts
  <1> DEFINE rec == bios.recognized
             L == Len(Magic)
  <1>1. /\ host.n = 1 /\ bios.pc = "ack" /\ bios.frame = << >> /\ replies = << >> /\ MagicAhead
        /\ UNCHANGED <<mem, replies, host, faults>> /\ line # << >> /\ line' = Tail(line)
    BY DEF Hears, AckChar
  <1>2. rec \in 0..L - 1 /\ L \in Nat /\ L > 0 /\ Unheard = L - rec /\ Unheard \in Nat \ {0}
    <2>1. rec \in 0..L - 1 /\ L \in Nat /\ L > 0
      BY Fields, SerialBootAssumption
    <2> QED
      BY <2>1 DEF Unheard
  <1>3. bios'.frame = << >> /\ stream = line /\ stream' = line' /\ Drops(line, 1, line')
    BY <1>1, CharDropped
  <1>4. /\ Len(line) \in Nat /\ Len(line') \in Nat /\ Len(line') + 1 = Len(line)
        /\ \A k \in 1..Len(line') : line'[k] = line[k + 1]
    BY <1>3 DEF Drops
  <1>5. Head(line) = <<0, Magic[rec + 1]>>
    <2>1. 1 \in 1..Unheard
      BY <1>2
    <2>2. line[1] = <<0, Magic[rec + 1]>>
      BY <1>1, <2>1 DEF MagicAhead
    <2> QED
      BY <1>1, <2>2, NextByte
  <1>6. CharOf(Head(line)) = {Magic[rec + 1]}
    BY <1>5 DEF CharOf
  <1>7. Magic[rec + 1] \notin CancelKeys
    <2>1. rec + 1 \in 1..L /\ Magic \in Seq(Nat)
      BY <1>2, SerialBootAssumption, SMTT(30)
    <2>2. DOMAIN Magic = 1..L
      BY <2>1, LenProperties
    <2>3. Magic[rec + 1] \in Range(Magic)
      BY <2>1, <2>2 DEF Range
    <2> QED
      BY <2>3, SerialBootAssumption
  <1>8. Recognize(Magic[rec + 1]) = rec + 1
    BY DEF Recognize
  <1>9. bios' = IF rec + 1 = L THEN [bios EXCEPT !.pc = "frame", !.failures = 0]
                               ELSE [bios EXCEPT !.recognized = rec + 1]
    BY <1>6, <1>7, <1>8 DEF AckChar
  <1>10. LoadedBelow(host'.program, mem', host'.n)
    BY <1>1
  <1>11. faults \in Nat
    BY Kept
  <1>12. CASE rec + 1 = L
    <2>1. bios'.pc = "frame" /\ Unheard = 1
      <3>1. Unheard = 1
        BY <1>2, <1>12
      <3>2. bios' = [bios EXCEPT !.pc = "frame", !.failures = 0]
        BY <1>9, <1>12
      <3> QED
        BY <3>1, <3>2 DEF TypeInv
    <2>2. CASE host.phase = "send" /\ faults = 0 /\ Len(line) = Unheard
      <3>1. Len(line') = 0 /\ line' \in Seq(Byte)
        BY <1>1, <1>4, <2>1, <2>2, NextByte
      <3>2. line' = << >>
        BY <3>1
      <3>3. Sends'
        BY <1>1, <1>3, <2>1, <2>2, <3>2 DEF Sends
      <3>4. InStep'
        BY <1>10, <3>3 DEF InStep
      <3> QED
        BY <3>4 DEF Stages
    <2>3. CASE host.phase = "wait" /\ FrameAt(host.program, 1, line, Unheard, faults)
      <3>1. FrameAt(host.program, 1, line', Unheard - 1, faults)
        BY <1>1, <1>2, <1>3, <1>11, <2>3, FrameAtDrop
      <3>2. FrameAt(host.program, 1, stream', 0, faults)
        BY <1>3, <2>1, <3>1
      <3>3. Reading(host.program, bios')
        BY <1>3, <2>1 DEF Reading
      <3>4. Reads'
        BY <1>1, <2>1, <2>3, <3>2, <3>3 DEF Reads
      <3>5. InStep'
        BY <1>10, <3>4 DEF InStep
      <3> QED
        BY <3>5 DEF Stages
    <2> QED
      BY <2>2, <2>3 DEF Hears
  <1>13. CASE rec + 1 # L
    <2>1. bios'.pc = "ack" /\ bios'.recognized = rec + 1
      BY <1>1, <1>9, <1>13 DEF TypeInv
    <2>2. Unheard' = Unheard - 1
      BY <1>2, <2>1 DEF Unheard
    <2> HIDE DEF rec, L
    <2>3. MagicAhead'
      <3>1. Unheard <= Len(line) /\ \A k \in 1..Unheard : line[k] = <<0, Magic[rec + k]>>
        BY <1>1 DEF MagicAhead, rec
      <3>2. Unheard - 1 <= Len(line')
        BY <1>2, <1>4, <3>1
      <3>3. ASSUME NEW k \in 1..Unheard - 1 PROVE line'[k] = <<0, Magic[(rec + 1) + k]>>
        <4>1. k \in 1..Len(line') /\ k + 1 \in 1..Unheard /\ rec + (k + 1) = (rec + 1) + k
          BY <1>2, <1>4, <3>2
        <4>2. line'[k] = <<0, Magic[rec + (k + 1)]>>
          BY <1>4, <3>1, <4>1
        <4> QED
          BY <4>1, <4>2
      <3> QED
        BY <2>1, <2>2, <3>2, <3>3 DEF MagicAhead
    <2>4. \/ host.phase = "send" /\ faults = 0 /\ Len(line') = Unheard'
          \/ host.phase = "wait" /\ FrameAt(host.program, 1, line', Unheard', faults)
      <3>1. CASE host.phase = "send" /\ faults = 0 /\ Len(line) = Unheard
        BY <1>2, <1>4, <2>2, <3>1
      <3>2. CASE host.phase = "wait" /\ FrameAt(host.program, 1, line, Unheard, faults)
        <4>1. FrameAt(host.program, 1, line', Unheard - 1, faults)
          BY <1>1, <1>2, <1>3, <1>11, <3>2, FrameAtDrop
        <4> QED
          BY <2>2, <3>2, <4>1
      <3> QED
        BY <3>1, <3>2 DEF Hears
    <2>5. Hears'
      BY <1>1, <2>1, <2>3, <2>4 DEF Hears
    <2>6. InStep'
      BY <1>10, <2>5 DEF InStep
    <2> QED
      BY <2>6 DEF Stages
  <1> QED
    BY <1>12, <1>13

(* Somebody types while the answer, and perhaps the first frame, is on the *)
(* line.                                                                   *)
LEMMA HearsKey ==
    ASSUME Going, LoadedBelow(host.program, mem, host.n), Hears, Key
    PROVE  Stages'
  <1> USE GoingFacts
  <1> DEFINE u == Unheard
  <1>1. /\ host.n = 1 /\ bios.pc = "ack" /\ bios.frame = << >> /\ replies = << >> /\ MagicAhead
        /\ UNCHANGED <<bios, mem, replies, host>>
    BY DEF Hears, Key
  <1>2. faults = 0 /\ faults' = 1
    BY Kept DEF Key, Going
  <1>3. u \in Nat /\ Len(line) \in Nat /\ u <= Len(line)
    <2>1. u \in Nat
      BY Fields, SerialBootAssumption DEF Unheard
    <2> QED
      BY <1>1, <2>1, StreamType DEF MagicAhead
  <1>4. \A k \in 1..u : line[k] = <<0, Magic[bios.recognized + k]>>
    BY <1>1 DEF MagicAhead
  <1>5. \A k \in 1..u : line[k][1] = 0
    BY <1>4
  <1>6. PICK p \in 1..Len(line) + 1 :
          /\ Len(line') = Len(line) + 1 /\ line'[p][1] = 0
          /\ \A i \in 1..p - 1 : line'[i] = line[i]
          /\ \A i \in p + 1..Len(line) + 1 : line'[i] = line[i - 1]
    BY KeyInserts
  <1>7. stream' = line'
    BY <1>1, LineIsStream
  <1> HIDE DEF u
  <1>8. CASE host.phase = "send" /\ Len(line) = u
    <2>1. OnlyChars(line')
      <3> SUFFICES ASSUME NEW q \in 1..u + 1 PROVE line'[q][1] = 0
        BY <1>6, <1>8 DEF OnlyChars
      <3>1. CASE q < p
        <4>1. q \in 1..p - 1 /\ q \in 1..u
          BY <1>3, <1>8, <3>1
        <4> QED
          BY <1>5, <1>6, <4>1
      <3>2. CASE q > p
        <4>1. q \in p + 1..Len(line) + 1 /\ q - 1 \in 1..u
          BY <1>3, <1>8, <3>2
        <4> QED
          BY <1>5, <1>6, <4>1
      <3>3. CASE q = p
        BY <1>6, <3>3
      <3> QED
        BY <1>3, <3>1, <3>2, <3>3
    <2>2. Damaged'
      BY <1>1, <1>2, <1>7, <1>8, <2>1, CharsDamaged
    <2> QED
      BY <2>2 DEF Stages
  <1>9. CASE host.phase = "wait" /\ FrameAt(host.program, 1, line, u, 0)
    <2> DEFINE z == FrameSize(host.program, 1)
    <2>1. z \in Nat /\ z > 4 /\ Len(line) = u + z + 0 /\ \A k \in 1..z : line[u + k] = <<1, k - 1>>
      BY <1>1, <1>9 DEF FrameAt, Sized
    <2>2. CASE p = Len(line) + 1
      <3>1. \A i \in 1..Len(line) : line'[i] = line[i]
        <4>1. p - 1 = Len(line)
          BY <1>3, <2>2
        <4> QED
          BY <1>6, <4>1
      <3>2. Len(line') = u + z + 1 /\ line'[Len(line')][1] = 0 /\ u <= Len(line')
        <4>1. Len(line') = u + z + 1 /\ u <= Len(line')
          BY <1>3, <1>6, <2>1
        <4> QED
          BY <1>6, <2>2, <4>1
      <3>3. ASSUME NEW k \in 1..z PROVE line'[u + k] = <<1, k - 1>>
        <4>1. u + k \in 1..Len(line)
          BY <1>3, <2>1
        <4> QED
          BY <2>1, <3>1, <4>1
      <3>4. FrameAt(host.program, 1, line', u, 1)
        BY <3>2, <3>3 DEF FrameAt
      <3>5. ASSUME NEW k \in 1..u PROVE line'[k] = <<0, Magic[bios.recognized + k]>>
        <4>1. k \in 1..Len(line)
          BY <1>3
        <4> QED
          BY <1>4, <3>1, <4>1
      <3>6. Unheard' = u
        BY <1>1 DEF Unheard, u
      <3>7. MagicAhead'
        BY <1>1, <3>2, <3>5, <3>6 DEF MagicAhead
      <3>8. Hears'
        BY <1>1, <1>2, <1>9, <3>4, <3>6, <3>7 DEF Hears
      <3>9. InStep'
        BY <1>1, <3>8 DEF InStep
      <3> QED
        BY <3>9 DEF Stages
    <2>3. CASE p # Len(line) + 1
      <3>1. p \in 1..Len(line)
        BY <1>3, <2>3
      <3>2. Resync(host.program, 1, line') /\ \A q \in 1..Len(line') : line'[q][1] \in {0, 1}
        <4>1. 1 \in 1..Len(host.program) /\ Sized(host.program)
          BY <1>1
        <4> HIDE GoingFacts
        <4> QED
          BY <1>3, <1>5, <1>6, <1>9, <3>1, <4>1, InsertResync
      <3>3. Damaged'
        BY <1>1, <1>2, <1>7, <1>9, <3>2, NowDamaged
      <3> QED
        BY <3>3 DEF Stages
    <2> QED
      BY <2>2, <2>3
  <1> QED
    BY <1>2, <1>8, <1>9 DEF Hears, u

(* The first frame goes out while check_ack still reads.                   *)
LEMMA HearsSend ==
    ASSUME Going, LoadedBelow(host.program, mem, host.n), Hears, HostSend
    PROVE  Stages'
  <1> USE GoingFacts
  <1> DEFINE u == Unheard
             z == FrameSize(host.program, 1)
  <1>1. /\ host.n = 1 /\ bios.pc = "ack" /\ bios.frame = << >> /\ replies = << >> /\ MagicAhead
        /\ UNCHANGED <<bios, mem, replies>> /\ host.phase = "send"
    BY DEF Hears, HostSend
  <1>2. faults = 0 /\ Len(line) = u /\ host'.phase = "wait" /\ host'.n = host.n
    BY <1>1 DEF Hears, HostSend, TypeInv
  <1>3. u \in Nat /\ z \in Nat /\ z > 4
    BY <1>1, <1>2, StreamType DEF Sized
  <1>4. \A k \in 1..u : line[k] = <<0, Magic[bios.recognized + k]>>
    BY <1>1 DEF MagicAhead
  <1>5. stream' = line'
    BY <1>1, LineIsStream
  <1> HIDE DEF z
  <1>6. CASE faults' = faults
    <2>1. line' = line \o Bytes(host.n)
      BY <1>2, <1>6, TransmitIntact DEF HostSend
    <2>2. Extends(host.program, stream, host.n, stream') /\ stream = line
      BY <1>1, <2>1, SendIntact, StreamType, ConcatEmptySeq DEF stream
    <2>3. /\ Len(line') = u + z /\ \A q \in 1..u : line'[q] = line[q]
          /\ \A k \in 1..z : line'[u + k] = <<1, k - 1>>
      BY <1>1, <1>2, <1>5, <2>2 DEF Extends, z
    <2>4. Len(line') = u + z + 0 /\ u <= Len(line')
      BY <1>3, <2>3
    <2>5. FrameAt(host.program, 1, line', u, 0)
      BY <2>3, <2>4 DEF FrameAt, z
    <2>6. Unheard' = u
      BY <1>1 DEF Unheard
    <2>7. MagicAhead'
      BY <1>1, <1>4, <2>3, <2>4, <2>6 DEF MagicAhead
    <2>8. Hears'
      BY <1>1, <1>2, <1>6, <2>5, <2>6, <2>7 DEF Hears
    <2>9. InStep'
      BY <1>1, <1>2, <2>8 DEF InStep
    <2> QED
      BY <2>9 DEF Stages
  <1>7. CASE faults' # faults
    <2>1. /\ faults' = 1 /\ Len(line') = u + z - 1
          /\ \A q \in 1..u : line'[q] = line[q] /\ \A r \in u + 1..Len(line') : line'[r][1] = 1
      BY <1>1, <1>2, <1>7, SendLossy DEF z
    <2>2. \A q \in 1..u : line'[q][1] = 0
      BY <1>4, <2>1
    <2>3. Resync(host.program, 1, line')
      BY <1>1, <1>3, <2>1, <2>2, LossyResync DEF z
    <2>4. \A q \in 1..Len(line') : line'[q][1] \in {0, 1}
      <3> SUFFICES ASSUME NEW q \in 1..u + z - 1 PROVE line'[q][1] \in {0, 1}
        BY <2>1
      <3>1. CASE q <= u
        BY <1>3, <2>2, <3>1
      <3>2. CASE q > u
        <4>1. q \in u + 1..Len(line')
          BY <1>3, <2>1, <3>2
        <4>2. \A r \in u + 1..Len(line') : line'[r][1] = 1
          BY <1>1, <1>2, <1>7, SendLossy
        <4> QED
          BY <4>1, <4>2
      <3> QED
        BY <1>3, <3>1, <3>2
    <2>5. Damaged'
      BY <1>1, <1>2, <1>5, <2>1, <2>3, <2>4, NowDamaged
    <2> QED
      BY <2>5 DEF Stages
  <1> QED
    BY <1>6, <1>7

(* The magic string is on its way, perhaps with the first frame behind it. *)
LEMMA HearsStep ==
    ASSUME Going, LoadedBelow(host.program, mem, host.n), Hears
    PROVE  Stages'
  <1>1. bios.pc = "ack" /\ replies = << >> /\ host.phase \in {"send", "wait"}
    BY DEF Hears
  <1>2. CASE UNCHANGED vars
    <2>1. Hears' /\ LoadedBelow(host'.program, mem', host'.n)
      BY <1>2 DEF vars, Hears, MagicAhead, Unheard
    <2>2. InStep'
      BY <2>1 DEF InStep
    <2> QED
      BY <2>2 DEF Stages
  <1>3. /\ ~Start /\ ~ReadLength /\ ~ReadByte /\ ~FrameTimeout /\ ~CrcError /\ ~Unknown /\ ~Load
        /\ ~HostReply /\ ~HostAck
    BY <1>1 DEF Start, ReadLength, ReadByte, FrameTimeout, CrcError, Unknown, Load,
       HostReply, HostAck, Fail, Acknowledge
  <1> QED
    BY <1>2, <1>3, HearsChar, HearsKey, HearsSend, GoingCases

(* The line is empty and the host sends its next frame.                    *)
LEMMA SendsStep ==
    ASSUME Going, LoadedBelow(host.program, mem, host.n), Sends
    PROVE  Stages'
  <1> USE GoingFacts
  <1>1. /\ bios.pc = "frame" /\ host.phase = "send" /\ faults = 0
        /\ bios.frame = << >> /\ line = << >> /\ replies = << >>
    BY DEF Sends
  <1>2. CASE HostSend
    <2> DEFINE z == FrameSize(host.program, host.n)
    <2>1. /\ host'.phase = "wait" /\ host'.n = host.n /\ UNCHANGED <<bios, mem, replies>>
      BY <1>2 DEF HostSend, TypeInv
    <2>2. stream' = line' /\ Len(line') \in Nat
      BY <1>1, <2>1, LineIsStream
    <2>3. z \in Nat /\ z > 4 /\ Len(line) = 0
      BY <1>1 DEF Sized
    <2> HIDE DEF z
    <2>4. CASE faults' = faults
      <3>1. line' = line \o Bytes(host.n)
        BY <1>1, <1>2, <2>4, TransmitIntact DEF HostSend
      <3>2. Extends(host.program, stream, host.n, stream') /\ stream = line
        BY <1>1, <2>1, <3>1, SendIntact, StreamType, ConcatEmptySeq DEF stream
      <3>3. Len(line') = 0 + z /\ \A k \in 1..z : line'[0 + k] = <<host.n, k - 1>>
        BY <2>2, <2>3, <3>2 DEF Extends, z
      <3>4. Len(line') = 0 + z + 0
        BY <2>3, <3>3
      <3>5. FrameAt(host.program, host.n, stream', 0, 0)
        BY <2>2, <3>3, <3>4 DEF FrameAt, z
      <3>6. Reading(host.program, bios')
        BY <1>1, <2>1 DEF Reading
      <3>7. Reads'
        BY <1>1, <2>1, <2>4, <3>5, <3>6 DEF Reads
      <3>8. InStep'
        BY <2>1, <3>7 DEF InStep
      <3> QED
        BY <3>8 DEF Stages
    <2>5. CASE faults' # faults
      <3>1. /\ faults' = 1 /\ Len(line') = 0 + z - 1
            /\ \A q \in 0 + 1..Len(line') : line'[q][1] = host.n
        BY <1>1, <1>2, <2>3, <2>5, SendLossy DEF z
      <3>2. \A q \in 1..0 : line'[q][1] = 0
        OBVIOUS
      <3>3. Resync(host.program, host.n, line')
        BY <2>3, <3>1, <3>2, LossyResync DEF z
      <3>4. \A q \in 1..Len(line') : line'[q][1] \in {0, host.n}
        BY <3>1
      <3>5. Damaged'
        BY <1>1, <2>1, <2>2, <3>1, <3>3, <3>4, NowDamaged
      <3> QED
        BY <3>5 DEF Stages
    <2> QED
      BY <2>4, <2>5
  <1>3. CASE UNCHANGED vars
    <2>1. Sends' /\ LoadedBelow(host'.program, mem', host'.n)
      BY <1>3 DEF vars, Sends
    <2>2. InStep'
      BY <2>1 DEF InStep
    <2> QED
      BY <2>2 DEF Stages
  <1>4. /\ ~Start /\ ~ReadLength /\ ~ReadByte /\ ~FrameTimeout /\ ~CrcError /\ ~Unknown /\ ~Load
        /\ ~HostReply /\ ~HostAck /\ ~Key /\ ~AckChar
    <2>1. Len(bios.frame) = 0
      BY <1>1
    <2> QED
      BY <1>1, <2>1 DEF Start, ReadLength, ReadByte, FrameTimeout, CrcError, Unknown, Load,
         HostReply, HostAck, Key, AckChar, Fail, Acknowledge
  <1> QED
    BY <1>2, <1>3, <1>4, GoingCases

(* The frame under way is the one the host waits for.                      *)
LEMMA ReadsFrame ==
    ASSUME Going, Reads
    PROVE  LET z == FrameSize(host.program, host.n)
           IN  /\ z \in Nat /\ z > 4 /\ Len(stream) = z + faults /\ faults \in Nat
               /\ \A k \in 1..z : stream[k] = <<host.n, k - 1>>
               /\ faults = 1 => stream[Len(stream)][1] = 0
               /\ bios.frame # << >> => bios.frame[1][1] = host.n
  <1> USE GoingFacts
  <1> DEFINE z == FrameSize(host.program, host.n)
  <1>1. z \in Nat /\ z > 4
    BY DEF Sized
  <1>2. /\ Len(stream) = 0 + z + faults /\ \A k \in 1..z : stream[0 + k] = <<host.n, k - 1>>
        /\ faults = 1 => stream[Len(stream)][1] = 0
    BY DEF Reads, FrameAt
  <1>3. faults \in Nat
    BY Kept
  <1>4. Len(stream) = z + faults /\ \A k \in 1..z : stream[k] = <<host.n, k - 1>>
    <2>1. \A k \in 1..z : 0 + k = k
      BY <1>1
    <2> QED
      BY <1>1, <1>2, <1>3, <2>1
  <1>5. ASSUME bios.frame # << >> PROVE bios.frame[1][1] = host.n
    <2>1. Len(bios.frame) \in Nat \ {0}
      BY <1>5, StreamType, EmptySeq
    <2>2. stream[1] = bios.frame[1]
      BY <2>1, StreamType
    <2>3. stream[1] = <<host.n, 1 - 1>>
      BY <1>1, <1>4
    <2> QED
      BY <2>2, <2>3
  <1> QED
    BY <1>1, <1>2, <1>3, <1>4, <1>5

(* The frame the host waits for has been executed.                         *)
LEMMA ReadsExecuted ==
    ASSUME Going, LoadedBelow(host.program, mem, host.n), Reads, Load \/ Unknown
    PROVE  Stages'
  <1> USE GoingFacts
  <1> DEFINE z == FrameSize(host.program, host.n)
  <1>1. /\ bios.pc = "execute" /\ bios'.pc = "frame" /\ bios'.frame = << >>
        /\ stream' = line /\ Drops(stream, Len(bios.frame), stream')
        /\ UNCHANGED <<line, host, faults>>
    BY LoadDoes, FailDoes
  <1>2. PICK a \in Answers : replies' = Append(replies, a) /\ (a = "SUCCESS" => Load)
    <2>1. CASE Load
      BY <2>1, LoadDoes DEF Answers
    <2>2. CASE Unknown
      BY <2>2, FailDoes
    <2> QED
      BY <2>1, <2>2
  <1>3. replies = << >> /\ host.phase = "wait" /\ Reading(host.program, bios)
    BY DEF Reads
  <1>4. Len(replies') = 1 /\ replies'[1] = a /\ replies' # << >> /\ Tail(replies') = << >>
    BY <1>2, <1>3
  <1>5. /\ z \in Nat /\ z > 4 /\ Len(stream) = z + faults /\ faults \in Nat
        /\ faults = 1 => stream[Len(stream)][1] = 0
    BY ReadsFrame
  <1>6. bios.frame[1][1] = host.n /\ Len(bios.frame) = z
    <2>1. bios.frame # << >>
      BY <1>1 DEF Going, Streak
    <2>2. bios.frame[1][1] = host.n
      BY <2>1, ReadsFrame
    <2>3. Len(bios.frame) = FrameSize(host.program, bios.frame[1][1])
      BY <1>1, <1>3, ReadingComplete
    <2> QED
      BY <2>2, <2>3
  <1> HIDE DEF z
  <1>7. Len(line) = faults /\ (faults = 1 => line[1][1] = 0)
    <2>1. Len(line) \in Nat /\ Len(stream) = z + Len(line)
          /\ \A k \in 1..Len(line) : stream[z + k] = line[k]
      BY <1>6, StreamType
    <2>2. Len(line) = faults
      BY <1>5, <2>1
    <2>3. ASSUME faults = 1 PROVE line[1][1] = 0
      <3>1. 1 \in 1..Len(line) /\ Len(stream) = z + 1
        BY <2>1, <2>2, <2>3
      <3>2. line[1] = stream[Len(stream)]
        BY <2>1, <3>1
      <3> QED
        BY <1>5, <2>3, <3>2
    <2> QED
      BY <2>2, <2>3
  <1>8. LoadedBelow(host'.program, mem', host'.n)
    BY <1>1, LoadedKept
  <1>9. a = "SUCCESS" => LoadedBelow(host'.program, mem', host'.n + 1)
    <2> SUFFICES ASSUME Load, NEW k \in 1..host'.n + 1 - 1, host'.program[k].cmd = "LOAD"
                 PROVE  k \in mem'
      BY <1>2 DEF LoadedBelow
    <2>1. host.n \in mem'
      BY <1>6, LoadDoes
    <2>2. CASE k = host.n
      BY <2>1, <2>2
    <2>3. CASE k # host.n
      <3>1. k \in 1..host'.n - 1
        BY <1>1, <2>3
      <3> QED
        BY <1>8, <3>1 DEF LoadedBelow
    <2> QED
      BY <2>2, <2>3
  <1>10. CASE faults = 0
    <2>1. line' = << >>
      BY <1>1, <1>7, <1>10, StreamType
    <2>2. Answered'
      BY <1>1, <1>3, <1>4, <1>9, <1>10, <2>1 DEF Answered
    <2>3. InStep'
      BY <1>8, <2>2 DEF InStep
    <2> QED
      BY <2>3 DEF Stages
  <1>11. CASE faults = 1
    <2>1. OnlyChars(stream')
      <3>1. \A q \in 1..Len(line) : q = 1
        BY <1>7, <1>11
      <3> QED
        BY <1>1, <1>7, <1>11, <3>1 DEF OnlyChars
    <2>2. CASE a = "SUCCESS"
      <3>1. NoSuccess(Tail(replies'))
        <4>1. NoSuccess(<< >>)
          BY DEF NoSuccess
        <4> QED
          BY <1>4, <4>1, Zenon
      <3>2. Accepted'
        BY <1>1, <1>3, <1>4, <1>9, <1>11, <2>1, <2>2, <3>1 DEF Accepted
      <3> QED
        BY <3>2 DEF Stages
    <2>3. CASE a # "SUCCESS"
      <3>1. NoSuccess(replies')
        BY <1>4, <2>3 DEF NoSuccess
      <3>2. Resync(host.program, host.n, stream')
        BY <2>1, CharsResync
      <3>3. \A q \in 1..Len(stream') : stream'[q][1] \in {0, host.n}
        BY <2>1 DEF OnlyChars
      <3>4. Damaged'
        BY <1>1, <1>3, <1>8, <1>11, <3>1, <3>2, <3>3 DEF Damaged
      <3> QED
        BY <3>4 DEF Stages
    <2> QED
      BY <2>2, <2>3
  <1>12. faults \in {0, 1}
    BY <1>1, <1>5 DEF Going
  <1> QED
    BY <1>10, <1>11, <1>12

(* The BIOS reads the frame the host waits for.                            *)
LEMMA ReadsStep ==
    ASSUME Going, LoadedBelow(host.program, mem, host.n), Reads
    PROVE  Stages'
  <1> USE GoingFacts
  <1> DEFINE z == FrameSize(host.program, host.n)
             i == Len(bios.frame)
  <1>1. /\ bios.pc \in {"frame", "execute"} /\ host.phase = "wait" /\ replies = << >>
        /\ Reading(host.program, bios) /\ FrameAt(host.program, host.n, stream, 0, faults)
    BY DEF Reads
  <1>2. /\ z \in Nat /\ z > 4 /\ Len(stream) = z + faults /\ faults \in Nat
        /\ \A k \in 1..z : stream[k] = <<host.n, k - 1>>
        /\ bios.frame # << >> => bios.frame[1][1] = host.n
    BY ReadsFrame
  <1> HIDE DEF z, i
  <1>3. CASE ReadLength \/ ReadByte
    <2>1. UNCHANGED <<mem, replies, host, faults>> /\ bios'.pc \in {"frame", "execute"}
      BY <1>3 DEF ReadLength, ReadByte, TypeInv
    <2>2. stream' = stream
      BY <1>3, ReadKeepsStream
    <2>3. stream[1][1] \in 1..Len(host.program) /\ stream[1][2] = 0
      <3>1. stream[1] = <<host.n, 1 - 1>>
        BY <1>2
      <3> QED
        BY <3>1
    <2>4. ASSUME bios.frame # << >>, i < z PROVE stream[i + 1] = <<host.n, i>>
      <3>1. i \in Nat
        BY StreamType DEF i
      <3>2. i + 1 \in 1..z /\ i + 1 - 1 = i
        BY <1>2, <2>4, <3>1
      <3>3. PICK k \in 1..z : k = i + 1 /\ k - 1 = i
        BY <3>1, <3>2
      <3> QED
        BY <1>2, <3>3
    <2>5. Reading(host.program, bios')
      BY <1>1, <1>2, <1>3, <2>3, <2>4, ReadingStep DEF i, z
    <2>6. Reads'
      BY <1>1, <2>1, <2>2, <2>5 DEF Reads
    <2>7. InStep'
      BY <2>1, <2>6 DEF InStep
    <2> QED
      BY <2>7 DEF Stages
  <1>4. ~FrameTimeout
    <2> SUFFICES ASSUME FrameTimeout PROVE FALSE
      OBVIOUS
    <2>1. bios.pc = "frame" /\ bios.frame # << >> /\ stream = bios.frame
      BY TimeoutDropped DEF FrameTimeout
    <2>2. i <= z /\ i # z
      BY <1>1, <1>2, <2>1 DEF Reading, i, z
    <2>3. i = z + faults
      BY <1>2, <2>1 DEF i
    <2> QED
      BY <1>2, <2>2, <2>3
  <1>5. ~CrcError
    <2> SUFFICES ASSUME CrcError PROVE FALSE
      OBVIOUS
    <2>1. bios.pc = "execute" /\ ~CrcOk
      BY DEF CrcError, Fail, Acknowledge
    <2> QED
      BY <1>1, <2>1, ReadingComplete
  <1>6. CASE UNCHANGED vars
    <2>1. Reads' /\ LoadedBelow(host'.program, mem', host'.n)
      BY <1>6 DEF vars, Reads, stream
    <2>2. InStep'
      BY <2>1 DEF InStep
    <2> QED
      BY <2>2 DEF Stages
  <1>7. ~Start /\ ~HostReply /\ ~HostAck /\ ~HostSend /\ ~Key /\ ~AckChar
    BY <1>1 DEF Start, HostReply, HostAck, HostSend, Key, AckChar
  <1> QED
    BY <1>3, <1>4, <1>5, <1>6, <1>7, ReadsExecuted, GoingCases

(* The answer is on its way to the host.                                   *)
LEMMA AnsweredStep ==
    ASSUME Going, LoadedBelow(host.program, mem, host.n), Answered
    PROVE  Stages'
  <1> USE GoingFacts
  <1>1. /\ bios.pc = "frame" /\ host.phase = "wait" /\ faults = 0
        /\ bios.frame = << >> /\ line = << >> /\ Len(replies) = 1
        /\ replies[1] = "SUCCESS" => LoadedBelow(host.program, mem, host.n + 1)
    BY DEF Answered
  <1>2. replies \in Seq(Answers) /\ replies # << >>
    <2>1. replies \in Seq(Answers)
      BY DEF TypeInv
    <2>2. ASSUME replies = << >> PROVE FALSE
      <3>1. Len(replies) = 0
        BY <2>2
      <3> QED
        BY <1>1, <3>1
    <2> QED
      BY <2>1, <2>2
  <1>3. CASE HostReply
    <2>1. UNCHANGED <<bios, mem, line, faults>> /\ replies' = Tail(replies) /\ Head(replies) = replies[1]
      BY <1>2, <1>3, TailAnswer DEF HostReply
    <2>2. replies' = << >>
      BY <1>1, <1>2, <2>1
    <2>3. CASE replies[1] # "SUCCESS"
      <3>1. host'.phase = "send" /\ host'.n = host.n
        BY <1>3, <2>1, <2>3 DEF HostReply, TypeInv
      <3>2. Sends'
        BY <1>1, <2>1, <2>2, <3>1 DEF Sends
      <3>3. InStep'
        BY <2>1, <3>1, <3>2 DEF InStep
      <3> QED
        BY <3>3 DEF Stages
    <2>4. CASE replies[1] = "SUCCESS" /\ host.n = Len(host.program)
      <3>1. AllLoaded'
        BY <1>1, <2>1, <2>4 DEF AllLoaded
      <3> QED
        BY <3>1 DEF Stages
    <2>5. CASE replies[1] = "SUCCESS" /\ host.n # Len(host.program)
      <3>1. host'.phase = "send" /\ host'.n = host.n + 1
        BY <1>3, <2>1, <2>5 DEF HostReply, TypeInv
      <3>2. Sends'
        BY <1>1, <2>1, <2>2, <3>1 DEF Sends
      <3>3. InStep'
        BY <1>1, <2>1, <2>5, <3>1, <3>2 DEF InStep
      <3> QED
        BY <3>3 DEF Stages
    <2> QED
      BY <2>3, <2>4, <2>5
  <1>4. CASE UNCHANGED vars
    <2>1. Answered' /\ LoadedBelow(host'.program, mem', host'.n)
      BY <1>4 DEF vars, Answered
    <2>2. InStep'
      BY <2>1 DEF InStep
    <2> QED
      BY <2>2 DEF Stages
  <1>5. /\ ~Start /\ ~ReadLength /\ ~ReadByte /\ ~FrameTimeout /\ ~CrcError /\ ~Unknown /\ ~Load
        /\ ~HostSend /\ ~HostAck /\ ~Key /\ ~AckChar
    <2>1. Len(bios.frame) = 0
      BY <1>1
    <2> QED
      BY <1>1, <2>1 DEF Start, ReadLength, ReadByte, FrameTimeout, CrcError, Unknown, Load,
         HostSend, HostAck, Key, AckChar, Fail, Acknowledge
  <1> QED
    BY <1>3, <1>4, <1>5, GoingCases

-------------------------------------------------------------------------------
(* The jump, and the theorem.                                              *)

(* The frame that makes boot() jump: all the frames before it are loaded.  *)
LEMMA JumpStage ==
    ASSUME TypeInv, Streak, JumpInv, [Next]_vars, Jump, faults <= 1
    PROVE  \A n \in 1..Len(host.program) : host.program[n].cmd = "LOAD" => n \in mem
  <1> DEFINE m == bios.frame[1][1]
  <1>1. bios.pc = "execute" /\ CrcOk /\ host.program[m].cmd = "JUMP"
    BY DEF Jump, Acknowledge, Command
  <1>2. bios.frame # << >> /\ Stages
    BY <1>1 DEF Streak, JumpInv, Stages, Final
  <1>3. Sized(host.program) /\ host.n \in 1..Len(host.program) /\ Upload(host.program)
    BY ProgramSized DEF JumpInv
  <1>4. Len(bios.frame) \in Nat \ {0} /\ stream[1] = bios.frame[1] /\ 1 \in 1..Len(stream)
    <2>1. Len(bios.frame) \in Nat \ {0}
      BY <1>2, StreamType, EmptySeq
    <2> QED
      BY <2>1, StreamType
  <1>5. m \in 1..Len(host.program)
    <2>1. m \in 0..Len(host.program)
      BY <1>3, <1>4, StreamByte, StreamType DEF Sized
    <2>2. m > 0
      BY <1>1 DEF CrcOk
    <2> QED
      BY <1>3, <2>1, <2>2 DEF Sized
  <1> HIDE DEF m
  <1>6. SUFFICES ASSUME NEW n \in 1..Len(host.program), host.program[n].cmd = "LOAD"
                 PROVE  n \in mem
    OBVIOUS
  <1>7. n < m
    <2>1. n # m
      BY <1>1, <1>6
    <2>2. ~(m < n)
      BY <1>1, <1>3, <1>5, <1>6 DEF Upload
    <2> QED
      BY <1>3, <1>5, <2>1, <2>2 DEF Sized
  <1>8. CASE InStep
    <2>1. Reads
      BY <1>1, <1>8 DEF InStep, Waits, Hears, Sends, Answered
    <2>2. stream[0 + 1] = <<host.n, 1 - 1>>
      BY <1>3, <2>1 DEF Reads, FrameAt, Sized
    <2>3. m = host.n
      BY <1>4, <2>2 DEF m
    <2>4. n \in 1..host.n - 1
      BY <1>3, <1>7, <2>3 DEF Sized
    <2> QED
      BY <1>6, <1>8, <2>4 DEF InStep, LoadedBelow
  <1>9. CASE Damaged
    <2>1. m = host.n
      BY <1>3, <1>4, <1>5, <1>9 DEF Damaged, m
    <2>2. n \in 1..host.n - 1
      BY <1>3, <1>7, <2>1 DEF Sized
    <2> QED
      BY <1>6, <1>9, <2>2 DEF Damaged, LoadedBelow
  <1>10. CASE Accepted
    <2>1. m = 0
      BY <1>4, <1>10 DEF Accepted, OnlyChars, m
    <2> QED
      BY <1>5, <2>1
  <1>11. CASE InOrder
    <2>1. m <= host.n
      BY <1>4, <1>11 DEF InOrder, m
    <2>2. n \in 1..host.n /\ n < host.n
      BY <1>3, <1>5, <1>7, <2>1 DEF Sized
    <2>3. Held(host.program, mem, stream, n)
      BY <1>11, <2>2 DEF InOrder
    <2>4. ASSUME NEW q \in 1..Len(stream) PROVE stream[q][1] # n
      <3>1. 1 <= q
        OBVIOUS
      <3>2. m <= stream[q][1]
        BY <1>4, <1>11, <3>1 DEF InOrder, Sorted, m
      <3> QED
        BY <1>5, <1>7, <3>2
    <2> QED
      BY <1>6, <2>3, <2>4 DEF Held
  <1>12. CASE AllLoaded
    <2>1. n \in 1..Len(host.program) + 1 - 1
      BY <1>3 DEF Sized
    <2> QED
      BY <1>6, <1>12, <2>1 DEF AllLoaded, LoadedBelow
  <1> QED
    BY <1>2, <1>8, <1>9, <1>10, <1>11, <1>12 DEF Stages

(* The invariant of an upload is kept by every step.                       *)
LEMMA JumpStep ==
    ASSUME TypeInv, Streak, JumpInv, [Next]_vars
    PROVE  JumpInv'
  <1>1. TypeInv'
    BY TypeStep
  <1>2. host'.program = host.program /\ mem \subseteq mem' /\ faults \in Nat /\ faults' \in {faults, faults + 1}
    BY Kept
  <1>3. Upload(host'.program)
    BY <1>2 DEF JumpInv
  <1>4. bios'.pc \in {"start", "ack"} => bios'.frame = << >>
    <2>1. CASE Start \/ HostStep \/ Key \/ AckTimeout \/ Terminated \/ UNCHANGED vars
      BY <2>1 DEF JumpInv, TypeInv, Start, HostStep, HostAck, HostSend, HostReply, Key, AckTimeout,
         Terminated, vars
    <2>2. CASE AckChar
      BY <2>2 DEF JumpInv, TypeInv, AckChar
    <2>3. CASE ReadLength \/ ReadByte
      BY <2>3 DEF TypeInv, ReadLength, ReadByte
    <2>4. CASE FrameTimeout \/ CrcError \/ Abort \/ Load \/ Jump \/ Unknown
      BY <2>4 DEF TypeInv, FrameTimeout, CrcError, Abort, Load, Jump, Unknown, Fail, Acknowledge
    <2> QED
      BY <2>1, <2>2, <2>3, <2>4 DEF Next, BiosStep
  <1>5. ASSUME bios'.pc \notin Final, faults' <= 1 PROVE Stages'
    <2>1. Going
      BY <1>1, <1>5 DEF Going
    <2>2. bios.pc \notin Final
      <3>1. bios.pc \in Final => bios'.pc = bios.pc
        BY DEF Final, Next, BiosStep, HostStep, Start, HostAck, HostSend, HostReply, Key, Terminated,
           AckChar, AckTimeout, ReadLength, ReadByte, FrameTimeout, CrcError, Abort, Load,
           Jump, Unknown, Fail, Acknowledge, vars
      <3> QED
        BY <1>5, <3>1
    <2>3. Stages
      BY <1>2, <1>5, <2>2 DEF JumpInv, Stages
    <2>4. InStep => Stages'
      BY <2>1, WaitsStep, HearsStep, SendsStep, ReadsStep, AnsweredStep DEF InStep
    <2>5. AllLoaded => Stages'
      BY <2>1, AllLoadedStep DEF Stages
    <2> QED
      BY <2>1, <2>3, <2>4, <2>5, DamagedStep, AcceptedStep, InOrderStep DEF Stages
  <1>6. JumpWholeImage'
    <2> SUFFICES ASSUME bios'.pc = "booted", faults' <= 1,
                        NEW n \in 1..Len(host.program), host.program[n].cmd = "LOAD"
                 PROVE  n \in mem'
      BY <1>2 DEF JumpWholeImage
    <2>1. faults <= 1
      BY <1>2
    <2>2. CASE bios.pc = "booted"
      BY <1>2, <2>1, <2>2 DEF JumpInv, JumpWholeImage
    <2>3. CASE bios.pc # "booted"
      <3>1. Jump
        <4>1. CASE Start \/ HostStep \/ Key \/ AckTimeout \/ Terminated \/ UNCHANGED vars
          BY <2>3, <4>1 DEF TypeInv, Start, HostStep, HostAck, HostSend, HostReply, Key, AckTimeout,
             Terminated, vars
        <4>2. CASE AckChar
          BY <4>2 DEF TypeInv, AckChar
        <4>3. CASE ReadLength \/ ReadByte
          BY <4>3 DEF TypeInv, ReadLength, ReadByte
        <4>4. CASE FrameTimeout \/ CrcError \/ Abort \/ Load \/ Unknown
          BY <4>4 DEF TypeInv, FrameTimeout, CrcError, Abort, Load, Unknown, Fail, Acknowledge
        <4> QED
          BY <4>1, <4>2, <4>3, <4>4 DEF Next, BiosStep
      <3> QED
        BY <1>2, <2>1, <3>1, JumpStage
    <2> QED
      BY <2>2, <2>3
  <1> QED
    BY <1>3, <1>4, <1>5, <1>6 DEF JumpInv, Stages

(* An upload starts in step.                                               *)
LEMMA JumpInit ==
    ASSUME \A p \in Programs : Upload(p), Init
    PROVE  JumpInv
  <1>1. host.program \in Programs /\ host.n = 1 /\ host.phase = "listen"
    BY DEF Init
  <1>2. Waits /\ LoadedBelow(host.program, mem, host.n)
    BY <1>1 DEF Init, Waits, LoadedBelow
  <1> QED
    BY <1>1, <1>2 DEF Init, JumpInv, InStep, JumpWholeImage

(* boot() jumps into the whole image, for every magic string, every        *)
(* MAX_FAILURES, every number of frames of every length, and wherever the  *)
(* line loses a byte or somebody types one.  The programs are those whose  *)
(* frames have a payload and that load nothing after a jump.               *)
THEOREM ImageIsWhole ==
    ASSUME \A p \in Programs : Upload(p)
    PROVE  Spec => []JumpWholeImage
  <1>1. Init => JumpInv
    BY JumpInit
  <1>2. TypeInv /\ Streak /\ JumpInv /\ [Next]_vars => JumpInv'
    BY JumpStep
  <1>3. JumpInv => JumpWholeImage
    BY DEF JumpInv
  <1> QED
    BY <1>1, <1>2, <1>3, SerialInv, PTL DEF Spec
===============================================================================
