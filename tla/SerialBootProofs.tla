--------------------------- MODULE SerialBootProofs ---------------------------
(***************************************************************************)
(* Theorems about SerialBoot, for every magic string whose first character *)
(* does not come back, every program of the host, every number of bytes    *)
(* the line loses or gains and every MAX_FAILURES.                         *)
(***************************************************************************)
EXTENDS SerialBoot, SequenceTheorems, TLAPS

(* What a step needs beside the types: failures counts the bad frames      *)
(* since the last good one, and a frame to be executed has its first byte. *)
Streak ==
    /\ bios.failures <= Len(log)
    /\ \A k \in Len(log) - bios.failures + 1..Len(log) : log[k] # "SUCCESS"
    /\ bios.failures < Len(log) => log[Len(log) - bios.failures] = "SUCCESS"
    /\ bios.failures = MAX_FAILURES <=> bios.pc = "gaveUp"
    /\ bios.pc \in {"start", "ack"} => log = << >>
    /\ bios.pc = "execute" => bios.frame # << >>

(* check_ack remembers no more than it compares, and nothing beforehand.   *)
AckInv ==
    /\ AckExact
    /\ Len(heard) <= Len(Magic)
    /\ bios.pc = "start" => heard = << >>

(* A sequence stays one of the same elements when it loses or gains one.   *)
LEMMA RemoveType ==
    ASSUME NEW S, NEW s \in Seq(S), NEW k \in 1..Len(s)
    PROVE  RemoveAt(s, k) \in Seq(S)
  <1>1. SubSeq(s, 1, k - 1) \in Seq(S) /\ SubSeq(s, k + 1, Len(s)) \in Seq(S)
    BY SubSeqProperties
  <1> QED
    BY <1>1, ConcatProperties DEF RemoveAt

(* The byte the line gains may stand anywhere.                             *)
LEMMA InsertType ==
    ASSUME NEW S, NEW s \in Seq(S), NEW k \in 1..Len(s) + 1, NEW e \in S
    PROVE  InsertAt(s, k, e) \in Seq(S)
  <1>1. SubSeq(s, 1, k - 1) \in Seq(S) /\ SubSeq(s, k, Len(s)) \in Seq(S)
    BY SubSeqProperties
  <1>2. <<e>> \in Seq(S)
    OBVIOUS
  <1>3. SubSeq(s, 1, k - 1) \o <<e>> \in Seq(S)
    BY <1>1, <1>2, ConcatProperties
  <1> QED
    BY <1>1, <1>3, ConcatProperties DEF InsertAt

(* The host's bytes and characters are bytes.                              *)
LEMMA FrameType ==
    ASSUME TypeInv, NEW n \in 1..Len(host.program)
    PROVE  host.program[n] \in [cmd : STRING, payload_length : 0..MaxLength]
  <1> DEFINE Frames == [cmd : STRING, payload_length : 0..MaxLength]
  <1>1. host.program \in Seq(Frames)
    BY SerialBootAssumption DEF TypeInv
  <1> HIDE DEF Frames
  <1>2. host.program[n] \in Frames
    BY <1>1, ElementOfSeq
  <1> QED
    BY <1>2 DEF Frames

(* A frame on the line has four bytes more than its payload.               *)
LEMMA BytesType ==
    ASSUME TypeInv, NEW n \in 1..Len(host.program)
    PROVE  Bytes(n) \in Seq(Byte) /\ Len(Bytes(n)) = host.program[n].payload_length + 4
  <1> DEFINE m == host.program[n].payload_length + 4
  <1>1. m \in Nat
    <2>1. host.program[n].payload_length \in 0..MaxLength
      BY FrameType
    <2> QED
      BY <2>1, SerialBootAssumption
  <1>2. n \in 0..Len(host.program)
    BY SerialBootAssumption DEF TypeInv
  <1>3. Bytes(n) = [k \in 1..m |-> <<n, k - 1>>]
    BY DEF Bytes
  <1> HIDE DEF m
  <1>4. \A k \in 1..m : <<n, k - 1>> \in Byte
    BY <1>1, <1>2 DEF Byte
  <1>5. Bytes(n) \in [1..m -> Byte]
    BY <1>3, <1>4
  <1>6. Bytes(n) \in Seq(Byte) /\ Len(Bytes(n)) = m
    BY <1>1, <1>5
  <1> QED
    BY <1>6 DEF m

(* The magic string on the line is made of bytes.                          *)
LEMMA MagicType ==
    [k \in 1..Len(Magic) |-> <<0, Magic[k]>>] \in Seq(Byte)
  BY SerialBootAssumption DEF Byte

(* What the host sends stays a sequence of bytes, lost and gained ones     *)
(* included.                                                               *)
LEMMA TransmitType ==
    ASSUME TypeInv, NEW s \in Seq(Byte), Transmit(s)
    PROVE  line' \in Seq(Byte) /\ faults' \in 0..MaxFaults
  <1>1. CASE line' = line \o s /\ UNCHANGED faults
    BY <1>1, ConcatProperties DEF TypeInv
  <1>2. CASE /\ faults < MaxFaults
             /\ faults' = faults + 1
             /\ \E k \in 1..Len(s) : line' = line \o RemoveAt(s, k)
    BY <1>2, RemoveType, ConcatProperties, SerialBootAssumption DEF TypeInv
  <1> QED
    BY <1>1, <1>2 DEF Transmit

(* The fields of the locals of serialboot.                                 *)
LEMMA Fields ==
    ASSUME TypeInv
    PROVE  /\ bios.recognized \in 0..Len(Magic) - 1 /\ bios.payload_length \in 0..MaxLength
           /\ bios.failures \in 0..MAX_FAILURES /\ bios.frame \in Seq(Byte)
  BY DEF TypeInv

(* A step of the BIOS leaves the host's program alone, so the bytes of its *)
(* frames keep their meaning.                                              *)
LEMMA ProgramKept ==
    ASSUME TypeInv, [Next]_vars
    PROVE  host'.program = host.program /\ Byte' = Byte
  <1>1. host'.program = host.program
    <2>1. CASE Start \/ HostStep
      BY <2>1 DEF TypeInv, Start, HostStep, HostAck, HostSend, HostReply
    <2>2. CASE BiosStep \/ Key \/ Terminated \/ UNCHANGED vars
      BY <2>2 DEF BiosStep, Key, Terminated, AckChar, AckTimeout, ReadLength, ReadByte,
         FrameTimeout, CrcError, Abort, Load, Jump, Unknown, Fail, Acknowledge, vars
    <2> QED
      BY <2>1, <2>2 DEF Next
  <1> QED
    BY <1>1 DEF Byte

(* The characters the user types are numbers.                              *)
LEMMA CharsAreNat ==
    Chars \subseteq Nat /\ Magic[1] \in Nat
  <1>1. \A k \in 1..Len(Magic) : Magic[k] \in Nat
    BY SerialBootAssumption, ElementOfSeq
  <1>2. Range(Magic) \subseteq Nat
    BY <1>1, SerialBootAssumption DEF Range
  <1>3. CancelKeys \subseteq Nat /\ OtherKeys \subseteq Nat /\ 1 \in 1..Len(Magic)
    BY SerialBootAssumption
  <1> QED
    BY <1>1, <1>2, <1>3 DEF Chars

(* The acknowledgement of a complete frame keeps the types.                *)
LEMMA AcknowledgeType ==
    ASSUME TypeInv, NEW a \in Answers, NEW pc \in {"frame"} \cup Final,
           NEW failures \in 0..MAX_FAILURES, Acknowledge(a, pc, failures),
           mem' \subseteq 1..Len(host.program)
    PROVE  TypeInv'
  <1>1. << >> \in Seq(Byte)
    OBVIOUS
  <1>2. bios' \in [pc : {"start", "ack", "frame", "execute"} \cup Final,
                 recognized : 0..Len(Magic) - 1, frame : Seq(Byte),
                 payload_length : 0..MaxLength, failures : 0..MAX_FAILURES]
    BY <1>1 DEF Acknowledge, TypeInv
  <1>3. replies' \in Seq(Answers) /\ log' \in Seq(Answers)
    BY AppendProperties DEF Acknowledge, TypeInv
  <1>4. Byte' = Byte
    BY DEF Acknowledge, Byte
  <1> QED
    BY <1>2, <1>3, <1>4 DEF Acknowledge, TypeInv

(* A bad frame keeps the types, below the limit of failures.               *)
LEMMA FailType ==
    ASSUME TypeInv, NEW a \in Answers, Fail(a), bios.failures < MAX_FAILURES, UNCHANGED mem
    PROVE  TypeInv'
  <1> DEFINE pc == IF bios.failures + 1 = MAX_FAILURES THEN "gaveUp" ELSE "frame"
  <1>1. pc \in {"frame"} \cup Final
    BY DEF Final
  <1>2. bios.failures + 1 \in 0..MAX_FAILURES
    BY Fields, SerialBootAssumption
  <1>3. Acknowledge(a, pc, bios.failures + 1)
    BY DEF Fail
  <1>4. mem' \subseteq 1..Len(host.program)
    BY DEF TypeInv
  <1> HIDE DEF pc
  <1> QED
    BY <1>1, <1>2, <1>3, <1>4, AcknowledgeType

-------------------------------------------------------------------------------
(* The types: each action in turn.                                         *)

(* The initial state has the types.                                        *)
LEMMA TypeInit ==
    Init => TypeInv
  <1> SUFFICES ASSUME Init PROVE TypeInv
    OBVIOUS
  <1>1. host \in [program : Programs, n : Nat,
                  phase : {"listen", "answer", "send", "wait", "done"}]
    BY DEF Init
  <1>2. Len(host.program) \in Nat \ {0}
    <2>1. host.program \in Seq([cmd : STRING, payload_length : 0..MaxLength])
      BY <1>1, SerialBootAssumption
    <2> QED
      BY <1>1, <2>1, SerialBootAssumption, EmptySeq, LenProperties
  <1>3. host.n = 1
    BY DEF Init
  <1>4. << >> \in Seq(Byte) /\ << >> \in Seq(Answers) /\ << >> \in Seq(Nat)
    OBVIOUS
  <1>5. /\ 0 \in 0..Len(Magic) - 1 /\ 0 \in 0..MaxLength
        /\ 0 \in 0..MAX_FAILURES /\ 0 \in 0..MaxFaults
    BY SerialBootAssumption
  <1> QED
    BY <1>1, <1>2, <1>3, <1>4, <1>5 DEF Init, TypeInv

(* What the host does keeps the types.                                     *)
LEMMA HostType ==
    ASSUME TypeInv, HostStep
    PROVE  TypeInv'
  <1>1. host'.program = host.program /\ Byte' = Byte
    BY ProgramKept DEF Next
  <1>2. CASE HostAck
    <2>1. line' \in Seq(Byte) /\ faults' \in 0..MaxFaults
      BY <1>2, MagicType, TransmitType DEF HostAck
    <2> QED
      BY <1>1, <1>2, <2>1 DEF HostAck, TypeInv
  <1>3. CASE HostSend
    <2>1. Bytes(host.n) \in Seq(Byte)
      BY BytesType DEF TypeInv
    <2>2. line' \in Seq(Byte) /\ faults' \in 0..MaxFaults
      BY <1>3, <2>1, TransmitType DEF HostSend
    <2> QED
      BY <1>1, <1>3, <2>2 DEF HostSend, TypeInv
  <1>4. CASE HostReply
    <2>1. replies' \in Seq(Answers)
      BY <1>4, HeadTailProperties DEF HostReply, TypeInv
    <2>2. host.n \in 1..Len(host.program) /\ Len(host.program) \in Nat
      BY DEF TypeInv
    <2>3. host' \in [program : Programs, n : Nat,
                     phase : {"listen", "answer", "send", "wait", "done"}]
      <3>1. CASE Head(replies) # "SUCCESS"
        BY <1>4, <2>2, <3>1 DEF HostReply, TypeInv
      <3>2. CASE Head(replies) = "SUCCESS" /\ host.n = Len(host.program)
        BY <1>4, <2>2, <3>2 DEF HostReply, TypeInv
      <3>3. CASE Head(replies) = "SUCCESS" /\ host.n # Len(host.program)
        <4>1. host.n + 1 \in Nat
          BY <2>2
        <4> QED
          BY <1>4, <3>3, <4>1 DEF HostReply, TypeInv
      <3> QED
        BY <3>1, <3>2, <3>3
    <2>4. host'.n \in 1..Len(host.program)
      BY <1>4, <2>2 DEF HostReply, TypeInv
    <2> QED
      BY <1>1, <1>4, <2>1, <2>3, <2>4 DEF HostReply, TypeInv
  <1> QED
    BY <1>2, <1>3, <1>4 DEF HostStep

(* A byte is read from the line.                                           *)
LEMMA LineType ==
    ASSUME TypeInv, line # << >>
    PROVE  Head(line) \in Byte /\ Tail(line) \in Seq(Byte)
  BY HeadTailProperties DEF TypeInv

(* A byte is read as a character.                                          *)
LEMMA CharType ==
    ASSUME NEW b \in Byte, NEW c \in CharOf(b)
    PROVE  c \in Nat
  BY CharsAreNat, SerialBootAssumption DEF Byte, CharOf

(* A byte read as a length is within the bound of lengths.                 *)
LEMMA LengthType ==
    ASSUME TypeInv, NEW b \in Byte
    PROVE  LengthOf(b) \subseteq 0..MaxLength
  <1>1. CASE b[1] > 0 /\ b[2] = 0
    <2>1. b[1] \in 1..Len(host.program)
      BY <1>1 DEF Byte
    <2> QED
      BY <1>1, <2>1, FrameType DEF LengthOf
  <1>2. CASE ~(b[1] > 0 /\ b[2] = 0)
    BY <1>2 DEF LengthOf
  <1> QED
    BY <1>1, <1>2

(* An incomplete magic string is recognised up to less than its length.    *)
LEMMA RecognizeType ==
    ASSUME TypeInv, NEW c, Recognize(c) # Len(Magic)
    PROVE  Recognize(c) \in 0..Len(Magic) - 1
  BY Fields, SerialBootAssumption DEF Recognize

(* What has been heard stays a sequence of characters.                     *)
LEMMA RememberType ==
    ASSUME NEW h \in Seq(Nat), NEW c \in Nat
    PROVE  Remember(h, c) \in Seq(Nat)
  <1>1. CASE Len(h) = Len(Magic)
    <2>1. h # << >>
      BY <1>1, SerialBootAssumption
    <2> QED
      BY <1>1, <2>1, HeadTailProperties, AppendProperties DEF Remember
  <1>2. CASE Len(h) # Len(Magic)
    BY <1>2, AppendProperties DEF Remember
  <1> QED
    BY <1>1, <1>2

(* Every step keeps the types.                                             *)
LEMMA TypeStep ==
    ASSUME TypeInv, Streak, [Next]_vars
    PROVE  TypeInv'
  <1>1. host'.program = host.program /\ Byte' = Byte
    BY ProgramKept
  <1>2. CASE Start
    <2>1. 0 \in 0..Len(Magic) - 1
      BY SerialBootAssumption
    <2> QED
      BY <1>1, <1>2, <2>1 DEF Start, TypeInv
  <1>3. CASE HostStep
    BY <1>3, HostType
  <1>4. CASE Key
    <2>1. line' \in Seq(Byte)
      <3>1. PICK c \in Chars, p \in 1..Len(line) + 1 : line' = InsertAt(line, p, <<0, c>>)
        BY <1>4 DEF Key
      <3>2. <<0, c>> \in Byte
        BY CharsAreNat, SMTT(30) DEF Byte, TypeInv
      <3> QED
        BY <3>1, <3>2, InsertType DEF TypeInv
    <2>2. faults' \in 0..MaxFaults
      BY <1>4, SerialBootAssumption, SMTT(30) DEF Key, TypeInv
    <2> QED
      BY <1>1, <1>4, <2>1, <2>2 DEF Key, TypeInv
  <1>5. CASE AckChar
    <2>1. Head(line) \in Byte /\ line' \in Seq(Byte)
      BY <1>5, LineType DEF AckChar
    <2>2. PICK c \in CharOf(Head(line)) :
            /\ heard' = Remember(heard, c)
            /\ bios' = IF c \in CancelKeys THEN [bios EXCEPT !.pc = "cancelled"]
                       ELSE IF Recognize(c) = Len(Magic)
                       THEN [bios EXCEPT !.pc = "frame", !.failures = 0]
                       ELSE [bios EXCEPT !.recognized = Recognize(c)]
      BY <1>5 DEF AckChar
    <2>3. heard' \in Seq(Nat)
      BY <2>1, <2>2, CharType, RememberType DEF TypeInv
    <2>4. bios' \in [pc : {"start", "ack", "frame", "execute"} \cup Final,
                     recognized : 0..Len(Magic) - 1, frame : Seq(Byte),
                     payload_length : 0..MaxLength, failures : 0..MAX_FAILURES]
      <3>1. 0 \in 0..MAX_FAILURES
        BY SerialBootAssumption
      <3>2. CASE c \in CancelKeys
        BY <2>2, <3>2 DEF TypeInv, Final
      <3>3. CASE c \notin CancelKeys /\ Recognize(c) = Len(Magic)
        BY <2>2, <3>1, <3>3 DEF TypeInv
      <3>4. CASE c \notin CancelKeys /\ Recognize(c) # Len(Magic)
        BY <2>2, <3>4, RecognizeType DEF TypeInv
      <3> QED
        BY <3>2, <3>3, <3>4
    <2> QED
      BY <1>1, <1>5, <2>1, <2>3, <2>4 DEF AckChar, TypeInv
  <1>6. CASE AckTimeout
    BY <1>1, <1>6 DEF AckTimeout, TypeInv, Final
  <1>7. CASE ReadLength
    <2>1. Head(line) \in Byte /\ line' \in Seq(Byte)
      BY <1>7, LineType DEF ReadLength
    <2>2. PICK len \in LengthOf(Head(line)) :
            bios' = [bios EXCEPT !.frame = <<Head(line)>>, !.payload_length = len]
      BY <1>7 DEF ReadLength
    <2>3. len \in 0..MaxLength /\ <<Head(line)>> \in Seq(Byte)
      BY <2>1, LengthType
    <2> QED
      BY <1>1, <1>7, <2>1, <2>2, <2>3 DEF ReadLength, TypeInv
  <1>8. CASE ReadByte
    <2>1. Head(line) \in Byte /\ line' \in Seq(Byte)
      BY <1>8, LineType DEF ReadByte
    <2>2. Append(bios.frame, Head(line)) \in Seq(Byte)
      BY <2>1, Fields, AppendProperties
    <2> QED
      BY <1>1, <1>8, <2>1, <2>2 DEF ReadByte, TypeInv
  <1>9. CASE FrameTimeout
    <2>1. << >> \in Seq(Byte)
      OBVIOUS
    <2>2. replies' \in Seq(Answers)
      BY <1>9, AppendProperties DEF FrameTimeout, TypeInv, Answers
    <2> QED
      BY <1>1, <1>9, <2>1, <2>2 DEF FrameTimeout, TypeInv
  <1>10. CASE CrcError \/ Unknown
    <2>1. PICK a \in {"CRCERROR", "UNKNOWN"} : Fail(a) /\ UNCHANGED mem
      BY <1>10 DEF CrcError, Unknown
    <2>2. bios.failures < MAX_FAILURES
      BY <2>1, Fields, SerialBootAssumption DEF Streak, Fail, Acknowledge
    <2> QED
      BY <2>1, <2>2, FailType DEF Answers
  <1>11. CASE Abort \/ Load \/ Jump
    <2>1. PICK pc \in {"aborted", "frame", "booted"} : Acknowledge("SUCCESS", pc, 0)
      BY <1>11 DEF Abort, Load, Jump
    <2>2. mem' \subseteq 1..Len(host.program)
      <3>1. bios.frame # << >>
        BY <2>1 DEF Acknowledge, Streak
      <3>2. bios.frame[1] \in Byte
        BY <3>1, Fields, ElementOfSeq, EmptySeq, LenProperties
      <3>3. CrcOk => bios.frame[1][1] \in 1..Len(host.program)
        BY <3>2 DEF CrcOk, Byte
      <3> QED
        BY <1>11, <3>3 DEF Abort, Load, Jump, TypeInv
    <2>3. 0 \in 0..MAX_FAILURES /\ "SUCCESS" \in Answers /\ pc \in {"frame"} \cup Final
      BY SerialBootAssumption DEF Answers, Final
    <2> QED
      BY <2>1, <2>2, <2>3, AcknowledgeType
  <1>12. CASE Terminated \/ UNCHANGED vars
    BY <1>1, <1>12 DEF Terminated, vars, TypeInv
  <1> QED
    BY <1>2, <1>3, <1>4, <1>5, <1>6, <1>7, <1>8, <1>9, <1>10, <1>11, <1>12
       DEF Next, BiosStep

-------------------------------------------------------------------------------
(* The count of failures.                                                  *)

(* An answer is logged behind the earlier ones.                            *)
LEMMA LogType ==
    ASSUME TypeInv, NEW a \in Answers
    PROVE  /\ Len(log) \in Nat /\ Len(Append(log, a)) = Len(log) + 1
           /\ \A k \in 1..Len(log) : Append(log, a)[k] = log[k]
           /\ Append(log, a)[Len(log) + 1] = a
  BY AppendProperties, LenProperties DEF TypeInv

(* Every step keeps failures the length of the last run of bad frames.     *)
LEMMA StreakStep ==
    ASSUME TypeInv, Streak, [Next]_vars
    PROVE  Streak'
  <1>1. CASE Start \/ HostStep \/ Key \/ AckTimeout \/ Terminated \/ UNCHANGED vars
    BY <1>1 DEF TypeInv, Streak, Start, HostStep, HostAck, HostSend, HostReply, Key,
       AckTimeout, Terminated, vars
  <1>2. CASE AckChar
    <2>1. bios.pc = "ack" /\ log = << >> /\ log' = << >> /\ Len(log) = 0
      BY <1>2 DEF AckChar, Streak
    <2>2. bios.failures = 0 /\ MAX_FAILURES # 0
      BY <2>1, Fields, SerialBootAssumption DEF Streak
    <2>3. bios'.failures = 0 /\ bios'.pc \in {"ack", "cancelled", "frame"}
      BY <1>2, <2>1, <2>2 DEF AckChar, TypeInv
    <2> QED
      BY <2>1, <2>2, <2>3 DEF Streak
  <1>3. CASE ReadLength \/ FrameTimeout
    BY <1>3 DEF TypeInv, Streak, ReadLength, FrameTimeout
  <1>4. CASE ReadByte
    <2>1. bios'.frame # << >>
      <3>1. bios'.frame = Append(bios.frame, Head(line)) /\ bios.frame \in Seq(Byte)
        BY <1>4 DEF ReadByte, TypeInv
      <3>2. Head(line) \in Byte
        BY <1>4, LineType DEF ReadByte
      <3>3. Append(bios.frame, Head(line)) # << >>
        BY <3>1, <3>2, AppendProperties
      <3> QED
        BY <3>1, <3>3
    <2>2. UNCHANGED log /\ bios'.failures = bios.failures
          /\ bios.pc = "frame" /\ bios'.pc \in {"frame", "execute"}
      BY <1>4 DEF ReadByte, TypeInv
    <2> QED
      BY <2>1, <2>2 DEF Streak
  <1>5. CASE CrcError \/ Unknown
    <2>1. PICK a \in {"CRCERROR", "UNKNOWN"} : Fail(a)
      BY <1>5 DEF CrcError, Unknown
    <2> DEFINE l == Len(log)
    <2>2. /\ bios.failures \in Nat /\ bios'.failures = bios.failures + 1
          /\ bios'.pc = IF bios.failures + 1 = MAX_FAILURES THEN "gaveUp" ELSE "frame"
          /\ log' = Append(log, a)
      BY <2>1, Fields DEF Fail, Acknowledge, TypeInv
    <2>3. /\ l \in Nat /\ Len(log') = l + 1 /\ log'[l + 1] = a
          /\ \A k \in 1..l : log'[k] = log[k]
      BY <2>2, LogType DEF Answers
    <2>4. bios.failures <= l
      BY DEF Streak
    <2>5. \A k \in l + 1 - (bios.failures + 1) + 1..l + 1 : log'[k] # "SUCCESS"
      <3>0. l + 1 - (bios.failures + 1) + 1 = l - bios.failures + 1
        BY <2>2, <2>3
      <3>1. SUFFICES ASSUME NEW k \in l - bios.failures + 1..l + 1 PROVE log'[k] # "SUCCESS"
        BY <3>0
      <3>2. CASE k = l + 1
        BY <2>3, <3>2
      <3>3. CASE k # l + 1
        <4>1. k \in l - bios.failures + 1..l /\ k \in 1..l
          BY <2>2, <2>3, <2>4, <3>3
        <4> QED
          BY <2>3, <4>1 DEF Streak
      <3> QED
        BY <3>2, <3>3
    <2>6. bios.failures + 1 < l + 1 => log'[l + 1 - (bios.failures + 1)] = "SUCCESS"
      <3>1. SUFFICES ASSUME bios.failures < l PROVE log'[l - bios.failures] = "SUCCESS"
        BY <2>2, <2>3
      <3>2. l - bios.failures \in 1..l
        BY <2>2, <2>3, <3>1
      <3> QED
        BY <2>3, <3>1, <3>2 DEF Streak
    <2>7. bios.failures + 1 <= l + 1
      BY <2>2, <2>3, <2>4
    <2> HIDE DEF l
    <2> QED
      BY <2>2, <2>3, <2>5, <2>6, <2>7, SMTT(30) DEF Streak
  <1>6. CASE Abort \/ Load \/ Jump
    <2>1. PICK pc \in {"aborted", "frame", "booted"} : Acknowledge("SUCCESS", pc, 0)
      BY <1>6 DEF Abort, Load, Jump
    <2>2. bios'.failures = 0 /\ bios'.pc = pc /\ log' = Append(log, "SUCCESS")
      BY <2>1 DEF Acknowledge, TypeInv
    <2>3. /\ Len(log) \in Nat /\ Len(log') = Len(log) + 1
          /\ log'[Len(log) + 1] = "SUCCESS"
      BY <2>2, LogType DEF Answers
    <2>4. MAX_FAILURES # 0
      BY SerialBootAssumption
    <2> QED
      BY <2>2, <2>3, <2>4 DEF Streak
  <1> QED
    BY <1>1, <1>2, <1>3, <1>4, <1>5, <1>6 DEF Next, BiosStep

(* The count of failures is the length of the run of bad frames.           *)
LEMMA StreakIsExact ==
    ASSUME TypeInv, Streak
    PROVE  GivesUpOnStreak
  <1>1. Len(log) \in Nat /\ bios.failures \in 0..MAX_FAILURES /\ MAX_FAILURES \in Nat \ {0}
    BY Fields, LenProperties, SerialBootAssumption DEF TypeInv
  <1>2. CASE bios.pc = "gaveUp"
    BY <1>1, <1>2 DEF Streak, GivesUpOnStreak
  <1>3. CASE bios.pc # "gaveUp"
    <2>1. bios.failures < MAX_FAILURES
      BY <1>1, <1>3 DEF Streak
    <2>2. SUFFICES ASSUME Len(log) >= MAX_FAILURES
                   PROVE  \E k \in Len(log) - MAX_FAILURES + 1..Len(log) : log[k] = "SUCCESS"
      BY <1>3 DEF GivesUpOnStreak
    <2>3. Len(log) - bios.failures \in Len(log) - MAX_FAILURES + 1..Len(log)
      BY <1>1, <2>1, <2>2
    <2>4. log[Len(log) - bios.failures] = "SUCCESS"
      BY <1>1, <2>1, <2>2 DEF Streak
    <2> QED
      BY <2>3, <2>4
  <1> QED
    BY <1>2, <1>3

-------------------------------------------------------------------------------
(* check_ack.                                                              *)

(* What is remembered of the characters: the new one comes last, and the   *)
(* last ones of before stay in front of it.                                *)
LEMMA RememberProperties ==
    ASSUME NEW h \in Seq(Nat), NEW c \in Nat, Len(h) <= Len(Magic)
    PROVE  LET r == Remember(h, c)
           IN  /\ Len(r) \in Nat \ {0} /\ Len(r) <= Len(Magic)
               /\ Len(r) = Len(h) + 1 \/ (Len(r) = Len(h) /\ Len(h) = Len(Magic))
               /\ r[Len(r)] = c
               /\ \A j \in 1..Len(r) - 1 : r[Len(r) - j] = h[Len(h) + 1 - j]
  <1>1. Len(h) \in Nat /\ Len(Magic) \in Nat \ {0}
    BY SerialBootAssumption, LenProperties
  <1>2. CASE Len(h) = Len(Magic)
    <2>1. h # << >> /\ Tail(h) \in Seq(Nat) /\ Len(Tail(h)) = Len(h) - 1
          /\ \A j \in 1..Len(h) - 1 : Tail(h)[j] = h[j + 1]
      BY <1>1, <1>2, HeadTailProperties
    <2>2. Remember(h, c) = Append(Tail(h), c)
      BY <1>2 DEF Remember
    <2>3. /\ Len(Append(Tail(h), c)) = Len(h)
          /\ Append(Tail(h), c)[Len(h)] = c
          /\ \A j \in 1..Len(h) - 1 : Append(Tail(h), c)[j] = h[j + 1]
      BY <1>1, <2>1, AppendProperties
    <2>4. \A j \in 1..Len(h) - 1 : Append(Tail(h), c)[Len(h) - j] = h[Len(h) + 1 - j]
      <3> SUFFICES ASSUME NEW j \in 1..Len(h) - 1
                   PROVE  Append(Tail(h), c)[Len(h) - j] = h[Len(h) + 1 - j]
        OBVIOUS
      <3>1. Len(h) - j \in 1..Len(h) - 1 /\ Len(h) - j + 1 = Len(h) + 1 - j
        BY <1>1
      <3> QED
        BY <2>3, <3>1
    <2> QED
      BY <1>1, <1>2, <2>2, <2>3, <2>4
  <1>3. CASE Len(h) # Len(Magic)
    <2>1. Remember(h, c) = Append(h, c)
      BY <1>3 DEF Remember
    <2>2. /\ Len(Append(h, c)) = Len(h) + 1
          /\ Append(h, c)[Len(h) + 1] = c
          /\ \A j \in 1..Len(h) : Append(h, c)[j] = h[j]
      BY <1>1, AppendProperties
    <2>3. \A j \in 1..Len(h) : Len(h) + 1 - j \in 1..Len(h)
      BY <1>1
    <2> QED
      BY <1>1, <1>3, <2>1, <2>2, <2>3
  <1> QED
    BY <1>2, <1>3

(* The input ends with the first k characters of the magic string exactly  *)
(* when it ended with the first k - 1 and the k-th has come.               *)
LEMMA EndsWithStep ==
    ASSUME NEW h \in Seq(Nat), NEW c \in Nat, Len(h) <= Len(Magic), NEW k \in 1..Len(Magic)
    PROVE  EndsWith(Remember(h, c), k) <=> c = Magic[k] /\ EndsWith(h, k - 1)
  <1> DEFINE r == Remember(h, c)
             L == Len(r)
  <1>1. Len(h) \in Nat /\ Len(Magic) \in Nat \ {0}
    BY SerialBootAssumption, LenProperties
  <1>2. /\ L \in Nat \ {0} /\ L <= Len(Magic)
        /\ L = Len(h) + 1 \/ (L = Len(h) /\ Len(h) = Len(Magic))
        /\ r[L] = c
        /\ \A j \in 1..L - 1 : r[L - j] = h[Len(h) + 1 - j]
    BY RememberProperties
  <1> HIDE DEF r, L
  <1>3. k <= L <=> k - 1 <= Len(h)
    BY <1>1, <1>2
  <1>4. ASSUME k <= L
        PROVE  (\A j \in 1..k : r[L - k + j] = Magic[j])
                 <=> c = Magic[k] /\ \A j \in 1..k - 1 : h[Len(h) - (k - 1) + j] = Magic[j]
    <2>1. ASSUME NEW j \in 1..k - 1
          PROVE  r[L - k + j] = h[Len(h) - (k - 1) + j]
      <3>1. k - j \in 1..L - 1 /\ L - (k - j) = L - k + j
            /\ Len(h) + 1 - (k - j) = Len(h) - (k - 1) + j
        BY <1>1, <1>2, <1>4
      <3> QED
        BY <1>2, <3>1
    <2>2. L - k + k = L
      BY <1>2
    <2>3. 1..k = (1..k - 1) \cup {k}
      OBVIOUS
    <2> QED
      BY <1>2, <2>1, <2>2, <2>3
  <1>5. EndsWith(r, k) <=> k <= L /\ \A j \in 1..k : r[L - k + j] = Magic[j]
    BY DEF EndsWith, L
  <1>6. EndsWith(h, k - 1)
          <=> k - 1 <= Len(h) /\ \A j \in 1..k - 1 : h[Len(h) - (k - 1) + j] = Magic[j]
    BY DEF EndsWith
  <1>7. EndsWith(r, k) <=> c = Magic[k] /\ EndsWith(h, k - 1)
    BY <1>3, <1>4, <1>5, <1>6
  <1> QED
    BY <1>7 DEF r

(* The first character does not come back: an input that ends with the     *)
(* first m characters ends with no shorter beginning but the empty one.    *)
LEMMA NoBorder ==
    ASSUME NEW h \in Seq(Nat), NEW m \in 1..Len(Magic), EndsWith(h, m),
           NEW k \in 1..m - 1
    PROVE  ~EndsWith(h, k)
  <1> SUFFICES ASSUME EndsWith(h, k) PROVE FALSE
    OBVIOUS
  <1>1. Len(h) \in Nat /\ Len(Magic) \in Nat
    BY SerialBootAssumption, LenProperties
  <1>2. h[Len(h) - k + 1] = Magic[1]
    BY DEF EndsWith
  <1>3. m - k + 1 \in 1..m /\ Len(h) - m + (m - k + 1) = Len(h) - k + 1
    BY <1>1
  <1>4. h[Len(h) - k + 1] = Magic[m - k + 1]
    BY <1>3 DEF EndsWith
  <1>5. m - k + 1 \in 2..Len(Magic)
    BY <1>1
  <1> QED
    BY <1>2, <1>4, <1>5, SerialBootAssumption

(* Every step keeps the count of recognised characters the longest         *)
(* possible.                                                               *)
LEMMA AckStep ==
    ASSUME TypeInv, AckInv, [Next]_vars
    PROVE  AckInv'
  <1>1. CASE Start
    <2>1. heard = << >> /\ heard' = << >> /\ Len(heard') = 0
      BY <1>1 DEF Start, AckInv
    <2>2. bios'.pc = "ack" /\ bios'.recognized = 0
      BY <1>1 DEF Start, TypeInv
    <2>3. EndsWith(heard', 0) /\ \A k \in 1..Len(Magic) : ~EndsWith(heard', k)
      BY <2>1, SerialBootAssumption DEF EndsWith
    <2>4. /\ EndsWith(heard', bios'.recognized)
          /\ \A k \in bios'.recognized + 1..Len(Magic) : ~EndsWith(heard', k)
      BY <2>2, <2>3
    <2>5. Len(heard') <= Len(Magic)
      BY <2>1, SerialBootAssumption
    <2> QED
      BY <2>2, <2>4, <2>5 DEF AckInv, AckExact, EndsWith
  <1>2. CASE HostStep \/ Key \/ AckTimeout \/ Terminated \/ UNCHANGED vars
    <2>1. UNCHANGED heard /\ (bios' = bios \/ bios'.pc = "ackTimeout")
      BY <1>2 DEF TypeInv, HostStep, HostAck, HostSend, HostReply, Key, AckTimeout,
         Terminated, vars
    <2> QED
      BY <2>1 DEF AckInv, AckExact, EndsWith
  <1>3. CASE ReadLength \/ ReadByte \/ FrameTimeout
    BY <1>3 DEF TypeInv, AckInv, AckExact, EndsWith, ReadLength, ReadByte, FrameTimeout
  <1>4. CASE CrcError \/ Abort \/ Load \/ Jump \/ Unknown
    <2>1. PICK a, pc, failures : Acknowledge(a, pc, failures) /\ pc \notin {"start", "ack"}
      BY <1>4 DEF CrcError, Abort, Load, Jump, Unknown, Fail
    <2>2. bios.pc = "execute" /\ bios'.pc = pc /\ UNCHANGED heard
      BY <2>1 DEF Acknowledge, TypeInv
    <2> QED
      BY <2>1, <2>2 DEF AckInv, AckExact, EndsWith
  <1>5. CASE AckChar
    <2>1. bios.pc = "ack" /\ line # << >>
      BY <1>5 DEF AckChar
    <2>2. PICK c \in CharOf(Head(line)) :
            /\ heard' = Remember(heard, c)
            /\ bios' = IF c \in CancelKeys THEN [bios EXCEPT !.pc = "cancelled"]
                       ELSE IF Recognize(c) = Len(Magic)
                       THEN [bios EXCEPT !.pc = "frame", !.failures = 0]
                       ELSE [bios EXCEPT !.recognized = Recognize(c)]
      BY <1>5 DEF AckChar
    <2>3. c \in Nat /\ heard \in Seq(Nat) /\ Len(heard) <= Len(Magic)
      BY <2>1, LineType, CharType DEF TypeInv, AckInv
    <2> DEFINE rec == bios.recognized
               next == Recognize(c)
    <2>4. rec \in 0..Len(Magic) - 1 /\ Len(Magic) \in Nat \ {0}
      BY Fields, SerialBootAssumption
    <2>5. EndsWith(heard, rec) /\ \A k \in rec + 1..Len(Magic) : ~EndsWith(heard, k)
      BY <2>1 DEF AckInv, AckExact
    <2>6. \A k \in 1..Len(Magic) :
            EndsWith(heard', k) <=> c = Magic[k] /\ EndsWith(heard, k - 1)
      BY <2>2, <2>3, EndsWithStep
    <2>7. EndsWith(heard', 0) /\ EndsWith(heard, 0) /\ Len(heard') <= Len(Magic)
      BY <2>2, <2>3, RememberProperties, LenProperties DEF EndsWith
    <2>8. next \in 0..Len(Magic) /\ EndsWith(heard', next)
      <3>1. CASE c = Magic[rec + 1]
        <4>1. next = rec + 1 /\ rec + 1 \in 1..Len(Magic) /\ rec + 1 - 1 = rec
          BY <2>4, <3>1 DEF Recognize
        <4>2. PICK k \in 1..Len(Magic) : k = rec + 1
          BY <4>1
        <4>3. k - 1 = rec /\ k \in 0..Len(Magic) /\ next = k
          BY <2>4, <4>1, <4>2
        <4>4. EndsWith(heard', k)
          BY <2>5, <2>6, <3>1, <4>2, <4>3
        <4> QED
          BY <4>3, <4>4
      <3>2. CASE c # Magic[rec + 1] /\ c = Magic[1]
        <4>1. next = 1 /\ 1 \in 1..Len(Magic) /\ 1 - 1 = 0
          BY <2>4, <3>2 DEF Recognize
        <4> QED
          BY <2>6, <2>7, <3>2, <4>1
      <3>3. CASE c # Magic[rec + 1] /\ c # Magic[1]
        BY <2>4, <2>7, <3>3 DEF Recognize
      <3> QED
        BY <3>1, <3>2, <3>3
    <2>9. \A k \in next + 1..Len(Magic) : ~EndsWith(heard', k)
      <3> SUFFICES ASSUME NEW k \in next + 1..Len(Magic), c = Magic[k], EndsWith(heard, k - 1)
                   PROVE  FALSE
        BY <2>6, <2>8
      <3>1. k \in 1..Len(Magic) /\ k > next
        BY <2>4, <2>8
      <3>2. k - 1 <= rec
        <4>1. ~(k - 1 \in rec + 1..Len(Magic))
          BY <2>5
        <4> QED
          BY <2>4, <3>1, <4>1
      <3>3. CASE k = rec + 1
        <4>1. next = rec + 1
          BY <3>3 DEF Recognize
        <4> QED
          BY <2>4, <3>1, <3>3, <4>1
      <3>4. CASE k = 1
        <4>1. next # 0
          BY <2>4, <3>4 DEF Recognize
        <4> QED
          BY <2>8, <3>1, <3>4, <4>1
      <3>5. CASE k # 1 /\ k # rec + 1
        <4>1. k - 1 \in 1..rec - 1 /\ rec \in 1..Len(Magic)
          BY <2>4, <3>1, <3>2, <3>5
        <4> QED
          BY <2>3, <2>5, <4>1, NoBorder
      <3> QED
        BY <3>3, <3>4, <3>5
    <2> HIDE DEF next
    <2>10. CASE c \in CancelKeys
      <3>1. bios'.pc = "cancelled"
        BY <2>2, <2>10 DEF TypeInv
      <3> QED
        BY <2>7, <3>1 DEF AckInv, AckExact
    <2>11. CASE c \notin CancelKeys /\ next = Len(Magic)
      <3>1. bios'.pc = "frame"
        BY <2>2, <2>11 DEF TypeInv, next
      <3>2. EndsWith(heard', Len(Magic))
        BY <2>8, <2>11
      <3> QED
        BY <2>7, <3>1, <3>2 DEF AckInv, AckExact, EndsWith
    <2>12. CASE c \notin CancelKeys /\ next # Len(Magic)
      <3>1. bios'.pc = "ack" /\ bios'.recognized = next
        BY <2>1, <2>2, <2>12 DEF TypeInv, next
      <3> QED
        BY <2>7, <2>8, <2>9, <3>1 DEF AckInv, AckExact, EndsWith
    <2> QED
      BY <2>10, <2>11, <2>12
  <1> QED
    BY <1>1, <1>2, <1>3, <1>4, <1>5 DEF Next, BiosStep

-------------------------------------------------------------------------------
(* The theorems.                                                           *)

(* The inductive invariant of serialboot and its surroundings.             *)
LEMMA SerialInv ==
    Spec => [](TypeInv /\ Streak /\ AckInv)
  <1>1. Init => TypeInv /\ Streak /\ AckInv
    <2> SUFFICES ASSUME Init PROVE TypeInv /\ Streak /\ AckInv
      OBVIOUS
    <2>1. TypeInv
      BY TypeInit
    <2>2. Streak
      BY SerialBootAssumption DEF Init, Streak
    <2>3. AckInv
      BY SerialBootAssumption DEF Init, AckInv, AckExact
    <2> QED
      BY <2>1, <2>2, <2>3
  <1>2. TypeInv /\ Streak /\ AckInv /\ [Next]_vars => (TypeInv /\ Streak /\ AckInv)'
    BY TypeStep, StreakStep, AckStep
  <1> QED
    BY <1>1, <1>2, PTL DEF Spec

(* Every local, queue and byte keeps its type, whatever the line does: the *)
(* image frames copied to memory are frames of the host's program, and no  *)
(* index or length leaves its range.                                       *)
THEOREM TypeCorrect == Spec => []TypeInv
  BY SerialInv, PTL

(* check_ack, which only looks at the first character again after a        *)
(* mismatch, is exact for every magic string whose first character does    *)
(* not come back: frames are read only after the whole string was heard,   *)
(* and never is a longer beginning of it overlooked.                       *)
THEOREM AckIsExact == Spec => []AckExact
  <1>1. AckInv => AckExact
    BY DEF AckInv
  <1> QED
    BY <1>1, SerialInv, PTL

(* serialboot gives up on MAX_FAILURES bad frames in a row and on nothing  *)
(* else, for every MAX_FAILURES and every number of damaged bytes.         *)
THEOREM GiveUpIsExact == Spec => []GivesUpOnStreak
  <1>1. TypeInv /\ Streak => GivesUpOnStreak
    BY StreakIsExact
  <1> QED
    BY <1>1, SerialInv, PTL
===============================================================================
