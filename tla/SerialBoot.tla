------------------------------ MODULE SerialBoot ------------------------------
(***************************************************************************)
(* serialboot() of the BIOS: after the SPDM exchange it asks the host on   *)
(* the UART for an image, recognises the host's answer (check_ack) and     *)
(* then serves the frames LOAD, JUMP and ABORT over a line that may lose a *)
(* byte or carry one that somebody types.                                  *)
(*                                                                         *)
(* A byte is <<n, k>>: byte k of the host's frame n, or, for n = 0, the    *)
(* character k.  A frame passes the CRC exactly when it holds the bytes of *)
(* one frame of the host, in order and complete.                           *)
(***************************************************************************)
EXTENDS Naturals, Sequences, SequencesExt

CONSTANTS
    Magic,          \* SFL_MAGIC_ACK
    CancelKeys,     \* 'Q' and '\e'
    OtherKeys,      \* characters that are neither of those nor in Magic
    Programs,       \* the sequences of frames the host may want to send
    MAX_FAILURES,
    MaxLength,      \* largest value of the length byte
    MaxFaults       \* bytes the line loses or gains

(* The first character of the magic string does not come back in it, and   *)
(* no key that cancels is part of it.  The host has something to send.     *)
ASSUME SerialBootAssumption ==
    /\ Magic \in Seq(Nat) /\ Len(Magic) > 0
    /\ \A k \in 2..Len(Magic) : Magic[k] # Magic[1]
    /\ CancelKeys \subseteq Nat /\ OtherKeys \subseteq Nat
    /\ CancelKeys \cap Range(Magic) = {}
    /\ MAX_FAILURES \in Nat \ {0} /\ MaxLength \in Nat /\ MaxFaults \in Nat
    /\ \A p \in Programs :
          p \in Seq([cmd : STRING, payload_length : 0..MaxLength]) /\ p # << >>

VARIABLES
    bios,       \* locals of serialboot and check_ack
    mem,        \* the LOAD frames whose payload has been copied to memory
    line,       \* bytes on their way to the BIOS
    replies,    \* acknowledgements on their way to the host
    host,       \* the host's program and where it stands
    faults,     \* bytes lost or typed so far
    heard,      \* the characters check_ack has read last
    log         \* every acknowledgement of a complete frame

vars == <<bios, mem, line, replies, host, faults, heard, log>>

-------------------------------------------------------------------------------
(* The ways out of serialboot: boot() never returns, cancelled returns 0,  *)
(* the others return 1.                                                    *)
Final == {"booted", "cancelled", "ackTimeout", "gaveUp", "aborted"}

Chars == Range(Magic) \cup CancelKeys \cup OtherKeys

(* The value of a byte, as a character and as a length.  A frame never     *)
(* spells the magic string.                                                *)
CharOf(b) == IF b[1] = 0 THEN {b[2]}
                         ELSE CancelKeys \cup OtherKeys \cup {Magic[1]}
LengthOf(b) == IF b[1] > 0 /\ b[2] = 0
               THEN {host.program[b[1]].payload_length} ELSE 0..MaxLength

Bytes(n) == [k \in 1..host.program[n].payload_length + 4 |-> <<n, k - 1>>]

Init ==
    /\ bios = [pc |-> "start", recognized |-> 0, frame |-> << >>,
               payload_length |-> 0, failures |-> 0]
    /\ mem = {}
    /\ line = << >>
    /\ replies = << >>
    /\ host \in [program : Programs, n : {1}, phase : {"listen"}]
    /\ faults = 0
    /\ heard = << >>
    /\ log = << >>

-------------------------------------------------------------------------------
(* The host program and the line (external).                               *)

(* What arrives of s: all of it, or all but one byte.                      *)
Transmit(s) ==
    \/ line' = line \o s /\ UNCHANGED faults
    \/ /\ faults < MaxFaults
       /\ faults' = faults + 1
       /\ \E k \in 1..Len(s) : line' = line \o RemoveAt(s, k)

HostAck ==
    /\ host.phase = "answer"
    /\ host' = [host EXCEPT !.phase = "send"]
    /\ Transmit([k \in 1..Len(Magic) |-> <<0, Magic[k]>>])
    /\ UNCHANGED <<bios, mem, replies, heard, log>>

HostSend ==
    /\ host.phase = "send"
    /\ host' = [host EXCEPT !.phase = "wait"]
    /\ Transmit(Bytes(host.n))
    /\ UNCHANGED <<bios, mem, replies, heard, log>>

(* The host goes on after SFL_ACK_SUCCESS and resends after anything else. *)
HostReply ==
    /\ host.phase = "wait"
    /\ replies # << >>
    /\ replies' = Tail(replies)
    /\ host' = IF Head(replies) # "SUCCESS"
               THEN [host EXCEPT !.phase = "send"]
               ELSE IF host.n = Len(host.program)
               THEN [host EXCEPT !.phase = "done"]
               ELSE [host EXCEPT !.phase = "send", !.n = @ + 1]
    /\ UNCHANGED <<bios, mem, line, faults, heard, log>>

(* Somebody types while the BIOS waits for the host.                       *)
Key ==
    /\ bios.pc = "ack"
    /\ faults < MaxFaults
    /\ faults' = faults + 1
    /\ \E c \in Chars, p \in 1..Len(line) + 1 : line' = InsertAt(line, p, <<0, c>>)
    /\ UNCHANGED <<bios, mem, replies, host, heard, log>>

-------------------------------------------------------------------------------
(* What the actions of the BIOS share.                                     *)

CrcOk == LET n == bios.frame[1][1] IN n > 0 /\ bios.frame = Bytes(n)
Command == host.program[bios.frame[1][1]].cmd

(* The frame is acknowledged with a and serialboot is in pc next.          *)
Acknowledge(a, pc, failures) ==
    /\ bios.pc = "execute"
    /\ bios' = [bios EXCEPT !.pc = pc, !.failures = failures, !.frame = << >>]
    /\ replies' = Append(replies, a)
    /\ log' = Append(log, a)
    /\ UNCHANGED <<line, host, faults, heard>>

-------------------------------------------------------------------------------
(* Mutated forms of the definitions below: the change a plausible bug would*)
(* make.  No specification uses them.                                      *)

(* The mismatch forgets to look at the first character again.              *)
MutNoRestart(c) ==
    IF c = Magic[bios.recognized + 1] THEN bios.recognized + 1 ELSE 0

(* An expired timer is loaded again instead of ending the frame.           *)
MutTimerRestart ==
    /\ bios.pc = "frame" /\ bios.frame # << >> /\ line = << >>
    /\ UNCHANGED vars

(* The reader acknowledges every complete frame, then looks at the CRC.    *)
MutAckBeforeCrc ==
    /\ Acknowledge("SUCCESS", "frame", 0)
    /\ ~CrcOk
    /\ UNCHANGED mem

(* "Reset failures" missing in the LOAD case.                              *)
MutLoadKeepsFailures ==
    /\ Acknowledge("SUCCESS", "frame", bios.failures)
    /\ CrcOk /\ Command = "LOAD"
    /\ mem' = mem \cup {bios.frame[1][1]}

-------------------------------------------------------------------------------
(* serialboot up to the acknowledgement, and check_ack                     *)

(* spdm_requester() has returned; the magic request goes out.              *)
Start ==
    /\ bios.pc = "start"
    /\ bios' = [bios EXCEPT !.pc = "ack", !.recognized = 0]
    /\ host' = [host EXCEPT !.phase = "answer"]
    /\ UNCHANGED <<mem, line, replies, faults, heard, log>>

Recognize(c) ==
    IF c = Magic[bios.recognized + 1] THEN bios.recognized + 1
    ELSE IF c = Magic[1] THEN 1 ELSE 0

(* As many characters as the magic string has are remembered.              *)
Remember(h, c) ==
    Append(IF Len(h) = Len(Magic) THEN Tail(h) ELSE h, c)

AckChar ==
    /\ bios.pc = "ack"
    /\ line # << >>
    /\ line' = Tail(line)
    /\ \E c \in CharOf(Head(line)) :
        /\ heard' = Remember(heard, c)
        /\ bios' = IF c \in CancelKeys THEN [bios EXCEPT !.pc = "cancelled"]
                   ELSE IF Recognize(c) = Len(Magic)
                   THEN [bios EXCEPT !.pc = "frame", !.failures = 0]
                   ELSE [bios EXCEPT !.recognized = Recognize(c)]
    /\ UNCHANGED <<mem, replies, host, faults, log>>

AckTimeout ==
    /\ bios.pc = "ack"
    /\ bios' = [bios EXCEPT !.pc = "ackTimeout"]
    /\ UNCHANGED <<mem, line, replies, host, faults, heard, log>>

-------------------------------------------------------------------------------
(* Get one frame.  i is the number of bytes read.                          *)

(* i == 0: no timer runs until this byte arrives.                          *)
ReadLength ==
    /\ bios.pc = "frame"
    /\ bios.frame = << >>
    /\ line # << >>
    /\ line' = Tail(line)
    /\ \E len \in LengthOf(Head(line)) :
        bios' = [bios EXCEPT !.frame = <<Head(line)>>, !.payload_length = len]
    /\ UNCHANGED <<mem, replies, host, faults, heard, log>>

(* crc, cmd and payload; the loop ends with byte payload_length + 4 - 1,   *)
(* but only from the fifth byte on.                                        *)
ReadByte ==
    LET i == Len(bios.frame)
    IN  /\ bios.pc = "frame"
        /\ i > 0
        /\ line # << >>
        /\ line' = Tail(line)
        /\ bios' = [bios EXCEPT
                      !.frame = Append(@, Head(line)),
                      !.pc = IF i >= 4 /\ i = bios.payload_length + 4 - 1
                             THEN "execute" ELSE @]
        /\ UNCHANGED <<mem, replies, host, faults, heard, log>>

(* A quarter of a second is far more than a frame takes: the timer runs    *)
(* out only when no byte is left to read.                                  *)
FrameTimeout ==
    /\ bios.pc = "frame"
    /\ bios.frame # << >>
    /\ line = << >>
    /\ bios' = [bios EXCEPT !.frame = << >>]
    /\ replies' = Append(replies, "ERROR")
    /\ UNCHANGED <<mem, line, host, faults, heard, log>>

-------------------------------------------------------------------------------
(* Check the CRC and execute the command.                                  *)

Fail(a) == Acknowledge(a, IF bios.failures + 1 = MAX_FAILURES THEN "gaveUp"
                                                             ELSE "frame",
                       bios.failures + 1)

CrcError ==
    /\ Fail("CRCERROR")
    /\ ~CrcOk
    /\ UNCHANGED mem

Abort ==
    /\ Acknowledge("SUCCESS", "aborted", 0)
    /\ CrcOk /\ Command = "ABORT"
    /\ UNCHANGED mem

Load ==
    /\ Acknowledge("SUCCESS", "frame", 0)
    /\ CrcOk /\ Command = "LOAD"
    /\ mem' = mem \cup {bios.frame[1][1]}

Jump ==
    /\ Acknowledge("SUCCESS", "booted", 0)
    /\ CrcOk /\ Command = "JUMP"
    /\ UNCHANGED mem

Unknown ==
    /\ Fail("UNKNOWN")
    /\ CrcOk /\ Command \notin {"ABORT", "LOAD", "JUMP"}
    /\ UNCHANGED mem

-------------------------------------------------------------------------------
BiosStep ==
    \/ AckChar \/ AckTimeout \/ ReadLength \/ ReadByte \/ FrameTimeout
    \/ CrcError \/ Abort \/ Load \/ Jump \/ Unknown

HostStep == HostAck \/ HostSend \/ HostReply

Terminated == bios.pc \in Final /\ UNCHANGED vars

Next == Start \/ BiosStep \/ HostStep \/ Key \/ Terminated

Spec == Init /\ [][Next]_vars

(* The BIOS polls in loops, its timer always runs out, and the host goes   *)
(* on as long as it gets answers.  spdm_requester may never return.        *)
FairSpec == Spec /\ WF_vars(BiosStep) /\ WF_vars(HostStep)

-------------------------------------------------------------------------------
(* Every local and queue has its type; a byte belongs to a frame of the    *)
(* host's program or is a character.                                       *)
Byte == (0..Len(host.program)) \X Nat
Answers == {"SUCCESS", "CRCERROR", "UNKNOWN", "ERROR"}

TypeInv ==
    /\ bios \in [pc : {"start", "ack", "frame", "execute"} \cup Final,
                 recognized : 0..Len(Magic) - 1, frame : Seq(Byte),
                 payload_length : 0..MaxLength, failures : 0..MAX_FAILURES]
    /\ mem \subseteq 1..Len(host.program)
    /\ line \in Seq(Byte)
    /\ replies \in Seq(Answers) /\ log \in Seq(Answers)
    /\ host \in [program : Programs, n : Nat,
                 phase : {"listen", "answer", "send", "wait", "done"}]
    /\ host.n \in 1..Len(host.program)
    /\ faults \in 0..MaxFaults
    /\ heard \in Seq(Nat)

EndsWith(s, k) == k <= Len(s) /\ \A j \in 1..k : s[Len(s) - k + j] = Magic[j]

(* check_ack has no table of the string's borders: on a mismatch it only   *)
(* looks at the first character again.  It is still exact: it has counted  *)
(* the longest beginning of the magic string that the input ends with, and *)
(* frames are read only after the whole of it.                             *)
AckExact ==
    /\ bios.pc = "ack" =>
        /\ EndsWith(heard, bios.recognized)
        /\ \A k \in bios.recognized + 1..Len(Magic) : ~EndsWith(heard, k)
    /\ bios.pc \notin {"start", "ack", "cancelled", "ackTimeout"}
        => EndsWith(heard, Len(Magic))

(* boot() jumps into the whole image: every LOAD frame the host sent before*)
(* its JUMP is in memory, although the line damages a byte of a frame and  *)
(* the answers carry no number that says which frame they are for.  With a *)
(* second damaged byte the two may lose step, so it is stated for one.     *)
JumpWholeImage ==
    bios.pc = "booted" /\ faults <= 1 =>
        \A n \in 1..Len(host.program) : host.program[n].cmd = "LOAD" => n \in mem

(* serialboot gives up exactly on MAX_FAILURES bad frames in a row.        *)
GivesUpOnStreak ==
    bios.pc = "gaveUp" <=>
        /\ Len(log) >= MAX_FAILURES
        /\ \A k \in Len(log) - MAX_FAILURES + 1..Len(log) : log[k] # "SUCCESS"

(* A frame of which one byte has arrived is answered, complete or not: the *)
(* reader never waits for a missing byte forever.                          *)
EveryFrameAnswered ==
    (bios.frame # << >>) ~> (bios.frame = << >>)

(* Once the host has been asked, serialboot comes to an end: it boots, or  *)
(* returns to let another boot method try.  After two damaged bytes the    *)
(* host may have stopped early, and the BIOS waits for a next frame.       *)
Finishes == (bios.pc = "ack") ~> (bios.pc \in Final \/ faults > 1)

(* The comment on SFL_CMD_ABORT: "Acknowledge and exit".                   *)
AbortExits ==
    (host.phase = "wait" /\ host.program[host.n].cmd = "ABORT")
        ~> (bios.pc \in Final)
===============================================================================
