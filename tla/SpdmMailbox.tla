----------------------------- MODULE SpdmMailbox -----------------------------
(***************************************************************************)
(* The mailbox between the BIOS (SPDM requester, on the SoC's CPU) and the *)
(* Microblaze in the Ethernet card (SPDM responder): one FIFO without a    *)
(* reset, whose clock, enables and data input are switched by multiplexers *)
(* between the requester's CSRs and the Microblaze's GPIOs, and the four   *)
(* device I/O functions that drive it by single register writes.           *)
(*                                                                         *)
(* One action is one register access of one CPU (or one local step), so    *)
(* the two CPUs interleave between any two accesses.                       *)
(*                                                                         *)
(* Nothing in the code tells a flag that was raised for this message from  *)
(* the same flag left over from the previous one; only the speed of the    *)
(* two CPUs does.  That reliance is explicit here: PromptResponder and     *)
(* PromptRequester say that the peer reacts before the stale value is      *)
(* polled.  With either of them FALSE the model has every interleaving.    *)
(***************************************************************************)
EXTENDS Naturals, Sequences

CONSTANTS
    Byte,               \* values of one FIFO word
    MaxLen,             \* longest message libspdm sends
    FifoDepth,          \* words the FIFO generator holds
    PromptResponder,    \* the ready flag falls before the requester polls it
    PromptRequester,    \* the wait bit falls before the responder polls it
    AllocMayFail,       \* the sides whose malloc of the copy may fail
    ResetAt             \* where the requester may be when the SoC is reset

Side == {"requester", "responder"}

RqPc == {"idle", "sendPoll", "sendSize", "sendSelect", "sendLoad", "sendRise",
         "sendFall", "recvPoll", "recvSelect", "recvSize", "recvByte",
         "recvRise", "recvFall"}

ASSUME MailboxAssumption ==
    /\ 0 \in Byte
    /\ MaxLen \in Nat \ {0}
    /\ FifoDepth \in Nat
    /\ MaxLen <= FifoDepth

ASSUME EnvironmentAssumption ==
    /\ PromptResponder \in BOOLEAN
    /\ PromptRequester \in BOOLEAN
    /\ AllocMayFail \subseteq Side
    /\ ResetAt \subseteq RqPc

(* A transport message; libspdm never sends an empty one.                  *)
Message == UNION {[1..n -> Byte] : n \in 1..MaxLen}

VARIABLES
    csr,        \* registers the requester writes (LiteEthSPDMRX)
    gpio,       \* registers the Microblaze writes (AXI GPIO 0, 1, 3, 4, 5)
    fifo,       \* contents of fifo_generator_0, oldest word first
    rq,         \* locals of the requester's send and receive functions
    rs,         \* locals of the responder's send and receive functions
    served      \* the responder raised ready since the last handover

vars == <<csr, gpio, fifo, rq, rs, served>>

-------------------------------------------------------------------------------
(* The SPDM_FIFO control byte, as the set of its one bits.                 *)
WRITE_EN == 0
READ_EN == 1
CLK_FIFO == 2
SPDM_WAIT == 3
READ_MUX == 4
WRITE_MUX == 6          \* drives data_mux too
CLK_MUX == 7

(* The values the requester writes to it: 0x01, 0x05, 0xF8, 0x02, 0x06.    *)
(* Bit 5 of 0xF8 has no effect: it always shows the responder's ready flag.*)
SendWait == {WRITE_EN}
SendWrite == {WRITE_EN, CLK_FIFO}
ResponderSignal == {SPDM_WAIT, READ_MUX, WRITE_MUX, CLK_MUX}
RecvWait == {READ_EN}
RecvRead == {READ_EN, CLK_FIFO}

(* The multiplexers: input A (requester) on 0, input B (Microblaze) on 1.  *)
FifoClk(c, g) ==
    IF CLK_MUX \in c.SPDM_FIFO THEN g.clk ELSE CLK_FIFO \in c.SPDM_FIFO

FifoWriteEn(c, g) ==
    IF WRITE_MUX \in c.SPDM_FIFO THEN g.write_en ELSE WRITE_EN \in c.SPDM_FIFO

FifoReadEn(c, g) ==
    IF READ_MUX \in c.SPDM_FIFO THEN g.read_en ELSE READ_EN \in c.SPDM_FIFO

FifoDin(c, g) ==
    IF WRITE_MUX \in c.SPDM_FIFO THEN g.packet ELSE c.SPDM_register

(* One rising clock edge: a read of an empty FIFO and a write to a full    *)
(* one are ignored.                                                        *)
FifoEdge(f, we, re, d) ==
    LET popped == IF re /\ f # << >> THEN Tail(f) ELSE f
    IN  IF we /\ Len(f) < FifoDepth THEN Append(popped, d) ELSE popped

(* What the FIFO does when csr and gpio change to csr' and gpio'.  When    *)
(* the write that makes the edge also moves a multiplexer, the FIFO may    *)
(* sample an enable or the data from before or from after the write.       *)
FifoNext ==
    IF ~FifoClk(csr, gpio) /\ FifoClk(csr', gpio')
    THEN \E we \in {FifoWriteEn(csr, gpio), FifoWriteEn(csr', gpio')},
            re \in {FifoReadEn(csr, gpio), FifoReadEn(csr', gpio')},
            d \in {FifoDin(csr, gpio), FifoDin(csr', gpio')} :
                fifo' = FifoEdge(fifo, we, re, d)
    ELSE fifo' = fifo

(* First-word-fall-through: the oldest word is on dout before it is read.  *)
(* dout means nothing while the FIFO is empty.                             *)
Dout == IF fifo = << >> THEN Byte ELSE {Head(fifo)}

-------------------------------------------------------------------------------
(* Register writes.                                                        *)
WriteControl(bits) ==
    /\ csr' = [csr EXCEPT !.SPDM_FIFO = bits]
    /\ UNCHANGED gpio
    /\ FifoNext

WriteGpio(g) ==
    /\ gpio' = g
    /\ UNCHANGED csr
    /\ FifoNext

RqGoto(from, to) ==
    /\ rq.pc = from
    /\ rq' = [rq EXCEPT !.pc = to]
    /\ UNCHANGED rs

RsGoto(from, to) ==
    /\ rs.pc = from
    /\ rs' = [rs EXCEPT !.pc = to]
    /\ UNCHANGED rq

(* The requester would read the ready flag of the previous exchange: the   *)
(* wait bit is up and the responder has not yet lowered the flag.          *)
StaleReady == SPDM_WAIT \in csr.SPDM_FIFO /\ ~served

(* The responder would read the wait bit of a request it has answered.     *)
StaleWait == SPDM_WAIT \in csr.SPDM_FIFO /\ served

-------------------------------------------------------------------------------
CsrReset == [SPDM_FIFO |-> {}, SPDM_register |-> 0, SPDM_requester_control |-> 0]

RqReset == [pc |-> "idle", data |-> << >>, i |-> 0, message_size |-> 0,
            buffer |-> << >>, message |-> << >>]

Init ==
    /\ csr = CsrReset
    /\ gpio = [packet |-> 0, write_en |-> FALSE,
               read_en |-> FALSE, clk |-> FALSE, counter |-> 0, ready |-> FALSE]
    /\ fifo = << >>
    /\ rq = RqReset
    /\ rs = [pc |-> "init", data |-> << >>, i |-> 0, message_size |-> 0,
             buffer |-> << >>, message |-> << >>]
    /\ served = TRUE

-------------------------------------------------------------------------------
(* Mutated forms of the actions below: the change a plausible bug would    *)
(* make.  No specification uses them; they show that the properties can    *)
(* tell the code from its mutants.                                         *)

(* *data for data[i].                                                      *)
MutLoadFirstByte ==
    /\ rq.i < Len(rq.data)
    /\ RqGoto("sendLoad", "sendRise")
    /\ csr' = [csr EXCEPT !.SPDM_register = rq.data[1]]
    /\ UNCHANGED <<gpio, fifo, served>>

(* The FIFO handed over one byte early.                                    *)
MutSignalEarly ==
    /\ rq.i + 1 >= Len(rq.data)
    /\ RqGoto("sendLoad", "recvPoll")
    /\ WriteControl(ResponderSignal)
    /\ served' = FALSE

(* The out-parameter *message is not set.                                  *)
MutForgetMessage ==
    /\ Len(rq.buffer) = rq.message_size
    /\ RqGoto("recvByte", "idle")
    /\ UNCHANGED <<csr, gpio, fifo, served>>

(* No clock pulse after the last byte of the request.                      *)
MutSkipLastRequestPop ==
    /\ RsGoto("recvRise", "recvFall")
    /\ IF Len(rs.buffer) = rs.message_size
       THEN UNCHANGED <<csr, gpio, fifo>>
       ELSE WriteGpio([gpio EXCEPT !.clk = TRUE])
    /\ UNCHANGED served

(* The response written last byte first.                                   *)
MutReversedResponse ==
    /\ rs.i < Len(rs.data)
    /\ RsGoto("sendLoad", "sendRise")
    /\ WriteGpio([gpio EXCEPT !.packet = rs.data[Len(rs.data) - rs.i]])
    /\ UNCHANGED served

(* ready raised before the write enable is dropped.                        *)
MutReadyBeforeDisable ==
    /\ rs.i = Len(rs.data)
    /\ RsGoto("sendLoad", "sendSignal")
    /\ WriteGpio([gpio EXCEPT !.ready = TRUE])
    /\ served' = TRUE

(* requester_writing kept from the previous call instead of polled again.  *)
MutReuseWaitBit ==
    /\ RsGoto("sendSignal", "recvAck")
    /\ WriteGpio([gpio EXCEPT !.ready = TRUE])
    /\ served' = TRUE

(* ready raised only once the requester has dropped the wait bit.          *)
MutAwaitWaitBit ==
    /\ rs.pc = "sendSignal"
    /\ \/ SPDM_WAIT \in csr.SPDM_FIFO /\ UNCHANGED vars
       \/ /\ SPDM_WAIT \notin csr.SPDM_FIFO
          /\ RsGoto("sendSignal", "recvPoll")
          /\ WriteGpio([gpio EXCEPT !.ready = TRUE])
          /\ served' = TRUE

-------------------------------------------------------------------------------
(* The SoC is reset: the BIOS starts over and its registers are cleared.   *)
(* The Microblaze (its reset is tied high) and the FIFO (it has no reset   *)
(* pin) go on as they were.                                                *)
SocReset ==
    /\ rq.pc \in ResetAt
    /\ rq' = RqReset
    /\ csr' = CsrReset
    /\ UNCHANGED <<gpio, rs, served>>
    /\ FifoNext

-------------------------------------------------------------------------------
(* spdm_requester_send_message                                             *)

(* libspdm hands a message to the send function.                           *)
RqSend ==
    /\ rq.pc = "idle"
    /\ \E m \in Message : rq' = [rq EXCEPT !.pc = "sendPoll", !.data = m]
    /\ UNCHANGED <<csr, gpio, fifo, rs, served>>

(* while(responder_execution != 0x20): leave once bit 5 is seen.           *)
RqSendPoll ==
    /\ gpio.ready
    /\ RqGoto("sendPoll", "sendSize")
    /\ UNCHANGED <<csr, gpio, fifo, served>>

(* The size register is written whether or not malloc succeeded.  On       *)
(* failure the function falls off a bare "return;": libspdm reads an       *)
(* unspecified status, gives up ("idle") or goes on to receive.            *)
RqSendSize ==
    /\ csr' = [csr EXCEPT !.SPDM_requester_control = Len(rq.data)]
    /\ \/ RqGoto("sendSize", "sendSelect")
       \/ /\ "requester" \in AllocMayFail
          /\ RqGoto("sendSize", "idle") \/ RqGoto("sendSize", "recvPoll")
    /\ UNCHANGED <<gpio, fifo, served>>

RqSendSelect ==
    /\ rq.pc = "sendSelect"
    /\ rq' = [rq EXCEPT !.pc = "sendLoad", !.i = 0]
    /\ WriteControl(SendWait)
    /\ UNCHANGED <<rs, served>>

RqSendLoad ==
    /\ rq.i < Len(rq.data)
    /\ RqGoto("sendLoad", "sendRise")
    /\ csr' = [csr EXCEPT !.SPDM_register = rq.data[rq.i + 1]]
    /\ UNCHANGED gpio
    /\ FifoNext
    /\ UNCHANGED served

RqSendRise ==
    /\ RqGoto("sendRise", "sendFall")
    /\ WriteControl(SendWrite)
    /\ UNCHANGED served

RqSendFall ==
    /\ rq.pc = "sendFall"
    /\ rq' = [rq EXCEPT !.pc = "sendLoad", !.i = @ + 1]
    /\ WriteControl(SendWait)
    /\ UNCHANGED <<rs, served>>

(* 0xF8: every multiplexer to the Microblaze and the wait bit up.  libspdm *)
(* calls the receive function next.                                        *)
RqSendSignal ==
    /\ rq.i = Len(rq.data)
    /\ RqGoto("sendLoad", "recvPoll")
    /\ WriteControl(ResponderSignal)
    /\ served' = FALSE

-------------------------------------------------------------------------------
(* spdm_requester_receive_message                                          *)

RqRecvPoll ==
    /\ gpio.ready
    /\ PromptResponder => ~StaleReady
    /\ RqGoto("recvPoll", "recvSelect")
    /\ UNCHANGED <<csr, gpio, fifo, served>>

RqRecvSelect ==
    /\ RqGoto("recvSelect", "recvSize")
    /\ WriteControl(RecvWait)
    /\ UNCHANGED served

RqRecvSize ==
    /\ rq.pc = "recvSize"
    /\ rq' = [rq EXCEPT !.pc = "recvByte", !.message_size = gpio.counter,
                        !.buffer = << >>]
    /\ UNCHANGED <<csr, gpio, fifo, rs, served>>

RqRecvByte ==
    /\ rq.pc = "recvByte"
    /\ Len(rq.buffer) < rq.message_size
    /\ \E b \in Dout : rq' = [rq EXCEPT !.pc = "recvRise",
                                        !.buffer = Append(@, b)]
    /\ UNCHANGED <<csr, gpio, fifo, rs, served>>

RqRecvRise ==
    /\ RqGoto("recvRise", "recvFall")
    /\ WriteControl(RecvRead)
    /\ UNCHANGED served

RqRecvFall ==
    /\ RqGoto("recvFall", "recvByte")
    /\ WriteControl(RecvWait)
    /\ UNCHANGED served

(* The loop ends: *message points at the buffer, libspdm has the response. *)
RqRecvDone ==
    /\ rq.pc = "recvByte"
    /\ Len(rq.buffer) = rq.message_size
    /\ rq' = [rq EXCEPT !.pc = "idle", !.message = rq.buffer]
    /\ UNCHANGED <<csr, gpio, fifo, rs, served>>

-------------------------------------------------------------------------------
(* main and spdm_responder_receive_message of the Microblaze               *)

(* The end of main's set-up: the card announces itself and enters the      *)
(* dispatch loop.                                                          *)
RsStart ==
    /\ RsGoto("init", "recvPoll")
    /\ WriteGpio([gpio EXCEPT !.ready = TRUE])
    /\ UNCHANGED served

RsRecvPoll ==
    /\ SPDM_WAIT \in csr.SPDM_FIFO
    /\ PromptRequester => ~StaleWait
    /\ RsGoto("recvPoll", "recvAck")
    /\ UNCHANGED <<csr, gpio, fifo, served>>

RsRecvAck ==
    /\ RsGoto("recvAck", "recvSize")
    /\ WriteGpio([gpio EXCEPT !.ready = FALSE])
    /\ UNCHANGED served

RsRecvSize ==
    /\ rs.pc = "recvSize"
    /\ rs' = [rs EXCEPT !.pc = "recvEnable", !.buffer = << >>,
                        !.message_size = csr.SPDM_requester_control]
    /\ UNCHANGED <<csr, gpio, fifo, rq, served>>

RsRecvEnable ==
    /\ RsGoto("recvEnable", "recvByte")
    /\ WriteGpio([gpio EXCEPT !.read_en = TRUE])
    /\ UNCHANGED served

RsRecvByte ==
    /\ rs.pc = "recvByte"
    /\ Len(rs.buffer) < rs.message_size
    /\ \E b \in Dout : rs' = [rs EXCEPT !.pc = "recvRise",
                                        !.buffer = Append(@, b)]
    /\ UNCHANGED <<csr, gpio, fifo, rq, served>>

RsRecvRise ==
    /\ RsGoto("recvRise", "recvFall")
    /\ WriteGpio([gpio EXCEPT !.clk = TRUE])
    /\ UNCHANGED served

RsRecvFall ==
    /\ RsGoto("recvFall", "recvByte")
    /\ WriteGpio([gpio EXCEPT !.clk = FALSE])
    /\ UNCHANGED served

(* The loop ends: the read enable drops and libspdm gets the message.      *)
RsRecvDone ==
    /\ rs.pc = "recvByte"
    /\ Len(rs.buffer) = rs.message_size
    /\ rs' = [rs EXCEPT !.pc = "dispatch", !.message = rs.buffer]
    /\ WriteGpio([gpio EXCEPT !.read_en = FALSE])
    /\ UNCHANGED <<rq, served>>

-------------------------------------------------------------------------------
(* libspdm_responder_dispatch_message and spdm_responder_send_message      *)

(* libspdm builds a response and calls the send function, which copies it  *)
(* and publishes its size.                                                 *)
RsDispatch ==
    /\ rs.pc = "dispatch"
    /\ \E m \in Message :
        /\ rs' = [rs EXCEPT !.pc = "sendEnable", !.data = m]
        /\ WriteGpio([gpio EXCEPT !.counter = Len(m)])
    /\ UNCHANGED <<rq, served>>

(* malloc failed: "return false" is LIBSPDM_STATUS_SUCCESS, so the         *)
(* dispatch loop receives again without having answered.                   *)
RsDispatchNoMemory ==
    /\ "responder" \in AllocMayFail
    /\ RsGoto("dispatch", "recvPoll")
    /\ UNCHANGED <<csr, gpio, fifo, served>>

RsSendEnable ==
    /\ rs.pc = "sendEnable"
    /\ rs' = [rs EXCEPT !.pc = "sendLoad", !.i = 0]
    /\ WriteGpio([gpio EXCEPT !.write_en = TRUE])
    /\ UNCHANGED <<rq, served>>

RsSendLoad ==
    /\ rs.i < Len(rs.data)
    /\ RsGoto("sendLoad", "sendRise")
    /\ WriteGpio([gpio EXCEPT !.packet = rs.data[rs.i + 1]])
    /\ UNCHANGED served

RsSendRise ==
    /\ RsGoto("sendRise", "sendFall")
    /\ WriteGpio([gpio EXCEPT !.clk = TRUE])
    /\ UNCHANGED served

RsSendFall ==
    /\ rs.pc = "sendFall"
    /\ rs' = [rs EXCEPT !.pc = "sendLoad", !.i = @ + 1]
    /\ WriteGpio([gpio EXCEPT !.clk = FALSE])
    /\ UNCHANGED <<rq, served>>

RsSendDisable ==
    /\ rs.i = Len(rs.data)
    /\ RsGoto("sendLoad", "sendSignal")
    /\ WriteGpio([gpio EXCEPT !.write_en = FALSE])
    /\ UNCHANGED served

RsSendSignal ==
    /\ RsGoto("sendSignal", "recvPoll")
    /\ WriteGpio([gpio EXCEPT !.ready = TRUE])
    /\ served' = TRUE

-------------------------------------------------------------------------------
RqStep ==
    \/ RqSendPoll \/ RqSendSize \/ RqSendSelect \/ RqSendLoad \/ RqSendRise
    \/ RqSendFall \/ RqSendSignal
    \/ RqRecvPoll \/ RqRecvSelect \/ RqRecvSize \/ RqRecvByte \/ RqRecvRise
    \/ RqRecvFall \/ RqRecvDone

RsStep ==
    \/ RsStart
    \/ RsRecvPoll \/ RsRecvAck \/ RsRecvSize \/ RsRecvEnable \/ RsRecvByte
    \/ RsRecvRise \/ RsRecvFall \/ RsRecvDone
    \/ RsDispatch \/ RsDispatchNoMemory
    \/ RsSendEnable \/ RsSendLoad \/ RsSendRise \/ RsSendFall
    \/ RsSendDisable \/ RsSendSignal

Next == RqSend \/ SocReset \/ RqStep \/ RsStep

Spec == Init /\ [][Next]_vars

(* What the code relies on and does not enforce: each CPU reacts before    *)
(* the other polls a stale flag, and the SoC is reset only while the       *)
(* requester is not in an exchange.                                        *)
AtRest == {"idle", "sendPoll", "sendSize", "sendSelect"}
Undisturbed == PromptResponder /\ PromptRequester /\ ResetAt \subseteq AtRest

(* Each CPU runs the straight-line code and the polling loops it is in;    *)
(* libspdm may never send another request.                                 *)
FairSpec == Spec /\ WF_vars(RqStep) /\ WF_vars(RsStep)

-------------------------------------------------------------------------------
SendPc == {"sendEnable", "sendLoad", "sendRise", "sendFall", "sendSignal"}

RsPc == {"init", "recvPoll", "recvAck", "recvSize", "recvEnable", "recvByte",
         "recvRise", "recvFall", "dispatch"} \cup SendPc

(* Every register and local has its type.                                  *)
TypeInv ==
    /\ csr \in [SPDM_FIFO : {{}, SendWait, SendWrite, ResponderSignal,
                             RecvWait, RecvRead},
                SPDM_register : Byte, SPDM_requester_control : 0..MaxLen]
    /\ gpio \in [packet : Byte, write_en : BOOLEAN, read_en : BOOLEAN,
                 clk : BOOLEAN, counter : 0..MaxLen, ready : BOOLEAN]
    /\ fifo \in Seq(Byte)
    /\ rq \in [pc : RqPc, data : Message \cup {<< >>}, i : 0..MaxLen,
               message_size : 0..MaxLen, buffer : Seq(Byte),
               message : Seq(Byte)]
    /\ rs \in [pc : RsPc, data : Message \cup {<< >>}, i : 0..MaxLen,
               message_size : 0..MaxLen, buffer : Seq(Byte),
               message : Seq(Byte)]
    /\ served \in BOOLEAN

(* Sides in the middle of a transfer: between the write that opens it and  *)
(* the write that ends it.                                                 *)
RqDriving == rq.pc \in {"sendLoad", "sendRise", "sendFall", "recvSize",
                        "recvByte", "recvRise", "recvFall"}
RsDriving == rs.pc \in {"recvEnable", "recvByte", "recvRise", "recvFall",
                        "dispatch"} \cup SendPc

(* The FIFO has one master at a time: a transfer of one CPU never overlaps *)
(* one of the other, although no lock guards the multiplexers; and the     *)
(* multiplexers select the CPU that is in a transfer.                      *)
OneMaster ==
    /\ ~(RqDriving /\ RsDriving)
    /\ RqDriving => CLK_MUX \notin csr.SPDM_FIFO
    /\ RsDriving => CLK_MUX \in csr.SPDM_FIFO

(* The FIFO has no reset, so a word left behind would shift every later    *)
(* message: each send starts on an empty FIFO.                             *)
CleanStart ==
    /\ rq.pc = "sendLoad" /\ rq.i = 0 => fifo = << >>
    /\ rs.pc = "sendEnable" => fifo = << >>

(* A rising edge of a send never meets a full FIFO (the word would be      *)
(* lost), and neither receive loop samples an empty one (the byte would be *)
(* meaningless).                                                           *)
NoOverflow ==
    rq.pc = "sendRise" \/ rs.pc = "sendRise" => Len(fifo) < FifoDepth
NoUnderflow ==
    /\ rq.pc = "recvByte" /\ Len(rq.buffer) < rq.message_size => fifo # << >>
    /\ rs.pc = "recvByte" /\ Len(rs.buffer) < rs.message_size => fifo # << >>

(* The message the responder dispatches is the one the requester sent.     *)
RequestIntegrity ==
    rs.pc = "dispatch" => rs.message = rq.data

(* The message the requester's receive loop ends with is the response the  *)
(* responder sent, whole and in order.                                     *)
ResponseIntegrity ==
    rq.pc = "recvByte" /\ Len(rq.buffer) = rq.message_size
        => rq.buffer = rs.data

(* The ready flag falls only for a request that is waiting and unanswered: *)
(* never under a response the requester has yet to notice.                 *)
ReadyFallsForRequest ==
    [][gpio.ready /\ ~gpio.ready'
         => SPDM_WAIT \in csr.SPDM_FIFO /\ ~served /\ rq.pc = "recvPoll"]_vars

(* Every request sent gets its response received: neither CPU polls        *)
(* forever for a flag the other will not raise.                            *)
RequestAnswered == (rq.pc = "sendPoll") ~> (rq.pc = "idle")

-------------------------------------------------------------------------------
(* The inductive invariant behind the safety properties.                   *)

Prefix(s, m) == Len(s) <= Len(m) /\ \A k \in 1..Len(s) : s[k] = m[k]
Suffix(s, m, n) == Len(s) + n = Len(m) /\ \A k \in 1..Len(s) : s[k] = m[n + k]

(* Who may move: the requester owns the FIFO while served holds, except    *)
(* that the multiplexers stay with the Microblaze until it selects them    *)
(* back; the control byte and the GPIOs follow the program counters.       *)
ControlInv ==
    /\ rs.pc = "init" =>
        /\ served /\ ~gpio.ready
        /\ csr.SPDM_FIFO = {} /\ rq.pc \in {"idle", "sendPoll"}
    /\ served => rs.pc \in {"init", "recvPoll"}
    /\ ~served => rq.pc = "recvPoll" /\ csr.SPDM_FIFO = ResponderSignal
    /\ rq.pc \in AtRest
        => csr.SPDM_FIFO \in {{}, RecvWait}
    /\ rq.pc \in {"sendLoad", "sendRise"} => csr.SPDM_FIFO = SendWait
    /\ rq.pc = "sendFall" => csr.SPDM_FIFO = SendWrite
    /\ rq.pc \in {"recvPoll", "recvSelect"} =>
        csr.SPDM_FIFO \in {{}, RecvWait, ResponderSignal}
    /\ rq.pc \in {"recvSize", "recvByte", "recvRise"} => csr.SPDM_FIFO = RecvWait
    /\ rq.pc = "recvFall" => csr.SPDM_FIFO = RecvRead
    /\ gpio.clk <=> rs.pc \in {"recvFall", "sendFall"}
    /\ gpio.read_en <=> rs.pc \in {"recvByte", "recvRise", "recvFall"}
    /\ gpio.write_en <=> rs.pc \in {"sendLoad", "sendRise", "sendFall"}
    /\ gpio.counter = Len(rs.data)

(* The send loops: the FIFO holds the words clocked so far.                *)
SendInv ==
    /\ rq.pc \in AtRest => fifo = << >>
    /\ rq.pc \in {"sendSelect", "sendLoad", "sendRise", "sendFall"} =>
        csr.SPDM_requester_control = Len(rq.data)
    /\ rq.pc \in {"sendLoad", "sendRise", "sendFall"} =>
        /\ Prefix(fifo, rq.data)
        /\ rq.i <= Len(rq.data)
        /\ rq.pc # "sendLoad" => rq.i < Len(rq.data)
        /\ Len(fifo) = IF rq.pc = "sendFall" THEN rq.i + 1 ELSE rq.i
    /\ rq.pc = "sendRise" => csr.SPDM_register = rq.data[rq.i + 1]
    /\ rs.pc \in {"dispatch", "sendEnable"} => fifo = << >>
    /\ rs.pc \in {"sendLoad", "sendRise", "sendFall"} =>
        /\ Prefix(fifo, rs.data)
        /\ rs.i <= Len(rs.data)
        /\ rs.pc # "sendLoad" => rs.i < Len(rs.data)
        /\ Len(fifo) = IF rs.pc = "sendFall" THEN rs.i + 1 ELSE rs.i
    /\ rs.pc = "sendRise" => gpio.packet = rs.data[rs.i + 1]
    /\ rs.pc = "sendSignal" => Suffix(fifo, rs.data, 0)

(* The responder's receive loop: what it has and what the FIFO still holds *)
(* make up the request.  After a failed malloc it receives from an empty   *)
(* FIFO; then only the lengths are known.                                  *)
RecvRequestInv ==
    /\ ~served => csr.SPDM_requester_control = Len(rq.data)
    /\ ~served /\ rs.pc \in {"recvPoll", "recvAck", "recvSize"} =>
        /\ Len(fifo) <= Len(rq.data)
        /\ "responder" \notin AllocMayFail => Suffix(fifo, rq.data, 0)
    /\ rs.pc \in {"recvEnable", "recvByte", "recvRise", "recvFall"} =>
        LET n == IF rs.pc = "recvRise" THEN Len(rs.buffer) - 1
                                       ELSE Len(rs.buffer)
        IN  /\ rs.message_size = Len(rq.data)
            /\ n >= 0
            /\ rs.pc = "recvEnable" => rs.buffer = << >>
            /\ Len(rs.buffer) <= Len(rq.data)
            /\ Len(fifo) + n <= Len(rq.data)
            /\ "responder" \notin AllocMayFail =>
                Prefix(rs.buffer, rq.data) /\ Suffix(fifo, rq.data, n)
    /\ rs.pc = "dispatch" /\ "responder" \notin AllocMayFail
        => rs.message = rq.data

(* The requester's receive loop, likewise.                                 *)
RecvResponseInv ==
    /\ served /\ rq.pc \in {"recvPoll", "recvSelect", "recvSize"} =>
        /\ Len(fifo) <= Len(rs.data)
        /\ "requester" \notin AllocMayFail => Suffix(fifo, rs.data, 0)
    /\ rq.pc \in {"recvByte", "recvRise", "recvFall"} =>
        LET n == IF rq.pc = "recvRise" THEN Len(rq.buffer) - 1
                                       ELSE Len(rq.buffer)
        IN  /\ rq.message_size = Len(rs.data)
            /\ n >= 0
            /\ Len(rq.buffer) <= Len(rs.data)
            /\ Len(fifo) + n <= Len(rs.data)
            /\ "requester" \notin AllocMayFail =>
                Prefix(rq.buffer, rs.data) /\ Suffix(fifo, rs.data, n)

IndInv == TypeInv /\ ControlInv /\ SendInv /\ RecvRequestInv /\ RecvResponseInv

-------------------------------------------------------------------------------
(* The half-duplex channel this mailbox implements.                        *)
ChannelTurn ==
    IF rq.pc = "recvPoll" /\ ~served
    THEN IF rs.pc \in {"dispatch"} \cup SendPc THEN "responder"
                                               ELSE "toResponder"
    ELSE IF rq.pc \in {"recvPoll", "recvSelect", "recvSize", "recvByte",
                       "recvRise", "recvFall"}
         THEN "toRequester" ELSE "requester"

Channel == INSTANCE SpdmChannel WITH
    turn <- ChannelTurn,
    wire <- IF served THEN rs.data ELSE rq.data,
    heard <- [s \in Side |-> IF s = "requester" THEN rq.message
                                                ELSE rs.message]

(* The mailbox implements the channel: requests and responses alternate,   *)
(* and each is heard exactly as it was sent.                               *)
ImplementsChannel == Channel!ChanSpec
===============================================================================
