-------------------------- MODULE SpdmMailboxProofs --------------------------
(* Proofs about SpdmMailbox for every message length, FIFO depth and byte. *)
EXTENDS SpdmMailbox, SequenceTheorems, TLAPS

USE DEF AtRest

(* A message is a sequence of bytes no longer than MaxLen: what data_size  *)
(* and the size registers of both send functions hold.                     *)
LEMMA MessageType ==
    ASSUME NEW m \in Message \cup {<< >>}
    PROVE  m \in Seq(Byte) /\ Len(m) \in 0..MaxLen
<1>1. CASE m = << >>
  BY <1>1, MailboxAssumption
<1>2. CASE m \in Message
  <2>1. PICK n \in 1..MaxLen : m \in [1..n -> Byte]
    BY <1>2 DEF Message
  <2>2. m \in Seq(Byte) /\ Len(m) = n
    BY <2>1, MailboxAssumption
  <2>. QED  BY <2>2, MailboxAssumption
<1>. QED  BY <1>1, <1>2

-------------------------------------------------------------------------------
(* Sequences: what clocking a word in or out does to the part of a message *)
(* that is in the FIFO.                                                    *)

Pop(f) == IF f = << >> THEN f ELSE Tail(f)

(* Reading one word leaves a sequence of bytes that is one shorter, unless *)
(* the FIFO was empty.                                                     *)
LEMMA PopType ==
    ASSUME NEW f \in Seq(Byte)
    PROVE  /\ Pop(f) \in Seq(Byte)
           /\ Len(Pop(f)) = IF Len(f) = 0 THEN 0 ELSE Len(f) - 1
           /\ Len(f) = 0 <=> f = << >>
  BY DEF Pop

(* When the FIFO holds what remains of m after n bytes, one read edge of a *)
(* receive loop leaves what remains after n + 1.                           *)
LEMMA PopSuffix ==
    ASSUME NEW f \in Seq(Byte), NEW m \in Seq(Byte), NEW n \in Nat,
           n < Len(m), Suffix(f, m, n)
    PROVE  Suffix(Pop(f), m, n + 1)
<1>1. f # << >> /\ Len(f) \in Nat \ {0} /\ Pop(f) = Tail(f)
  BY DEF Suffix, Pop
<1>2. Len(Tail(f)) = Len(f) - 1 /\ \A k \in 1..Len(Tail(f)) : Tail(f)[k] = f[k + 1]
  BY <1>1
<1>3. ASSUME NEW k \in 1..Len(Tail(f))
      PROVE  Tail(f)[k] = m[n + 1 + k]
  <2>1. k + 1 \in 1..Len(f)
    BY <1>1, <1>2
  <2>2. f[k + 1] = m[n + (k + 1)]
    BY <2>1 DEF Suffix
  <2>3. n + (k + 1) = n + 1 + k
    BY <1>1, <1>2
  <2>. QED  BY <1>2, <2>2, <2>3
<1>. QED  BY <1>1, <1>2, <1>3 DEF Suffix

(* When the FIFO holds what remains of m after n bytes, the byte a receive *)
(* loop samples on dout is m's byte n + 1.                                 *)
LEMMA HeadSuffix ==
    ASSUME NEW f \in Seq(Byte), NEW m \in Seq(Byte), NEW n \in Nat,
           n < Len(m), Suffix(f, m, n)
    PROVE  f # << >> /\ Head(f) = m[n + 1]
<1>1. f # << >> /\ 1 \in 1..Len(f)
  BY DEF Suffix
<1>. QED  BY <1>1 DEF Suffix

(* Adding the next byte to a copied prefix of m gives a longer prefix: one *)
(* turn of a send or of a receive loop.                                    *)
LEMMA AppendPrefix ==
    ASSUME NEW s \in Seq(Byte), NEW m \in Seq(Byte), Len(s) < Len(m),
           Prefix(s, m)
    PROVE  /\ Append(s, m[Len(s) + 1]) \in Seq(Byte)
           /\ Len(Append(s, m[Len(s) + 1])) = Len(s) + 1
           /\ Prefix(Append(s, m[Len(s) + 1]), m)
<1>1. m[Len(s) + 1] \in Byte
  OBVIOUS
<1>. QED  BY <1>1 DEF Prefix

(* A prefix of m as long as m is m: what the size comparison that ends     *)
(* each loop buys.                                                         *)
LEMMA WholePrefix ==
    ASSUME NEW s \in Seq(Byte), NEW m \in Seq(Byte), Len(s) = Len(m),
           Prefix(s, m)
    PROVE  s = m /\ Suffix(s, m, 0)
<1>1. s = m
  BY SeqEqual DEF Prefix
<1>. QED  BY <1>1 DEF Suffix

-------------------------------------------------------------------------------
(* Wires: what one register write does to the FIFO.                        *)

(* A control byte that leaves the selected clock low makes no edge, so the *)
(* FIFO keeps its contents.                                                *)
LEMMA QuietControl ==
    ASSUME TypeInv, NEW b, WriteControl(b),
           \/ CLK_MUX \notin b /\ CLK_FIFO \notin b
           \/ CLK_MUX \in b /\ ~gpio.clk
    PROVE  fifo' = fifo
  BY DEF TypeInv, WriteControl, FifoNext, FifoClk

(* The 0x01, 0x05 pair of the requester's send clocks SPDM_register into   *)
(* the FIFO.                                                               *)
LEMMA SendControl ==
    ASSUME TypeInv, csr.SPDM_FIFO = SendWait, WriteControl(SendWrite),
           Len(fifo) < FifoDepth
    PROVE  fifo' = Append(fifo, csr.SPDM_register)
<1>1. /\ ~FifoClk(csr, gpio) /\ FifoClk(csr', gpio')
      /\ FifoWriteEn(csr, gpio) = TRUE /\ FifoWriteEn(csr', gpio') = TRUE
      /\ FifoReadEn(csr, gpio) = FALSE /\ FifoReadEn(csr', gpio') = FALSE
      /\ FifoDin(csr, gpio) = csr.SPDM_register
      /\ FifoDin(csr', gpio') = csr.SPDM_register
  BY DEF TypeInv, WriteControl, FifoClk, FifoWriteEn, FifoReadEn, FifoDin,
         SendWait, SendWrite, WRITE_EN, READ_EN, CLK_FIFO, READ_MUX, WRITE_MUX,
         CLK_MUX
<1>2. fifo' = FifoEdge(fifo, TRUE, FALSE, csr.SPDM_register)
  BY <1>1 DEF WriteControl, FifoNext
<1>. QED  BY <1>2 DEF FifoEdge

(* The 0x02, 0x06 pair of the requester's receive clocks one word out.     *)
LEMMA RecvControl ==
    ASSUME TypeInv, csr.SPDM_FIFO = RecvWait, WriteControl(RecvRead)
    PROVE  fifo' = Pop(fifo)
<1>1. /\ ~FifoClk(csr, gpio) /\ FifoClk(csr', gpio')
      /\ FifoWriteEn(csr, gpio) = FALSE /\ FifoWriteEn(csr', gpio') = FALSE
      /\ FifoReadEn(csr, gpio) = TRUE /\ FifoReadEn(csr', gpio') = TRUE
  BY DEF TypeInv, WriteControl, FifoClk, FifoWriteEn, FifoReadEn,
         RecvWait, RecvRead, WRITE_EN, READ_EN, CLK_FIFO, READ_MUX, WRITE_MUX,
         CLK_MUX
<1>2. \/ fifo' = FifoEdge(fifo, FALSE, TRUE, FifoDin(csr, gpio))
      \/ fifo' = FifoEdge(fifo, FALSE, TRUE, FifoDin(csr', gpio'))
  BY <1>1 DEF WriteControl, FifoNext
<1>. QED  BY <1>2 DEF FifoEdge, Pop

(* A GPIO write that does not raise the Microblaze's clock leaves the FIFO *)
(* as it is.                                                               *)
LEMMA QuietGpio ==
    ASSUME TypeInv, NEW g, WriteGpio(g), ~g.clk \/ g.clk = gpio.clk
    PROVE  fifo' = fifo
  BY DEF TypeInv, WriteGpio, FifoNext, FifoClk

(* The Microblaze's clock write, with exactly one enable up, clocks the    *)
(* packet register in or one word out.                                     *)
LEMMA ClockGpio ==
    ASSUME TypeInv, csr.SPDM_FIFO = ResponderSignal, ~gpio.clk,
           WriteGpio([gpio EXCEPT !.clk = TRUE]),
           gpio.write_en = ~gpio.read_en,
           gpio.write_en => Len(fifo) < FifoDepth
    PROVE  fifo' = IF gpio.write_en THEN Append(fifo, gpio.packet) ELSE Pop(fifo)
<1>1. /\ ~FifoClk(csr, gpio) /\ FifoClk(csr', gpio')
      /\ FifoWriteEn(csr, gpio) = gpio.write_en
      /\ FifoWriteEn(csr', gpio') = gpio.write_en
      /\ FifoReadEn(csr, gpio) = gpio.read_en
      /\ FifoReadEn(csr', gpio') = gpio.read_en
      /\ FifoDin(csr, gpio) = gpio.packet
      /\ FifoDin(csr', gpio') = gpio.packet
  BY DEF TypeInv, WriteGpio, FifoClk, FifoWriteEn, FifoReadEn, FifoDin,
         ResponderSignal, SPDM_WAIT, READ_MUX, WRITE_MUX, CLK_MUX
<1>2. fifo' = FifoEdge(fifo, gpio.write_en, gpio.read_en, gpio.packet)
  BY <1>1 DEF WriteGpio, FifoNext
<1>3. gpio.write_en \in BOOLEAN /\ gpio.read_en \in BOOLEAN
  BY DEF TypeInv
<1>. QED  BY <1>2, <1>3 DEF FifoEdge, Pop

(* The reset values of the registers and of both programs satisfy IndInv.  *)
LEMMA InitIndInv == Init => IndInv
  BY MailboxAssumption DEF Init, CsrReset, RqReset, IndInv, TypeInv, ControlInv, SendInv, RecvRequestInv,
    RecvResponseInv, RqPc, RsPc, SendPc, Prefix, Suffix, Message, SendWait, SendWrite,
    ResponderSignal, RecvWait, RecvRead

-------------------------------------------------------------------------------
(* The steps of spdm_requester_send_message preserve the invariant.        *)
LEMMA RqSendInv ==
    ASSUME IndInv,
           RqSend \/ RqSendPoll \/ RqSendSize \/ RqSendSelect \/ RqSendLoad
             \/ RqSendRise \/ RqSendFall \/ RqSendSignal
    PROVE  IndInv'
<1> USE MailboxAssumption DEF RqGoto
<1>t. /\ TypeInv /\ fifo \in Seq(Byte) /\ Len(fifo) \in Nat
      /\ rq.data \in Seq(Byte) /\ Len(rq.data) \in 0..MaxLen
      /\ rs.data \in Seq(Byte) /\ Len(rs.data) \in 0..MaxLen
  BY MessageType DEF IndInv, TypeInv
<1>1. CASE RqSend
  <2>0. PICK m \in Message : rq' = [rq EXCEPT !.pc = "sendPoll", !.data = m]
    BY <1>1 DEF RqSend
  <2>1. /\ rq.pc = "idle" /\ rq'.pc = "sendPoll" /\ UNCHANGED <<csr, gpio, fifo, rs, served>>
    BY <1>1, <1>t, <2>0 DEF RqSend, TypeInv
  <2>2. TypeInv'
    BY <2>0, <2>1, <1>t DEF TypeInv, RqPc
  <2>3. ControlInv' /\ SendInv'
    BY <2>1 DEF IndInv, ControlInv, SendInv
  <2>4. RecvRequestInv' /\ RecvResponseInv'
    BY <2>1 DEF IndInv, ControlInv, RecvRequestInv, RecvResponseInv
  <2>. QED  BY <2>2, <2>3, <2>4 DEF IndInv
<1>2. CASE RqSendPoll
  <2>1. /\ rq.pc = "sendPoll" /\ rq'.pc = "sendSize" /\ rq'.data = rq.data
        /\ UNCHANGED <<csr, gpio, fifo, rs, served>> /\ gpio.ready
    BY <1>2, <1>t DEF RqSendPoll, TypeInv
  <2>2. TypeInv'
    BY <1>2, <2>1, <1>t DEF RqSendPoll, TypeInv, RqPc
  <2>3. ControlInv' /\ SendInv'
    BY <2>1 DEF IndInv, ControlInv, SendInv
  <2>4. RecvRequestInv' /\ RecvResponseInv'
    BY <2>1 DEF IndInv, ControlInv, RecvRequestInv, RecvResponseInv
  <2>. QED  BY <2>2, <2>3, <2>4 DEF IndInv
<1>3. CASE RqSendSize
  <2>1. /\ rq.pc = "sendSize" /\ rq'.data = rq.data
        /\ rq'.pc \in {"idle", "sendSelect", "recvPoll"}
        /\ rq'.pc \in {"idle", "recvPoll"} => "requester" \in AllocMayFail
        /\ csr'.SPDM_FIFO = csr.SPDM_FIFO
        /\ csr'.SPDM_requester_control = Len(rq.data)
        /\ UNCHANGED <<gpio, fifo, rs, served>>
    BY <1>3, <1>t DEF RqSendSize, TypeInv
  <2>2. TypeInv'
    <3>1. Len(rq.data) \in 0..MaxLen /\ {"idle", "sendSelect", "recvPoll"} \subseteq RqPc
      BY <1>t DEF RqPc
    <3>. QED  BY <1>3, <2>1, <3>1 , <1>t DEF RqSendSize, TypeInv
  <2>3. ControlInv' /\ SendInv'
    BY <2>1 DEF IndInv, ControlInv, SendInv
  <2>4. RecvRequestInv' /\ RecvResponseInv'
    BY <2>1, <1>t DEF IndInv, ControlInv, SendInv, RecvRequestInv, RecvResponseInv
  <2>. QED  BY <2>2, <2>3, <2>4 DEF IndInv
<1>4. CASE RqSendSelect
  <2>1. /\ rq.pc = "sendSelect" /\ rq'.pc = "sendLoad" /\ rq'.data = rq.data
        /\ rq'.i = 0 /\ UNCHANGED <<gpio, rs, served>>
        /\ csr'.SPDM_FIFO = SendWait
        /\ csr'.SPDM_requester_control = csr.SPDM_requester_control
    BY <1>4, <1>t DEF RqSendSelect, WriteControl, TypeInv
  <2>2. fifo' = << >>
    BY <1>4, <1>t, <2>1, QuietControl
       DEF RqSendSelect, IndInv, SendInv, SendWait, CLK_MUX, CLK_FIFO, WRITE_EN
  <2>3. TypeInv'
    <3>1. 0 \in 0..MaxLen /\ "sendLoad" \in RqPc /\ fifo' \in Seq(Byte)
      BY <2>2 DEF RqPc
    <3>. QED  BY <1>4, <2>1, <3>1, <1>t DEF RqSendSelect, WriteControl, TypeInv
  <2>4. ControlInv'
    BY <2>1 DEF IndInv, ControlInv
  <2>5. SendInv'
    BY <2>1, <2>2, <1>t DEF IndInv, ControlInv, SendInv, Prefix
  <2>6. RecvRequestInv' /\ RecvResponseInv'
    BY <2>1 DEF IndInv, ControlInv, RecvRequestInv, RecvResponseInv
  <2>. QED  BY <2>3, <2>4, <2>5, <2>6 DEF IndInv
<1>5. CASE RqSendLoad
  <2>1. /\ rq.pc = "sendLoad" /\ rq'.pc = "sendRise" /\ rq'.data = rq.data
        /\ rq'.i = rq.i /\ rq.i < Len(rq.data) /\ UNCHANGED <<gpio, rs, served>>
        /\ csr'.SPDM_FIFO = csr.SPDM_FIFO
        /\ csr'.SPDM_requester_control = csr.SPDM_requester_control
        /\ csr'.SPDM_register = rq.data[rq.i + 1]
    BY <1>5, <1>t DEF RqSendLoad, TypeInv
  <2>2. fifo' = fifo
    BY <1>5, <2>1 DEF RqSendLoad, FifoNext, FifoClk
  <2>3. rq.data[rq.i + 1] \in Byte
    BY <2>1, <1>t DEF TypeInv
  <2>4. TypeInv'
    BY <1>5, <2>1, <2>2, <2>3, <1>t DEF RqSendLoad, TypeInv, RqPc
  <2>5. ControlInv'
    BY <2>1 DEF IndInv, ControlInv
  <2>6. SendInv'
    BY <2>1, <2>2, <1>t DEF IndInv, ControlInv, SendInv
  <2>7. RecvRequestInv' /\ RecvResponseInv'
    BY <2>1 DEF IndInv, ControlInv, RecvRequestInv, RecvResponseInv
  <2>. QED  BY <2>4, <2>5, <2>6, <2>7 DEF IndInv
<1>6. CASE RqSendRise
  <2>1. /\ rq.pc = "sendRise" /\ rq'.pc = "sendFall" /\ rq'.data = rq.data
        /\ rq'.i = rq.i /\ UNCHANGED <<gpio, rs, served>>
        /\ csr'.SPDM_FIFO = SendWrite
        /\ csr'.SPDM_requester_control = csr.SPDM_requester_control
    BY <1>6, <1>t DEF RqSendRise, WriteControl, TypeInv
  <2>2. /\ rq.i < Len(rq.data) /\ Len(fifo) = rq.i /\ Prefix(fifo, rq.data)
        /\ csr.SPDM_register = rq.data[Len(fifo) + 1]
    BY <2>1 DEF IndInv, SendInv
  <2>3. fifo' = Append(fifo, rq.data[Len(fifo) + 1])
    BY <1>6, <2>1, <2>2, <1>t, SendControl DEF RqSendRise, IndInv, ControlInv
  <2>4. /\ fifo' \in Seq(Byte) /\ Len(fifo') = rq.i + 1
        /\ Prefix(fifo', rq.data)
    BY <2>2, <2>3, <1>t, AppendPrefix
  <2>5. TypeInv'
    BY <1>6, <2>1, <2>4, <1>t DEF RqSendRise, WriteControl, TypeInv, RqPc
  <2>6. ControlInv'
    BY <2>1 DEF IndInv, ControlInv
  <2>7. SendInv'
    BY <2>1, <2>2, <2>4, <1>t DEF IndInv, ControlInv, SendInv
  <2>8. RecvRequestInv' /\ RecvResponseInv'
    BY <2>1 DEF IndInv, ControlInv, RecvRequestInv, RecvResponseInv
  <2>. QED  BY <2>5, <2>6, <2>7, <2>8 DEF IndInv
<1>7. CASE RqSendFall
  <2>1. /\ rq.pc = "sendFall" /\ rq'.pc = "sendLoad" /\ rq'.data = rq.data
        /\ rq'.i = rq.i + 1 /\ UNCHANGED <<gpio, rs, served>>
        /\ csr'.SPDM_FIFO = SendWait
        /\ csr'.SPDM_requester_control = csr.SPDM_requester_control
    BY <1>7, <1>t DEF RqSendFall, WriteControl, TypeInv
  <2>2. /\ rq.i < Len(rq.data) /\ Len(fifo) = rq.i + 1 /\ Prefix(fifo, rq.data)
    BY <2>1 DEF IndInv, SendInv
  <2>3. fifo' = fifo
    BY <1>7, <1>t, QuietControl
       DEF RqSendFall, SendWait, CLK_MUX, CLK_FIFO, WRITE_EN
  <2>4. TypeInv'
    <3>1. rq.i + 1 \in 0..MaxLen /\ "sendLoad" \in RqPc
      BY <2>2, <1>t DEF TypeInv, RqPc
    <3>. QED  BY <1>7, <2>1, <2>3, <3>1, <1>t DEF RqSendFall, WriteControl, TypeInv
  <2>5. ControlInv'
    BY <2>1 DEF IndInv, ControlInv
  <2>6. SendInv'
    BY <2>1, <2>2, <2>3, <1>t DEF IndInv, TypeInv, ControlInv, SendInv
  <2>7. RecvRequestInv' /\ RecvResponseInv'
    BY <2>1 DEF IndInv, ControlInv, RecvRequestInv, RecvResponseInv
  <2>. QED  BY <2>4, <2>5, <2>6, <2>7 DEF IndInv
<1>8. CASE RqSendSignal
  <2>1. /\ rq.pc = "sendLoad" /\ rq'.pc = "recvPoll" /\ rq'.data = rq.data
        /\ rq.i = Len(rq.data) /\ UNCHANGED <<gpio, rs>> /\ served' = FALSE
        /\ csr'.SPDM_FIFO = ResponderSignal
        /\ csr'.SPDM_requester_control = csr.SPDM_requester_control
    BY <1>8, <1>t DEF RqSendSignal, WriteControl, TypeInv
  <2>2. /\ rs.pc = "recvPoll" /\ ~gpio.clk /\ served
        /\ csr.SPDM_requester_control = Len(rq.data)
    BY <2>1, <1>t DEF IndInv, ControlInv, SendInv, TypeInv
  <2>3. fifo' = fifo
    BY <1>8, <1>t, <2>2, QuietControl DEF RqSendSignal, ResponderSignal, CLK_MUX
  <2>4. Suffix(fifo, rq.data, 0) /\ Len(fifo) = Len(rq.data)
    BY <2>1, <1>t, WholePrefix DEF IndInv, SendInv
  <2>5. TypeInv'
    BY <1>8, <2>1, <2>3, <1>t DEF RqSendSignal, WriteControl, TypeInv, RqPc
  <2>6. ControlInv'
    BY <2>1, <2>2 DEF IndInv, ControlInv
  <2>7. SendInv' /\ RecvResponseInv'
    BY <2>1, <2>2 DEF SendInv, RecvResponseInv
  <2>8. RecvRequestInv'
    BY <2>1, <2>2, <2>3, <2>4, <1>t DEF RecvRequestInv
  <2>. QED  BY <2>5, <2>6, <2>7, <2>8 DEF IndInv
<1>. QED  BY <1>1, <1>2, <1>3, <1>4, <1>5, <1>6, <1>7, <1>8

-------------------------------------------------------------------------------
(* The steps of spdm_requester_receive_message preserve the invariant when *)
(* the ready flag they poll is not the one of the previous exchange.       *)
LEMMA RqRecvInv ==
    ASSUME PromptResponder, IndInv,
           RqRecvPoll \/ RqRecvSelect \/ RqRecvSize \/ RqRecvByte \/ RqRecvRise
             \/ RqRecvFall \/ RqRecvDone
    PROVE  IndInv'
<1> USE MailboxAssumption DEF RqGoto
<1>t. /\ TypeInv /\ fifo \in Seq(Byte) /\ Len(fifo) \in Nat
      /\ rq.buffer \in Seq(Byte) /\ Len(rq.buffer) \in Nat
      /\ rs.data \in Seq(Byte) /\ Len(rs.data) \in 0..MaxLen
  BY MessageType DEF IndInv, TypeInv
<1>1. CASE RqRecvPoll
  <2>1. /\ rq.pc = "recvPoll" /\ rq'.pc = "recvSelect" /\ rq'.data = rq.data
        /\ UNCHANGED <<csr, gpio, fifo, rs, served>> /\ ~StaleReady
    BY <1>1, <1>t DEF RqRecvPoll, TypeInv
  <2>2. served
    BY <2>1 DEF StaleReady, IndInv, ControlInv, ResponderSignal, SPDM_WAIT
  <2>3. TypeInv'
    BY <1>1, <2>1, <1>t DEF RqRecvPoll, TypeInv, RqPc
  <2>4. gpio.ready
    BY <1>1 DEF RqRecvPoll
  <2>5. ControlInv' /\ SendInv'
    BY <2>1, <2>2, <2>4 DEF IndInv, ControlInv, SendInv
  <2>6. RecvRequestInv' /\ RecvResponseInv'
    BY <2>1, <2>2 DEF IndInv, ControlInv, RecvRequestInv, RecvResponseInv
  <2>. QED  BY <2>3, <2>5, <2>6 DEF IndInv
<1>2. CASE RqRecvSelect
  <2>1. /\ rq.pc = "recvSelect" /\ rq'.pc = "recvSize" /\ rq'.data = rq.data
        /\ UNCHANGED <<gpio, rs, served>> /\ csr'.SPDM_FIFO = RecvWait
    BY <1>2, <1>t DEF RqRecvSelect, WriteControl, TypeInv
  <2>2. fifo' = fifo
    BY <1>2, <1>t, QuietControl
       DEF RqRecvSelect, RecvWait, CLK_MUX, CLK_FIFO, READ_EN
  <2>3. TypeInv'
    BY <1>2, <2>1, <2>2, <1>t DEF RqRecvSelect, WriteControl, TypeInv, RqPc
  <2>4. ControlInv' /\ SendInv'
    BY <2>1, <2>2 DEF IndInv, ControlInv, SendInv
  <2>5. RecvRequestInv' /\ RecvResponseInv'
    BY <2>1, <2>2 DEF IndInv, ControlInv, RecvRequestInv, RecvResponseInv
  <2>. QED  BY <2>3, <2>4, <2>5 DEF IndInv
<1>3. CASE RqRecvSize
  <2>1. /\ rq.pc = "recvSize" /\ rq'.pc = "recvByte" /\ rq'.data = rq.data
        /\ rq'.message_size = gpio.counter /\ rq'.buffer = << >>
        /\ UNCHANGED <<csr, gpio, fifo, rs, served>>
    BY <1>3, <1>t DEF RqRecvSize, TypeInv
  <2>2. TypeInv'
    <3>1. /\ << >> \in Seq(Byte) /\ gpio.counter \in 0..MaxLen
          /\ "recvByte" \in RqPc
      BY <1>t DEF TypeInv, RqPc
    <3>. QED  BY <1>3, <2>1, <3>1, <1>t DEF RqRecvSize, TypeInv
  <2>3. ControlInv' /\ SendInv'
    BY <2>1 DEF IndInv, ControlInv, SendInv
  <2>4. RecvRequestInv' /\ RecvResponseInv'
    BY <2>1, <1>t DEF IndInv, ControlInv, RecvRequestInv, RecvResponseInv, Prefix
  <2>. QED  BY <2>2, <2>3, <2>4 DEF IndInv
<1>4. CASE RqRecvByte
  <2>0. PICK b \in Dout :
          rq' = [rq EXCEPT !.pc = "recvRise", !.buffer = Append(@, b)]
    BY <1>4 DEF RqRecvByte
  <2>1. /\ rq.pc = "recvByte" /\ rq'.pc = "recvRise" /\ rq'.data = rq.data
        /\ rq'.message_size = rq.message_size
        /\ rq'.buffer = Append(rq.buffer, b) /\ Len(rq.buffer) < rq.message_size
        /\ UNCHANGED <<csr, gpio, fifo, rs, served>>
    BY <1>4, <1>t, <2>0 DEF RqRecvByte, TypeInv
  <2>2. /\ rq.message_size = Len(rs.data) /\ Len(rq.buffer) < Len(rs.data)
        /\ Len(fifo) + Len(rq.buffer) <= Len(rs.data)
        /\ "requester" \notin AllocMayFail =>
            Prefix(rq.buffer, rs.data) /\ Suffix(fifo, rs.data, Len(rq.buffer))
    BY <2>1 DEF IndInv, RecvResponseInv
  <2>3. b \in Byte
    BY <1>t DEF Dout
  <2>4. /\ rq'.buffer \in Seq(Byte) /\ Len(rq'.buffer) = Len(rq.buffer) + 1
    BY <2>1, <2>3, <1>t
  <2>5. "requester" \notin AllocMayFail => Prefix(rq'.buffer, rs.data)
    <3> SUFFICES ASSUME "requester" \notin AllocMayFail
                 PROVE  Prefix(rq'.buffer, rs.data)
      OBVIOUS
    <3>1. b = rs.data[Len(rq.buffer) + 1]
      BY <2>2, <1>t, HeadSuffix DEF Dout
    <3>. QED  BY <2>1, <2>2, <3>1, <1>t, AppendPrefix
  <2>6. TypeInv'
    BY <2>0, <2>1, <2>4, <1>t DEF TypeInv, RqPc
  <2>7. ControlInv' /\ SendInv'
    BY <2>1 DEF IndInv, ControlInv, SendInv
  <2>8. RecvRequestInv'
    BY <2>1 DEF IndInv, ControlInv, RecvRequestInv
  <2>9. RecvResponseInv'
    <3>1. Len(rq'.buffer) - 1 = Len(rq.buffer)
      BY <2>4, <1>t
    <3>. QED  BY <3>1, <2>1, <2>2, <2>4, <2>5, <1>t DEF RecvResponseInv
  <2>. QED  BY <2>6, <2>7, <2>8, <2>9 DEF IndInv
<1>5. CASE RqRecvRise
  <2>1. /\ rq.pc = "recvRise" /\ rq'.pc = "recvFall" /\ rq'.data = rq.data
        /\ rq'.message_size = rq.message_size /\ rq'.buffer = rq.buffer
        /\ UNCHANGED <<gpio, rs, served>> /\ csr'.SPDM_FIFO = RecvRead
    BY <1>5, <1>t DEF RqRecvRise, WriteControl, TypeInv
  <2>2. /\ rq.message_size = Len(rs.data) /\ Len(rq.buffer) - 1 >= 0
        /\ Len(rq.buffer) <= Len(rs.data)
        /\ Len(fifo) + (Len(rq.buffer) - 1) <= Len(rs.data)
        /\ "requester" \notin AllocMayFail =>
            /\ Prefix(rq.buffer, rs.data)
            /\ Suffix(fifo, rs.data, Len(rq.buffer) - 1)
    BY <2>1 DEF IndInv, RecvResponseInv
  <2>3. fifo' = Pop(fifo)
    BY <1>5, <2>1, <1>t, RecvControl DEF RqRecvRise, IndInv, ControlInv
  <2>4. /\ fifo' \in Seq(Byte)
        /\ Len(fifo') = IF Len(fifo) = 0 THEN 0 ELSE Len(fifo) - 1
    BY <2>3, <1>t, PopType
  <2>5. "requester" \notin AllocMayFail => Suffix(fifo', rs.data, Len(rq.buffer))
    <3>1. /\ Len(rq.buffer) - 1 \in Nat /\ Len(rq.buffer) - 1 < Len(rs.data)
          /\ (Len(rq.buffer) - 1) + 1 = Len(rq.buffer)
      BY <2>2, <1>t
    <3>. QED  BY <3>1, <2>2, <2>3, <1>t, PopSuffix
  <2>6. TypeInv'
    BY <1>5, <2>1, <2>4, <1>t DEF RqRecvRise, WriteControl, TypeInv, RqPc
  <2>7. ControlInv' /\ SendInv'
    BY <2>1 DEF IndInv, ControlInv, SendInv
  <2>8. RecvRequestInv'
    BY <2>1 DEF IndInv, ControlInv, RecvRequestInv
  <2>9. RecvResponseInv'
    <3>1. Len(rq.buffer) >= 0 /\ Len(rq.buffer) <= Len(rs.data)
      BY <2>2, <1>t
    <3>2. Len(fifo') + Len(rq.buffer) <= Len(rs.data)
      <4>1. CASE Len(fifo) = 0
        BY <4>1, <3>1, <2>4, <1>t
      <4>2. CASE Len(fifo) # 0
        BY <4>2, <2>2, <2>4, <1>t
      <4>. QED  BY <4>1, <4>2
    <3>. QED  BY <3>1, <3>2, <2>1, <2>2, <2>5 DEF RecvResponseInv
  <2>. QED  BY <2>6, <2>7, <2>8, <2>9 DEF IndInv
<1>6. CASE RqRecvFall
  <2>1. /\ rq.pc = "recvFall" /\ rq'.pc = "recvByte" /\ rq'.data = rq.data
        /\ rq'.message_size = rq.message_size /\ rq'.buffer = rq.buffer
        /\ UNCHANGED <<gpio, rs, served>> /\ csr'.SPDM_FIFO = RecvWait
    BY <1>6, <1>t DEF RqRecvFall, WriteControl, TypeInv
  <2>2. fifo' = fifo
    BY <1>6, <1>t, QuietControl
       DEF RqRecvFall, RecvWait, CLK_MUX, CLK_FIFO, READ_EN
  <2>3. TypeInv'
    BY <1>6, <2>1, <2>2, <1>t DEF RqRecvFall, WriteControl, TypeInv, RqPc
  <2>4. ControlInv' /\ SendInv'
    BY <2>1 DEF IndInv, ControlInv, SendInv
  <2>5. RecvRequestInv' /\ RecvResponseInv'
    BY <2>1, <2>2 DEF IndInv, ControlInv, RecvRequestInv, RecvResponseInv
  <2>. QED  BY <2>3, <2>4, <2>5 DEF IndInv
<1>7. CASE RqRecvDone
  <2>1. /\ rq.pc = "recvByte" /\ rq'.pc = "idle" /\ rq'.data = rq.data
        /\ Len(rq.buffer) = rq.message_size
        /\ UNCHANGED <<csr, gpio, fifo, rs, served>>
    BY <1>7, <1>t DEF RqRecvDone, TypeInv
  <2>2. fifo = << >>
    <3>1. Len(fifo) = 0
      BY <2>1, <1>t DEF IndInv, RecvResponseInv
    <3>. QED  BY <3>1, <1>t, PopType
  <2>3. TypeInv'
    BY <1>7, <2>1, <1>t DEF RqRecvDone, TypeInv, RqPc
  <2>4. ControlInv' /\ SendInv'
    BY <2>1, <2>2 DEF IndInv, ControlInv, SendInv
  <2>5. RecvRequestInv' /\ RecvResponseInv'
    BY <2>1 DEF IndInv, ControlInv, RecvRequestInv, RecvResponseInv
  <2>. QED  BY <2>3, <2>4, <2>5 DEF IndInv
<1>. QED  BY <1>1, <1>2, <1>3, <1>4, <1>5, <1>6, <1>7

-------------------------------------------------------------------------------
(* The steps of spdm_responder_receive_message (and main's first write)    *)
(* preserve the invariant when the wait bit they poll is not the one of a  *)
(* request already answered.                                               *)
LEMMA RsRecvInv ==
    ASSUME PromptRequester, IndInv,
           RsStart \/ RsRecvPoll \/ RsRecvAck \/ RsRecvSize \/ RsRecvEnable
             \/ RsRecvByte \/ RsRecvRise \/ RsRecvFall \/ RsRecvDone
    PROVE  IndInv'
<1> USE MailboxAssumption DEF RsGoto
<1>t. /\ TypeInv /\ fifo \in Seq(Byte) /\ Len(fifo) \in Nat
      /\ rs.buffer \in Seq(Byte) /\ Len(rs.buffer) \in Nat
      /\ rq.data \in Seq(Byte) /\ Len(rq.data) \in 0..MaxLen
      /\ served \in BOOLEAN
  BY MessageType DEF IndInv, TypeInv
<1>1. CASE RsStart
  <2>1. /\ rs.pc = "init" /\ rs'.pc = "recvPoll" /\ rs'.data = rs.data
        /\ gpio'.ready = TRUE /\ gpio'.clk = gpio.clk
        /\ gpio'.read_en = gpio.read_en /\ gpio'.write_en = gpio.write_en
        /\ gpio'.counter = gpio.counter /\ UNCHANGED <<csr, rq, served>>
    BY <1>1, <1>t DEF RsStart, WriteGpio, TypeInv
  <2>2. fifo' = fifo
    BY <1>1, <1>t, QuietGpio DEF RsStart, TypeInv
  <2>3. TypeInv'
    BY <1>1, <2>1, <2>2, <1>t DEF RsStart, WriteGpio, TypeInv, RsPc
  <2>4. ControlInv' /\ SendInv'
    BY <2>1, <2>2 DEF IndInv, ControlInv, SendInv
  <2>5. RecvRequestInv' /\ RecvResponseInv'
    BY <2>1 DEF IndInv, ControlInv, RecvRequestInv, RecvResponseInv
  <2>. QED  BY <2>3, <2>4, <2>5 DEF IndInv
<1>2. CASE RsRecvPoll
  <2>1. /\ rs.pc = "recvPoll" /\ rs'.pc = "recvAck" /\ rs'.data = rs.data
        /\ UNCHANGED <<csr, gpio, fifo, rq, served>> /\ ~served
    BY <1>2, <1>t DEF RsRecvPoll, StaleWait, TypeInv
  <2>2. TypeInv'
    BY <1>2, <2>1, <1>t DEF RsRecvPoll, TypeInv, RsPc
  <2>3. ControlInv' /\ SendInv'
    BY <2>1 DEF IndInv, ControlInv, SendInv
  <2>4. RecvRequestInv' /\ RecvResponseInv'
    BY <2>1 DEF IndInv, ControlInv, RecvRequestInv, RecvResponseInv
  <2>. QED  BY <2>2, <2>3, <2>4 DEF IndInv
<1>3. CASE RsRecvAck
  <2>1. /\ rs.pc = "recvAck" /\ rs'.pc = "recvSize" /\ rs'.data = rs.data
        /\ gpio'.clk = gpio.clk
        /\ gpio'.read_en = gpio.read_en /\ gpio'.write_en = gpio.write_en
        /\ gpio'.counter = gpio.counter /\ UNCHANGED <<csr, rq, served>>
    BY <1>3, <1>t DEF RsRecvAck, WriteGpio, TypeInv
  <2>2. fifo' = fifo
    BY <1>3, <1>t, QuietGpio DEF RsRecvAck, TypeInv
  <2>3. TypeInv'
    BY <1>3, <2>1, <2>2, <1>t DEF RsRecvAck, WriteGpio, TypeInv, RsPc
  <2>4. ControlInv' /\ SendInv'
    BY <2>1, <2>2 DEF IndInv, ControlInv, SendInv
  <2>5. RecvRequestInv' /\ RecvResponseInv'
    BY <2>1, <2>2 DEF IndInv, ControlInv, RecvRequestInv, RecvResponseInv
  <2>. QED  BY <2>3, <2>4, <2>5 DEF IndInv
<1>4. CASE RsRecvSize
  <2>1. /\ rs.pc = "recvSize" /\ rs'.pc = "recvEnable" /\ rs'.data = rs.data
        /\ rs'.buffer = << >> /\ rs'.message_size = csr.SPDM_requester_control
        /\ UNCHANGED <<csr, gpio, fifo, rq, served>>
    BY <1>4, <1>t DEF RsRecvSize, TypeInv
  <2>2. TypeInv'
    <3>1. /\ << >> \in Seq(Byte) /\ csr.SPDM_requester_control \in 0..MaxLen
          /\ "recvEnable" \in RsPc
      BY <1>t DEF TypeInv, RsPc
    <3>. QED  BY <1>4, <2>1, <3>1, <1>t DEF RsRecvSize, TypeInv
  <2>3. ControlInv' /\ SendInv'
    BY <2>1 DEF IndInv, ControlInv, SendInv
  <2>4. RecvRequestInv' /\ RecvResponseInv'
    BY <2>1, <1>t DEF IndInv, ControlInv, RecvRequestInv, RecvResponseInv, Prefix
  <2>. QED  BY <2>2, <2>3, <2>4 DEF IndInv
<1>5. CASE RsRecvEnable
  <2>1. /\ rs.pc = "recvEnable" /\ rs'.pc = "recvByte" /\ rs'.data = rs.data
        /\ rs'.buffer = rs.buffer /\ rs'.message_size = rs.message_size
        /\ gpio'.clk = gpio.clk
        /\ gpio'.read_en = TRUE /\ gpio'.write_en = gpio.write_en
        /\ gpio'.counter = gpio.counter /\ UNCHANGED <<csr, rq, served>>
    BY <1>5, <1>t DEF RsRecvEnable, WriteGpio, TypeInv
  <2>2. fifo' = fifo
    BY <1>5, <1>t, QuietGpio DEF RsRecvEnable, TypeInv
  <2>3. TypeInv'
    BY <1>5, <2>1, <2>2, <1>t DEF RsRecvEnable, WriteGpio, TypeInv, RsPc
  <2>4. ControlInv' /\ SendInv'
    BY <2>1, <2>2 DEF IndInv, ControlInv, SendInv
  <2>5. RecvRequestInv' /\ RecvResponseInv'
    BY <2>1, <2>2 DEF IndInv, ControlInv, RecvRequestInv, RecvResponseInv
  <2>. QED  BY <2>3, <2>4, <2>5 DEF IndInv
<1>6. CASE RsRecvByte
  <2>0. PICK b \in Dout :
          rs' = [rs EXCEPT !.pc = "recvRise", !.buffer = Append(@, b)]
    BY <1>6 DEF RsRecvByte
  <2>1. /\ rs.pc = "recvByte" /\ rs'.pc = "recvRise" /\ rs'.data = rs.data
        /\ rs'.message_size = rs.message_size
        /\ rs'.buffer = Append(rs.buffer, b) /\ Len(rs.buffer) < rs.message_size
        /\ UNCHANGED <<csr, gpio, fifo, rq, served>>
    BY <1>6, <1>t, <2>0 DEF RsRecvByte, TypeInv
  <2>2. /\ rs.message_size = Len(rq.data) /\ Len(rs.buffer) < Len(rq.data)
        /\ Len(fifo) + Len(rs.buffer) <= Len(rq.data)
        /\ "responder" \notin AllocMayFail =>
            Prefix(rs.buffer, rq.data) /\ Suffix(fifo, rq.data, Len(rs.buffer))
    BY <2>1 DEF IndInv, RecvRequestInv
  <2>3. b \in Byte
    BY <1>t DEF Dout
  <2>4. /\ rs'.buffer \in Seq(Byte) /\ Len(rs'.buffer) = Len(rs.buffer) + 1
    BY <2>1, <2>3, <1>t
  <2>5. "responder" \notin AllocMayFail => Prefix(rs'.buffer, rq.data)
    <3> SUFFICES ASSUME "responder" \notin AllocMayFail
                 PROVE  Prefix(rs'.buffer, rq.data)
      OBVIOUS
    <3>1. b = rq.data[Len(rs.buffer) + 1]
      BY <2>2, <1>t, HeadSuffix DEF Dout
    <3>. QED  BY <2>1, <2>2, <3>1, <1>t, AppendPrefix
  <2>6. TypeInv'
    BY <2>0, <2>1, <2>4, <1>t DEF TypeInv, RsPc
  <2>7. ControlInv' /\ SendInv'
    BY <2>1 DEF IndInv, ControlInv, SendInv
  <2>8. RecvResponseInv'
    BY <2>1 DEF IndInv, ControlInv, RecvResponseInv
  <2>9. RecvRequestInv'
    <3>1. Len(rs'.buffer) - 1 = Len(rs.buffer)
      BY <2>4, <1>t
    <3>2. csr.SPDM_requester_control = Len(rq.data)
      BY <2>1, <1>t DEF IndInv, ControlInv, RecvRequestInv
    <3>. QED  BY <3>1, <3>2, <2>1, <2>2, <2>4, <2>5, <1>t DEF RecvRequestInv
  <2>. QED  BY <2>6, <2>7, <2>8, <2>9 DEF IndInv
<1>7. CASE RsRecvRise
  <2>1. /\ rs.pc = "recvRise" /\ rs'.pc = "recvFall" /\ rs'.data = rs.data
        /\ rs'.message_size = rs.message_size /\ rs'.buffer = rs.buffer
        /\ gpio'.clk = TRUE
        /\ gpio'.read_en = gpio.read_en /\ gpio'.write_en = gpio.write_en
        /\ gpio'.counter = gpio.counter /\ UNCHANGED <<csr, rq, served>>
    BY <1>7, <1>t DEF RsRecvRise, WriteGpio, TypeInv
  <2>2. /\ rs.message_size = Len(rq.data) /\ Len(rs.buffer) - 1 >= 0
        /\ Len(rs.buffer) <= Len(rq.data)
        /\ Len(fifo) + (Len(rs.buffer) - 1) <= Len(rq.data)
        /\ "responder" \notin AllocMayFail =>
            /\ Prefix(rs.buffer, rq.data)
            /\ Suffix(fifo, rq.data, Len(rs.buffer) - 1)
    BY <2>1 DEF IndInv, RecvRequestInv
  <2>a. /\ ~served /\ csr.SPDM_FIFO = ResponderSignal /\ ~gpio.clk
        /\ gpio.read_en = TRUE /\ gpio.write_en = FALSE
        /\ csr.SPDM_requester_control = Len(rq.data)
    BY <2>1, <1>t DEF IndInv, ControlInv, RecvRequestInv, TypeInv
  <2>3. fifo' = Pop(fifo)
    BY <1>7, <2>1, <2>a, <1>t, ClockGpio DEF RsRecvRise
  <2>4. /\ fifo' \in Seq(Byte)
        /\ Len(fifo') = IF Len(fifo) = 0 THEN 0 ELSE Len(fifo) - 1
    BY <2>3, <1>t, PopType
  <2>5. "responder" \notin AllocMayFail => Suffix(fifo', rq.data, Len(rs.buffer))
    <3>1. /\ Len(rs.buffer) - 1 \in Nat /\ Len(rs.buffer) - 1 < Len(rq.data)
          /\ (Len(rs.buffer) - 1) + 1 = Len(rs.buffer)
      BY <2>2, <1>t
    <3>. QED  BY <3>1, <2>2, <2>3, <1>t, PopSuffix
  <2>6. TypeInv'
    BY <1>7, <2>1, <2>4, <1>t DEF RsRecvRise, WriteGpio, TypeInv, RsPc
  <2>7. ControlInv' /\ SendInv'
    BY <2>1, <2>a DEF IndInv, ControlInv, SendInv
  <2>8. RecvResponseInv'
    BY <2>1, <2>a DEF IndInv, ControlInv, RecvResponseInv
  <2>9. RecvRequestInv'
    <3>1. Len(rs.buffer) >= 0 /\ Len(rs.buffer) <= Len(rq.data)
      BY <2>2, <1>t
    <3>2. Len(fifo') + Len(rs.buffer) <= Len(rq.data)
      <4>1. CASE Len(fifo) = 0
        BY <4>1, <3>1, <2>4, <1>t
      <4>2. CASE Len(fifo) # 0
        BY <4>2, <2>2, <2>4, <1>t
      <4>. QED  BY <4>1, <4>2
    <3>. QED  BY <3>1, <3>2, <2>1, <2>2, <2>5, <2>a DEF RecvRequestInv
  <2>. QED  BY <2>6, <2>7, <2>8, <2>9 DEF IndInv
<1>8. CASE RsRecvFall
  <2>1. /\ rs.pc = "recvFall" /\ rs'.pc = "recvByte" /\ rs'.data = rs.data
        /\ rs'.message_size = rs.message_size /\ rs'.buffer = rs.buffer
        /\ gpio'.clk = FALSE
        /\ gpio'.read_en = gpio.read_en /\ gpio'.write_en = gpio.write_en
        /\ gpio'.counter = gpio.counter /\ UNCHANGED <<csr, rq, served>>
    BY <1>8, <1>t DEF RsRecvFall, WriteGpio, TypeInv
  <2>2. fifo' = fifo
    BY <1>8, <1>t, QuietGpio DEF RsRecvFall, TypeInv
  <2>3. TypeInv'
    BY <1>8, <2>1, <2>2, <1>t DEF RsRecvFall, WriteGpio, TypeInv, RsPc
  <2>4. ControlInv' /\ SendInv'
    BY <2>1, <2>2 DEF IndInv, ControlInv, SendInv
  <2>5. RecvRequestInv' /\ RecvResponseInv'
    BY <2>1, <2>2 DEF IndInv, ControlInv, RecvRequestInv, RecvResponseInv
  <2>. QED  BY <2>3, <2>4, <2>5 DEF IndInv
<1>9. CASE RsRecvDone
  <2>1. /\ rs.pc = "recvByte" /\ rs'.pc = "dispatch" /\ rs'.data = rs.data
        /\ rs'.message = rs.buffer /\ Len(rs.buffer) = rs.message_size
        /\ gpio'.clk = gpio.clk
        /\ gpio'.read_en = FALSE /\ gpio'.write_en = gpio.write_en
        /\ gpio'.counter = gpio.counter /\ UNCHANGED <<csr, rq, served>>
    BY <1>9, <1>t DEF RsRecvDone, WriteGpio, TypeInv
  <2>2. fifo' = fifo
    BY <1>9, <1>t, QuietGpio DEF RsRecvDone, TypeInv
  <2>3. fifo = << >>
    <3>1. Len(fifo) = 0
      BY <2>1, <1>t DEF IndInv, RecvRequestInv
    <3>. QED  BY <3>1, <1>t, PopType
  <2>4. "responder" \notin AllocMayFail => rs.buffer = rq.data
    BY <2>1, <1>t, WholePrefix DEF IndInv, RecvRequestInv
  <2>5. TypeInv'
    BY <1>9, <2>1, <2>2, <1>t DEF RsRecvDone, WriteGpio, TypeInv, RsPc
  <2>6. ControlInv' /\ SendInv'
    BY <2>1, <2>2, <2>3 DEF IndInv, ControlInv, SendInv
  <2>7. RecvRequestInv' /\ RecvResponseInv'
    BY <2>1, <2>2, <2>4 DEF IndInv, ControlInv, RecvRequestInv, RecvResponseInv
  <2>. QED  BY <2>5, <2>6, <2>7 DEF IndInv
<1>. QED  BY <1>1, <1>2, <1>3, <1>4, <1>5, <1>6, <1>7, <1>8, <1>9

-------------------------------------------------------------------------------
(* The dispatch and the steps of spdm_responder_send_message preserve the  *)
(* invariant.                                                              *)
LEMMA RsSendInv ==
    ASSUME IndInv,
           RsDispatch \/ RsDispatchNoMemory \/ RsSendEnable \/ RsSendLoad
             \/ RsSendRise \/ RsSendFall \/ RsSendDisable \/ RsSendSignal
    PROVE  IndInv'
<1> USE MailboxAssumption DEF RsGoto
<1>t. /\ TypeInv /\ fifo \in Seq(Byte) /\ Len(fifo) \in Nat
      /\ rs.data \in Seq(Byte) /\ Len(rs.data) \in 0..MaxLen
      /\ rq.data \in Seq(Byte) /\ Len(rq.data) \in 0..MaxLen
  BY MessageType DEF IndInv, TypeInv
<1>c. rs.pc \in {"dispatch"} \cup SendPc =>
        /\ ~served /\ rq.pc = "recvPoll" /\ csr.SPDM_FIFO = ResponderSignal
        /\ csr.SPDM_requester_control = Len(rq.data)
  BY <1>t DEF IndInv, ControlInv, RecvRequestInv, TypeInv, SendPc
<1>1. CASE RsDispatch
  <2>0. PICK m \in Message :
          /\ rs' = [rs EXCEPT !.pc = "sendEnable", !.data = m]
          /\ WriteGpio([gpio EXCEPT !.counter = Len(m)])
    BY <1>1 DEF RsDispatch
  <2>1. /\ rs.pc = "dispatch" /\ rs'.pc = "sendEnable" /\ rs'.data = m
        /\ gpio'.clk = gpio.clk
        /\ gpio'.read_en = gpio.read_en /\ gpio'.write_en = gpio.write_en
        /\ gpio'.counter = Len(m) /\ UNCHANGED <<csr, rq, served>>
    BY <1>1, <2>0, <1>t DEF RsDispatch, WriteGpio, TypeInv
  <2>2. fifo' = fifo
    BY <2>0, <1>t, QuietGpio DEF TypeInv
  <2>3. TypeInv'
    <3>1. Len(m) \in 0..MaxLen /\ "sendEnable" \in RsPc
      BY MessageType DEF RsPc, SendPc
    <3>. QED  BY <2>0, <2>1, <2>2, <3>1, <1>t DEF WriteGpio, TypeInv
  <2>4. ControlInv' /\ SendInv'
    BY <2>1, <2>2, <1>c DEF IndInv, ControlInv, SendInv
  <2>5. RecvRequestInv' /\ RecvResponseInv'
    BY <2>1, <1>c DEF RecvRequestInv, RecvResponseInv
  <2>. QED  BY <2>3, <2>4, <2>5 DEF IndInv
<1>2. CASE RsDispatchNoMemory
  <2>1. /\ rs.pc = "dispatch" /\ rs'.pc = "recvPoll" /\ rs'.data = rs.data
        /\ "responder" \in AllocMayFail
        /\ UNCHANGED <<csr, gpio, fifo, rq, served>>
    BY <1>2, <1>t DEF RsDispatchNoMemory, TypeInv
  <2>2. TypeInv'
    BY <1>2, <2>1, <1>t DEF RsDispatchNoMemory, TypeInv, RsPc
  <2>3. ControlInv' /\ SendInv'
    BY <2>1 DEF IndInv, ControlInv, SendInv
  <2>4. RecvRequestInv' /\ RecvResponseInv'
    <3>1. csr.SPDM_requester_control = Len(rq.data) /\ Len(fifo) <= Len(rq.data)
      BY <2>1, <1>c, <1>t DEF IndInv, SendInv, RecvRequestInv
    <3>. QED  BY <2>1, <3>1, <1>c DEF RecvRequestInv, RecvResponseInv
  <2>. QED  BY <2>2, <2>3, <2>4 DEF IndInv
<1>3. CASE RsSendEnable
  <2>1. /\ rs.pc = "sendEnable" /\ rs'.pc = "sendLoad" /\ rs'.data = rs.data
        /\ rs'.i = 0 /\ gpio'.clk = gpio.clk
        /\ gpio'.read_en = gpio.read_en /\ gpio'.write_en = TRUE
        /\ gpio'.counter = gpio.counter /\ UNCHANGED <<csr, rq, served>>
    BY <1>3, <1>t DEF RsSendEnable, WriteGpio, TypeInv
  <2>2. fifo' = << >>
    BY <1>3, <2>1, <1>t, QuietGpio DEF RsSendEnable, TypeInv, IndInv, SendInv
  <2>3. TypeInv'
    <3>1. 0 \in 0..MaxLen /\ "sendLoad" \in RsPc /\ fifo' \in Seq(Byte)
      BY <2>2 DEF RsPc, SendPc
    <3>. QED  BY <1>3, <2>1, <3>1, <1>t DEF RsSendEnable, WriteGpio, TypeInv
  <2>4. ControlInv'
    BY <2>1, <1>c DEF IndInv, ControlInv, SendPc
  <2>5. SendInv'
    BY <2>1, <2>2, <1>c, <1>t DEF SendInv, Prefix, SendPc
  <2>6. RecvRequestInv' /\ RecvResponseInv'
    BY <2>1, <1>c DEF RecvRequestInv, RecvResponseInv, SendPc
  <2>. QED  BY <2>3, <2>4, <2>5, <2>6 DEF IndInv
<1>4. CASE RsSendLoad
  <2>1. /\ rs.pc = "sendLoad" /\ rs'.pc = "sendRise" /\ rs'.data = rs.data
        /\ rs'.i = rs.i /\ rs.i < Len(rs.data) /\ gpio'.clk = gpio.clk
        /\ gpio'.read_en = gpio.read_en /\ gpio'.write_en = gpio.write_en
        /\ gpio'.counter = gpio.counter /\ gpio'.packet = rs.data[rs.i + 1]
        /\ UNCHANGED <<csr, rq, served>>
    BY <1>4, <1>t DEF RsSendLoad, WriteGpio, TypeInv
  <2>2. fifo' = fifo
    BY <1>4, <1>t, QuietGpio DEF RsSendLoad, TypeInv
  <2>3. rs.data[rs.i + 1] \in Byte
    BY <2>1, <1>t DEF TypeInv
  <2>4. TypeInv'
    BY <1>4, <2>1, <2>2, <2>3, <1>t DEF RsSendLoad, WriteGpio, TypeInv, RsPc, SendPc
  <2>5. ControlInv'
    BY <2>1, <1>c DEF IndInv, ControlInv, SendPc
  <2>6. SendInv'
    BY <2>1, <2>2, <1>c DEF IndInv, SendInv, SendPc
  <2>7. RecvRequestInv' /\ RecvResponseInv'
    BY <2>1, <1>c DEF RecvRequestInv, RecvResponseInv, SendPc
  <2>. QED  BY <2>4, <2>5, <2>6, <2>7 DEF IndInv
<1>5. CASE RsSendRise
  <2>1. /\ rs.pc = "sendRise" /\ rs'.pc = "sendFall" /\ rs'.data = rs.data
        /\ rs'.i = rs.i /\ gpio'.clk = TRUE
        /\ gpio'.read_en = gpio.read_en /\ gpio'.write_en = gpio.write_en
        /\ gpio'.counter = gpio.counter /\ UNCHANGED <<csr, rq, served>>
    BY <1>5, <1>t DEF RsSendRise, WriteGpio, TypeInv
  <2>2. /\ rs.i < Len(rs.data) /\ Len(fifo) = rs.i /\ Prefix(fifo, rs.data)
        /\ gpio.packet = rs.data[Len(fifo) + 1]
    BY <2>1 DEF IndInv, SendInv
  <2>3. /\ csr.SPDM_FIFO = ResponderSignal /\ ~gpio.clk
        /\ gpio.read_en = FALSE /\ gpio.write_en = TRUE
    BY <2>1, <1>c, <1>t DEF IndInv, ControlInv, TypeInv, SendPc
  <2>4. fifo' = Append(fifo, rs.data[Len(fifo) + 1])
    <3>1. Len(fifo) < FifoDepth
      BY <2>2, <1>t
    <3>2. fifo' = Append(fifo, gpio.packet)
      BY <1>5, <2>3, <3>1, <1>t, ClockGpio DEF RsSendRise
    <3>. QED  BY <2>2, <3>2
  <2>5. /\ fifo' \in Seq(Byte) /\ Len(fifo') = rs.i + 1
        /\ Prefix(fifo', rs.data)
    BY <2>2, <2>4, <1>t, AppendPrefix
  <2>6. TypeInv'
    BY <1>5, <2>1, <2>5, <1>t DEF RsSendRise, WriteGpio, TypeInv, RsPc, SendPc
  <2>7. ControlInv'
    BY <2>1, <2>3, <1>c DEF IndInv, ControlInv, SendPc
  <2>8. SendInv'
    BY <2>1, <2>2, <2>5, <1>c, <1>t DEF SendInv, SendPc
  <2>9. RecvRequestInv' /\ RecvResponseInv'
    BY <2>1, <1>c DEF RecvRequestInv, RecvResponseInv, SendPc
  <2>. QED  BY <2>6, <2>7, <2>8, <2>9 DEF IndInv
<1>6. CASE RsSendFall
  <2>1. /\ rs.pc = "sendFall" /\ rs'.pc = "sendLoad" /\ rs'.data = rs.data
        /\ rs'.i = rs.i + 1 /\ gpio'.clk = FALSE
        /\ gpio'.read_en = gpio.read_en /\ gpio'.write_en = gpio.write_en
        /\ gpio'.counter = gpio.counter /\ UNCHANGED <<csr, rq, served>>
    BY <1>6, <1>t DEF RsSendFall, WriteGpio, TypeInv
  <2>2. /\ rs.i < Len(rs.data) /\ Len(fifo) = rs.i + 1 /\ Prefix(fifo, rs.data)
    BY <2>1 DEF IndInv, SendInv
  <2>3. fifo' = fifo
    BY <1>6, <1>t, QuietGpio DEF RsSendFall, TypeInv
  <2>4. TypeInv'
    <3>1. rs.i + 1 \in 0..MaxLen /\ "sendLoad" \in RsPc
      BY <2>2, <1>t DEF TypeInv, RsPc, SendPc
    <3>. QED  BY <1>6, <2>1, <2>3, <3>1, <1>t DEF RsSendFall, WriteGpio, TypeInv
  <2>5. ControlInv'
    BY <2>1, <1>c DEF IndInv, ControlInv, SendPc
  <2>6. SendInv'
    BY <2>1, <2>2, <2>3, <1>c, <1>t DEF SendInv, TypeInv, SendPc
  <2>7. RecvRequestInv' /\ RecvResponseInv'
    BY <2>1, <1>c DEF RecvRequestInv, RecvResponseInv, SendPc
  <2>. QED  BY <2>4, <2>5, <2>6, <2>7 DEF IndInv
<1>7. CASE RsSendDisable
  <2>1. /\ rs.pc = "sendLoad" /\ rs'.pc = "sendSignal" /\ rs'.data = rs.data
        /\ rs.i = Len(rs.data) /\ gpio'.clk = gpio.clk
        /\ gpio'.read_en = gpio.read_en /\ gpio'.write_en = FALSE
        /\ gpio'.counter = gpio.counter /\ UNCHANGED <<csr, rq, served>>
    BY <1>7, <1>t DEF RsSendDisable, WriteGpio, TypeInv
  <2>2. fifo' = fifo
    BY <1>7, <1>t, QuietGpio DEF RsSendDisable, TypeInv
  <2>3. Suffix(fifo, rs.data, 0)
    BY <2>1, <1>t, WholePrefix DEF IndInv, SendInv
  <2>4. TypeInv'
    BY <1>7, <2>1, <2>2, <1>t DEF RsSendDisable, WriteGpio, TypeInv, RsPc, SendPc
  <2>5. ControlInv'
    BY <2>1, <1>c DEF IndInv, ControlInv, SendPc
  <2>6. SendInv'
    BY <2>1, <2>2, <2>3, <1>c DEF SendInv, SendPc
  <2>7. RecvRequestInv' /\ RecvResponseInv'
    BY <2>1, <1>c DEF RecvRequestInv, RecvResponseInv, SendPc
  <2>. QED  BY <2>4, <2>5, <2>6, <2>7 DEF IndInv
<1>8. CASE RsSendSignal
  <2>1. /\ rs.pc = "sendSignal" /\ rs'.pc = "recvPoll" /\ rs'.data = rs.data
        /\ gpio'.clk = gpio.clk
        /\ gpio'.read_en = gpio.read_en /\ gpio'.write_en = gpio.write_en
        /\ gpio'.counter = gpio.counter /\ UNCHANGED <<csr, rq>>
        /\ served' = TRUE
    BY <1>8, <1>t DEF RsSendSignal, WriteGpio, TypeInv
  <2>2. fifo' = fifo
    BY <1>8, <1>t, QuietGpio DEF RsSendSignal, TypeInv
  <2>3. Suffix(fifo, rs.data, 0) /\ Len(fifo) = Len(rs.data)
    BY <2>1, <1>t DEF IndInv, SendInv, Suffix
  <2>4. TypeInv'
    BY <1>8, <2>1, <2>2, <1>t DEF RsSendSignal, WriteGpio, TypeInv, RsPc
  <2>5. ControlInv' /\ SendInv'
    BY <2>1, <1>c DEF IndInv, ControlInv, SendInv, SendPc
  <2>6. RecvRequestInv'
    BY <2>1 DEF RecvRequestInv
  <2>7. RecvResponseInv'
    <3>1. rq'.pc = "recvPoll" /\ Len(fifo') <= Len(rs'.data)
      BY <2>1, <2>2, <2>3, <1>c, <1>t DEF SendPc
    <3>2. Suffix(fifo', rs'.data, 0)
      BY <2>1, <2>2, <2>3
    <3>. QED  BY <3>1, <3>2 DEF RecvResponseInv
  <2>. QED  BY <2>4, <2>5, <2>6, <2>7 DEF IndInv
<1>. QED  BY <1>1, <1>2, <1>3, <1>4, <1>5, <1>6, <1>7, <1>8

-------------------------------------------------------------------------------
(* A reset of the SoC preserves the invariant when the requester is not in *)
(* an exchange: the FIFO is empty then and no clock edge is made.          *)
LEMMA SocResetInv ==
    ASSUME ResetAt \subseteq AtRest, IndInv, SocReset
    PROVE  IndInv'
<1>1. /\ rq.pc \in AtRest /\ rq' = RqReset /\ csr' = CsrReset
      /\ UNCHANGED <<gpio, rs, served>>
  BY DEF SocReset
<1>2. served /\ fifo = << >> /\ csr.SPDM_FIFO \in {{}, RecvWait}
  BY <1>1 DEF IndInv, TypeInv, ControlInv, SendInv
<1>3. fifo' = fifo
  BY <1>1, <1>2 DEF SocReset, FifoNext, FifoClk, CsrReset, CLK_MUX, CLK_FIFO
<1>4. TypeInv'
  BY <1>1, <1>3, MailboxAssumption
     DEF IndInv, TypeInv, RqReset, CsrReset, RqPc, Message
<1>5. ControlInv'
  BY <1>1, <1>2 DEF IndInv, ControlInv, RqReset, CsrReset
<1>6. SendInv'
  BY <1>1, <1>2, <1>3 DEF IndInv, ControlInv, SendInv, RqReset
<1>7. RecvRequestInv' /\ RecvResponseInv'
  BY <1>1, <1>2 DEF IndInv, ControlInv, RecvRequestInv, RecvResponseInv, RqReset
<1>. QED  BY <1>4, <1>5, <1>6, <1>7 DEF IndInv

-------------------------------------------------------------------------------
(* A step that changes no variable preserves the invariant.                *)
LEMMA StutterInv == IndInv /\ UNCHANGED vars => IndInv'
<1> SUFFICES ASSUME IndInv, UNCHANGED vars PROVE IndInv'
  OBVIOUS
<1>1. TypeInv' /\ ControlInv'
  BY DEF IndInv, vars, TypeInv, ControlInv
<1>2. SendInv'
  BY DEF IndInv, vars, SendInv
<1>3. RecvRequestInv' /\ RecvResponseInv'
  BY DEF IndInv, vars, RecvRequestInv, RecvResponseInv
<1>. QED  BY <1>1, <1>2, <1>3 DEF IndInv

(* In an undisturbed mailbox IndInv holds in every reachable state,       *)
(* whichever mallocs fail.                                                 *)
THEOREM Inductive == Undisturbed => (Spec => []IndInv)
<1> SUFFICES ASSUME Undisturbed PROVE Spec => []IndInv
  OBVIOUS
<1>1. Init => IndInv
  BY InitIndInv
<1>2. IndInv /\ [Next]_vars => IndInv'
  BY RqSendInv, RqRecvInv, RsRecvInv, RsSendInv, SocResetInv, StutterInv
     DEF Next, RqStep, RsStep, Undisturbed
<1>. QED  BY <1>1, <1>2, PTL DEF Spec

(* Every register and every local of the four drivers keeps its type.      *)
THEOREM TypeCorrect == Undisturbed => (Spec => []TypeInv)
<1>1. IndInv => TypeInv
  BY DEF IndInv
<1>. QED  BY <1>1, Inductive, PTL

(* The FIFO never has two masters, and its multiplexers point at the one   *)
(* in a transfer - even when mallocs fail on either side.                  *)
THEOREM OneMasterAlways == Undisturbed => (Spec => []OneMaster)
<1>1. IndInv => OneMaster
  BY DEF IndInv, TypeInv, ControlInv, OneMaster, RqDriving, RsDriving, SendPc,
         SendWait, SendWrite, RecvWait, RecvRead, ResponderSignal, WRITE_EN,
         READ_EN, CLK_FIFO, CLK_MUX, SPDM_WAIT, READ_MUX, WRITE_MUX
<1>. QED  BY <1>1, Inductive, PTL

(* Every send starts on an empty FIFO and no write edge meets a full one,  *)
(* even when mallocs fail on either side.                                  *)
THEOREM FifoDiscipline ==
    Undisturbed => (Spec => [](CleanStart /\ NoOverflow))
<1>1. IndInv => CleanStart /\ NoOverflow
  <2> SUFFICES ASSUME IndInv PROVE CleanStart /\ NoOverflow
    OBVIOUS
  <2>1. /\ fifo \in Seq(Byte) /\ Len(fifo) \in Nat
        /\ Len(rq.data) \in 0..MaxLen /\ Len(rs.data) \in 0..MaxLen
        /\ rq.i \in 0..MaxLen /\ rs.i \in 0..MaxLen
    BY MessageType DEF IndInv, TypeInv
  <2>2. CleanStart
    <3>1. rq.pc = "sendLoad" /\ rq.i = 0 => Len(fifo) = 0
      BY <2>1 DEF IndInv, SendInv
    <3>2. Len(fifo) = 0 => fifo = << >>
      BY <2>1, PopType
    <3>. QED  BY <3>1, <3>2 DEF IndInv, SendInv, CleanStart
  <2>3. NoOverflow
    BY <2>1, MailboxAssumption DEF IndInv, SendInv, NoOverflow
  <2>. QED  BY <2>2, <2>3
<1>. QED  BY <1>1, Inductive, PTL

(* Neither receive loop samples an empty FIFO, as long as no malloc fails. *)
THEOREM NeverUnderflows ==
    Undisturbed /\ AllocMayFail = {} => (Spec => []NoUnderflow)
<1> SUFFICES ASSUME Undisturbed, AllocMayFail = {} PROVE Spec => []NoUnderflow
  OBVIOUS
<1>1. IndInv => NoUnderflow
  <2> SUFFICES ASSUME IndInv PROVE NoUnderflow
    OBVIOUS
  <2>1. /\ fifo \in Seq(Byte) /\ rq.data \in Seq(Byte) /\ rs.data \in Seq(Byte)
        /\ Len(rq.buffer) \in Nat /\ Len(rs.buffer) \in Nat
    BY MessageType DEF IndInv, TypeInv
  <2>2. ASSUME rq.pc = "recvByte", Len(rq.buffer) < rq.message_size
        PROVE  fifo # << >>
    <3>1. /\ Suffix(fifo, rs.data, Len(rq.buffer))
          /\ Len(rq.buffer) < Len(rs.data)
      BY <2>2 DEF IndInv, RecvResponseInv
    <3>. QED  BY <2>1, <3>1, HeadSuffix
  <2>3. ASSUME rs.pc = "recvByte", Len(rs.buffer) < rs.message_size
        PROVE  fifo # << >>
    <3>1. /\ Suffix(fifo, rq.data, Len(rs.buffer))
          /\ Len(rs.buffer) < Len(rq.data)
      BY <2>3 DEF IndInv, RecvRequestInv
    <3>. QED  BY <2>1, <3>1, HeadSuffix
  <2>. QED  BY <2>2, <2>3 DEF NoUnderflow
<1>. QED  BY <1>1, Inductive, PTL

(* What the responder dispatches is what the requester sent, byte for      *)
(* byte, as long as the responder's malloc does not fail.                  *)
THEOREM RequestDelivered ==
    Undisturbed /\ "responder" \notin AllocMayFail
      => (Spec => []RequestIntegrity)
<1> SUFFICES ASSUME Undisturbed,
                    "responder" \notin AllocMayFail
             PROVE  Spec => []RequestIntegrity
  OBVIOUS
<1>1. IndInv => RequestIntegrity
  BY DEF IndInv, RecvRequestInv, RequestIntegrity
<1>. QED  BY <1>1, Inductive, PTL

(* What the requester's receive loop ends with is what the responder sent, *)
(* byte for byte, as long as the requester's malloc does not fail - even   *)
(* when the responder's does.                                              *)
THEOREM ResponseDelivered ==
    Undisturbed /\ "requester" \notin AllocMayFail
      => (Spec => []ResponseIntegrity)
<1> SUFFICES ASSUME Undisturbed,
                    "requester" \notin AllocMayFail
             PROVE  Spec => []ResponseIntegrity
  OBVIOUS
<1>1. IndInv => ResponseIntegrity
  <2> SUFFICES ASSUME IndInv, rq.pc = "recvByte", Len(rq.buffer) = rq.message_size
               PROVE  rq.buffer = rs.data
    BY DEF ResponseIntegrity
  <2>1. rq.buffer \in Seq(Byte) /\ rs.data \in Seq(Byte)
    BY MessageType DEF IndInv, TypeInv
  <2>2. Prefix(rq.buffer, rs.data) /\ Len(rq.buffer) = Len(rs.data)
    BY DEF IndInv, RecvResponseInv
  <2>. QED  BY <2>1, <2>2, WholePrefix
<1>. QED  BY <1>1, Inductive, PTL

(* The responder lowers ready only under a waiting, unanswered request.    *)
THEOREM ReadyFalls ==
    Undisturbed => (Spec => ReadyFallsForRequest)
<1> SUFFICES ASSUME Undisturbed
             PROVE  Spec => ReadyFallsForRequest
  OBVIOUS
<1>1. ASSUME IndInv, [Next]_vars, gpio.ready, ~gpio'.ready
      PROVE  SPDM_WAIT \in csr.SPDM_FIFO /\ ~served /\ rq.pc = "recvPoll"
  <2>1. rs.pc = "recvAck"
    <3>0. gpio \in [packet : Byte, write_en : BOOLEAN, read_en : BOOLEAN,
                    clk : BOOLEAN, counter : 0..MaxLen, ready : BOOLEAN]
      BY <1>1 DEF IndInv, TypeInv
    <3>1. CASE RqSend \/ SocReset \/ RqStep
      BY <3>1, <1>1 DEF RqSend, SocReset, RqStep, RqSendPoll, RqSendSize, RqSendSelect,
           RqSendLoad, RqSendRise, RqSendFall, RqSendSignal, RqRecvPoll,
           RqRecvSelect, RqRecvSize, RqRecvByte, RqRecvRise, RqRecvFall,
           RqRecvDone, WriteControl
    <3>2. CASE RsStep
      BY <3>2, <3>0, <1>1 DEF RsStep, RsStart, RsRecvPoll, RsRecvAck, RsRecvSize,
           RsRecvEnable, RsRecvByte, RsRecvRise, RsRecvFall, RsRecvDone,
           RsDispatch, RsDispatchNoMemory, RsSendEnable, RsSendLoad, RsSendRise,
           RsSendFall, RsSendDisable, RsSendSignal, RsGoto, WriteGpio
    <3>3. CASE UNCHANGED vars
      BY <3>3, <1>1 DEF vars
    <3>. QED  BY <3>1, <3>2, <3>3, <1>1 DEF Next
  <2>2. ~served /\ rq.pc = "recvPoll" /\ csr.SPDM_FIFO = ResponderSignal
    BY <2>1, <1>1 DEF IndInv, ControlInv, TypeInv
  <2>. QED  BY <2>2 DEF ResponderSignal
<1>2. IndInv /\ [Next]_vars =>
        [gpio.ready /\ ~gpio.ready'
           => SPDM_WAIT \in csr.SPDM_FIFO /\ ~served /\ rq.pc = "recvPoll"]_vars
  BY <1>1
<1>. QED  BY <1>2, Inductive, PTL DEF Spec, ReadyFallsForRequest

-------------------------------------------------------------------------------
(* Refinement of SpdmChannel.                                              *)

(* A message on its way through a send function is not empty.              *)
DataInv ==
    /\ rq.pc # "idle" => rq.data \in Message
    /\ rs.pc \in SendPc => rs.data \in Message

(* Both programs keep a nonempty message in data for as long as they send  *)
(* it.                                                                     *)
LEMMA DataStep == TypeInv /\ DataInv /\ [Next]_vars => DataInv'
<1> SUFFICES ASSUME TypeInv, DataInv, [Next]_vars PROVE DataInv'
  OBVIOUS
<1> USE DEF DataInv
<1>0. CASE SocReset
  BY <1>0 DEF SocReset, RqReset
<1>1. CASE RqSend
  BY <1>1 DEF RqSend, TypeInv
<1>2. CASE RqStep
  BY <1>2 DEF RqStep, RqSendPoll, RqSendSize, RqSendSelect, RqSendLoad,
       RqSendRise, RqSendFall, RqSendSignal, RqRecvPoll, RqRecvSelect,
       RqRecvSize, RqRecvByte, RqRecvRise, RqRecvFall, RqRecvDone, RqGoto,
       TypeInv
<1>3. CASE RsDispatch
  BY <1>3 DEF RsDispatch, TypeInv
<1>4. CASE RsStep /\ ~RsDispatch
  BY <1>4, ZenonT(40) DEF RsStep, RsStart, RsRecvPoll, RsRecvAck, RsRecvSize, RsRecvEnable,
       RsRecvByte, RsRecvRise, RsRecvFall, RsRecvDone, RsDispatchNoMemory,
       RsSendEnable, RsSendLoad, RsSendRise, RsSendFall, RsSendDisable,
       RsSendSignal, RsGoto, SendPc, TypeInv
<1>5. CASE UNCHANGED vars
  BY <1>5 DEF vars
<1>. QED  BY <1>0, <1>1, <1>2, <1>3, <1>4, <1>5 DEF Next

(* What each side was handed, as the abstract channel sees it.             *)
Heard == [s \in Side |-> IF s = "requester" THEN rq.message ELSE rs.message]
Wire == IF served THEN rs.data ELSE rq.data

(* Every step of the mailbox is a step of the channel or leaves the channel*)
(* as it is.                                                               *)
LEMMA ChannelStep ==
    ASSUME Undisturbed, AllocMayFail = {},
           IndInv, DataInv, [Next]_vars
    PROVE  [Channel!ChanNext]_(Channel!chanVars)
<1> USE DEF RqGoto, RsGoto, SendPc, Undisturbed
<1>t. TypeInv /\ ControlInv /\ SendInv /\ RecvRequestInv
  BY DEF IndInv
<1>q. ASSUME ChannelTurn' = ChannelTurn, Wire' = Wire, Heard' = Heard
      PROVE  UNCHANGED Channel!chanVars
  BY <1>q DEF Wire, Heard, Channel!chanVars
<1>1. CASE RqSend \/ RqSendPoll \/ RqSendSize \/ RqSendSelect \/ RqSendLoad
             \/ RqSendRise \/ RqSendFall
  <2>1. /\ rq.pc \notin {"recvPoll", "recvSelect", "recvSize", "recvByte",
                         "recvRise", "recvFall"}
        /\ rq'.pc \notin {"recvPoll", "recvSelect", "recvSize", "recvByte",
                         "recvRise", "recvFall"}
        /\ rs' = rs /\ served' = served /\ rq'.message = rq.message
    BY <1>1, <1>t, ZenonT(40) DEF RqSend, RqSendPoll, RqSendSize, RqSendSelect,
         RqSendLoad, RqSendRise, RqSendFall, TypeInv
  <2>2. served
    BY <2>1, <1>t DEF ControlInv, TypeInv
  <2>. QED  BY <1>q, <2>1, <2>2 DEF ChannelTurn, Wire, Heard
<1>2. CASE RqRecvPoll \/ RqRecvSelect \/ RqRecvSize \/ RqRecvByte \/ RqRecvRise
             \/ RqRecvFall
  <2>1. /\ rq.pc \in {"recvPoll", "recvSelect", "recvSize", "recvByte",
                      "recvRise", "recvFall"}
        /\ rq'.pc \in {"recvPoll", "recvSelect", "recvSize", "recvByte",
                       "recvRise", "recvFall"}
        /\ rs' = rs /\ served' = served /\ rq'.message = rq.message
        /\ rq'.data = rq.data
    BY <1>2, <1>t DEF RqRecvPoll, RqRecvSelect, RqRecvSize, RqRecvByte,
         RqRecvRise, RqRecvFall, TypeInv
  <2>2. served
    BY <1>2, <1>t DEF RqRecvPoll, RqRecvSelect, RqRecvSize, RqRecvByte,
         RqRecvRise, RqRecvFall, StaleReady, ControlInv, ResponderSignal
  <2>. QED  BY <1>q, <2>1, <2>2 DEF ChannelTurn, Wire, Heard
<1>3. CASE RsStart \/ RsRecvPoll \/ RsRecvAck \/ RsRecvSize \/ RsRecvEnable
             \/ RsRecvByte \/ RsRecvRise \/ RsRecvFall
  <2>1. /\ rs.pc \notin {"dispatch"} \cup SendPc
        /\ rs'.pc \notin {"dispatch"} \cup SendPc
        /\ rq' = rq /\ served' = served /\ rs'.message = rs.message
        /\ rs'.data = rs.data
    BY <1>3, <1>t DEF RsStart, RsRecvPoll, RsRecvAck, RsRecvSize,
         RsRecvEnable, RsRecvByte, RsRecvRise, RsRecvFall, TypeInv
  <2>. QED  BY <1>q, <2>1 DEF ChannelTurn, Wire, Heard
<1>4. CASE RsDispatch \/ RsSendEnable \/ RsSendLoad \/ RsSendRise \/ RsSendFall
             \/ RsSendDisable
  <2>1. /\ rs.pc \in {"dispatch"} \cup SendPc
        /\ rs'.pc \in {"dispatch"} \cup SendPc
        /\ rq' = rq /\ served' = served /\ rs'.message = rs.message
    BY <1>4, <1>t DEF RsDispatch, RsSendEnable, RsSendLoad, RsSendRise,
         RsSendFall, RsSendDisable, TypeInv
  <2>2. ~served
    BY <2>1, <1>t DEF ControlInv
  <2>. QED  BY <1>q, <2>1, <2>2 DEF ChannelTurn, Wire, Heard
<1>5. CASE RqSendSignal
  <2>1. /\ rq.pc = "sendLoad" /\ rq'.pc = "recvPoll" /\ rs' = rs
        /\ served' = FALSE /\ rq'.message = rq.message /\ rq'.data = rq.data
    BY <1>5, <1>t DEF RqSendSignal, TypeInv
  <2>2. served /\ rs.pc = "recvPoll" /\ rq.data \in Message
    BY <2>1, <1>t DEF ControlInv, TypeInv, DataInv
  <2>3. Channel!SendRequest(rq.data)
    BY <2>1, <2>2 DEF Channel!SendRequest, ChannelTurn
  <2>. QED  BY <2>2, <2>3 DEF Channel!ChanNext
<1>6. CASE RsRecvDone
  <2>1. /\ rs.pc = "recvByte" /\ rs'.pc = "dispatch" /\ rq' = rq
        /\ served' = served /\ rs'.message = rs.buffer /\ rs'.data = rs.data
        /\ Len(rs.buffer) = rs.message_size
    BY <1>6, <1>t DEF RsRecvDone, TypeInv
  <2>2. ~served /\ rq.pc = "recvPoll"
    BY <2>1, <1>t DEF ControlInv
  <2>3. rs.buffer = rq.data
    <3>1. rs.buffer \in Seq(Byte) /\ rq.data \in Seq(Byte)
      BY <1>t, MessageType DEF TypeInv
    <3>2. Prefix(rs.buffer, rq.data) /\ Len(rs.buffer) = Len(rq.data)
      BY <2>1, <1>t DEF RecvRequestInv
    <3>. QED  BY <3>1, <3>2, WholePrefix
  <2>4. Channel!HearRequest
    BY <2>1, <2>2, <2>3 DEF Channel!HearRequest, ChannelTurn, Side
  <2>. QED  BY <2>4 DEF Channel!ChanNext
<1>7. CASE RsSendSignal
  <2>1. /\ rs.pc = "sendSignal" /\ rs'.pc = "recvPoll" /\ rq' = rq
        /\ served' = TRUE /\ rs'.message = rs.message /\ rs'.data = rs.data
    BY <1>7, <1>t DEF RsSendSignal, TypeInv
  <2>2. ~served /\ rq.pc = "recvPoll" /\ rs.data \in Message
    BY <2>1, <1>t DEF ControlInv, DataInv
  <2>3. Channel!SendResponse(rs.data)
    BY <2>1, <2>2 DEF Channel!SendResponse, ChannelTurn
  <2>. QED  BY <2>2, <2>3 DEF Channel!ChanNext
<1>8. CASE RqRecvDone
  <2>1. /\ rq.pc = "recvByte" /\ rq'.pc = "idle" /\ rs' = rs
        /\ served' = served /\ rq'.message = rq.buffer /\ rq'.data = rq.data
        /\ Len(rq.buffer) = rq.message_size
    BY <1>8, <1>t DEF RqRecvDone, TypeInv
  <2>2. served
    BY <2>1, <1>t DEF ControlInv
  <2>3. rq.buffer = rs.data
    <3>1. rq.buffer \in Seq(Byte) /\ rs.data \in Seq(Byte)
      BY <1>t, MessageType DEF TypeInv
    <3>2. Prefix(rq.buffer, rs.data) /\ Len(rq.buffer) = Len(rs.data)
      BY <2>1 DEF IndInv, RecvResponseInv
    <3>. QED  BY <3>1, <3>2, WholePrefix
  <2>4. Channel!HearResponse
    BY <2>1, <2>2, <2>3 DEF Channel!HearResponse, ChannelTurn, Side
  <2>. QED  BY <2>4 DEF Channel!ChanNext
<1>9. CASE SocReset
  <2>1. /\ rq.pc \in AtRest /\ rq'.pc = "idle" /\ rs' = rs /\ served' = served
        /\ rq'.message = << >>
    BY <1>9 DEF SocReset, RqReset
  <2>2. served
    BY <2>1, <1>t DEF ControlInv, TypeInv
  <2>3. Channel!Restart
    BY <2>1, <2>2 DEF Channel!Restart, ChannelTurn, Side
  <2>. QED  BY <2>3 DEF Channel!ChanNext
<1>10. CASE UNCHANGED vars
  BY <1>10, <1>q DEF vars, ChannelTurn, Wire, Heard
<1>. QED
  BY <1>1, <1>2, <1>3, <1>4, <1>5, <1>6, <1>7, <1>8, <1>9, <1>10
     DEF Next, RqStep, RsStep, RsDispatchNoMemory

(* The register-level mailbox implements the half-duplex channel: requests *)
(* and responses alternate and each is heard exactly as it was sent.       *)
THEOREM MailboxImplementsChannel ==
    Undisturbed /\ AllocMayFail = {}
      => (Spec => Channel!ChanSafeSpec)
<1> SUFFICES ASSUME Undisturbed, AllocMayFail = {}
             PROVE  Spec => Channel!ChanSafeSpec
  OBVIOUS
<1>1. Init => Channel!ChanInit
  BY DEF Init, RqReset, Channel!ChanInit, ChannelTurn, Side, Channel!Side
<1>2. Init => DataInv
  BY DEF Init, RqReset, DataInv, SendPc
<1>3. IndInv /\ DataInv /\ [Next]_vars => [Channel!ChanNext]_(Channel!chanVars)
  BY ChannelStep
<1>4. IndInv /\ DataInv /\ [Next]_vars => DataInv'
  BY DataStep DEF IndInv
<1>. QED
  BY <1>1, <1>2, <1>3, <1>4, Inductive, PTL DEF Spec, Channel!ChanSafeSpec
===============================================================================
