-------------------------- MODULE SpdmSessionProofs --------------------------
(***************************************************************************)
(* Theorems about SpdmSession, for every heap, every block size and every  *)
(* choice of what may fail.                                                *)
(***************************************************************************)
EXTENDS SpdmSession, TLAPS

USE DEF GET_VERSION, GET_CAPABILITIES, NEGOTIATE_ALGORITHMS, GET_DIGESTS,
        GET_CERTIFICATE, CHALLENGE, GET_MEASUREMENTS, KEY_EXCHANGE, FINISH

(* The calls and their phases, spelt out.                                  *)
LEMMA CallFacts ==
    /\ Call = {"libspdm_init_connection", "libspdm_get_digest",
               "libspdm_get_certificate", "libspdm_challenge",
               "libspdm_get_measurement", "libspdm_start_session"}
    /\ \A c \in Call :
         /\ FirstPhase[c] \in 1..8
         /\ LastPhase[c] \in 3..9
         /\ FirstPhase[c] <= LastPhase[c]
         /\ c # "libspdm_init_connection" => FirstPhase[c] >= 4
         /\ c # "libspdm_start_session" =>
              /\ NextCall[c] \in Call \ {"libspdm_init_connection"}
              /\ FirstPhase[NextCall[c]] = LastPhase[c] + 1
    /\ FirstPhase["libspdm_init_connection"] = 1
    /\ LastPhase["libspdm_init_connection"] = 3
  BY DEF Call, FirstPhase, LastPhase, NextCall

(* The initial state.                                                      *)
LEMMA InitIndInv == Init => IndInv
  <1> SUFFICES ASSUME Init PROVE IndInv
    OBVIOUS
  <1> USE SessionAssumption, CallFacts
      DEF Init, BiosReset, Chan!ChanInit
  <1>1. TypeInv
    BY DEF TypeInv, BiosType, FirmwareType, ExchangeType, HeardType, Phase
  <1>2. ExchangeInv /\ ConnectingInv
    BY DEF ExchangeInv, ConnectingInv, Ended
  <1>3. SuiteInv /\ ReadyInv /\ HeapInv
    BY DEF SuiteInv, ReadyInv, HeapInv
  <1>4. ConnectedAfterInit /\ NoRequestBeforeStart /\ FailureLosesNothing
    BY DEF ConnectedAfterInit, Connected, NoRequestBeforeStart, FailureLosesNothing
  <1> QED
    BY <1>1, <1>2, <1>3, <1>4 DEF IndInv

(* spdm_requester() before its first call of libspdm: no message is under  *)
(* way and nothing is claimed of the connection.                           *)
LEMMA SetUpStep ==
    ASSUME IndInv,
           RqContext \/ RqNoContext \/ RqScratch \/ RqNoScratch
           \/ RqConfigure \/ RqChain \/ RqNoChain
    PROVE  IndInv'
  <1> USE SessionAssumption DEF IndInv, chan
  <1>0. "libspdm_init_connection" \in Call /\ GET_VERSION \in 1..10
    BY CallFacts
  <1>1. turn = "requester"
    BY CallFacts DEF RqContext, RqNoContext, RqScratch, RqNoScratch, RqConfigure, RqChain,
           RqNoChain, ExchangeInv, TypeInv
  <1>2. CASE RqContext
    <2> USE <1>1, <1>2 DEF RqContext
    <2>1. TypeInv'
      <3>1. bios.heap - Size["context"] \in Nat
        BY DEF TypeInv, BiosType, Block
      <3>2. BiosType'
        BY <3>1 DEF TypeInv, BiosType
      <3>3. FirmwareType' /\ ExchangeType' /\ HeardType'
        BY DEF TypeInv, FirmwareType, ExchangeType, HeardType
      <3> QED
        BY <3>2, <3>3 DEF TypeInv
    <2>2. ExchangeInv' /\ ConnectingInv'
      BY CallFacts DEF ExchangeInv, ConnectingInv
    <2>3. SuiteInv' /\ ReadyInv' /\ HeapInv' /\ FailureLosesNothing'
      BY CallFacts DEF SuiteInv, ReadyInv, HeapInv, FailureLosesNothing, TypeInv, BiosType, Common, Block
    <2>4. ConnectedAfterInit' /\ NoRequestBeforeStart'
      BY CallFacts DEF ConnectedAfterInit, Connected, NoRequestBeforeStart
    <2> QED
      BY <2>1, <2>2, <2>3, <2>4
  <1>3. CASE RqNoContext
    <2> USE <1>1, <1>3 DEF RqNoContext
    <2>1. TypeInv'
      BY DEF TypeInv, BiosType, FirmwareType, ExchangeType, HeardType, Block
    <2>2. ExchangeInv' /\ ConnectingInv'
      BY CallFacts DEF ExchangeInv, ConnectingInv
    <2>3. SuiteInv' /\ ReadyInv' /\ HeapInv' /\ FailureLosesNothing'
      BY CallFacts DEF SuiteInv, ReadyInv, HeapInv, FailureLosesNothing, Common, Block
    <2>4. ConnectedAfterInit' /\ NoRequestBeforeStart'
      BY CallFacts DEF ConnectedAfterInit, Connected, NoRequestBeforeStart
    <2> QED
      BY <2>1, <2>2, <2>3, <2>4
  <1>4. CASE RqScratch
    <2> USE <1>1, <1>4 DEF RqScratch
    <2>1. TypeInv'
      <3>1. bios.heap - Size["scratch"] \in Nat
        BY DEF TypeInv, BiosType, Block
      <3>2. BiosType'
        BY <3>1 DEF TypeInv, BiosType
      <3>3. FirmwareType' /\ ExchangeType' /\ HeardType'
        BY DEF TypeInv, FirmwareType, ExchangeType, HeardType
      <3> QED
        BY <3>2, <3>3 DEF TypeInv
    <2>2. ExchangeInv' /\ ConnectingInv'
      BY CallFacts DEF ExchangeInv, ConnectingInv
    <2>3. SuiteInv' /\ ReadyInv' /\ HeapInv' /\ FailureLosesNothing'
      BY CallFacts DEF SuiteInv, ReadyInv, HeapInv, FailureLosesNothing, Common, Block
    <2>4. ConnectedAfterInit' /\ NoRequestBeforeStart'
      BY CallFacts DEF ConnectedAfterInit, Connected, NoRequestBeforeStart
    <2> QED
      BY <2>1, <2>2, <2>3, <2>4
  <1>5. CASE RqNoScratch
    <2> USE <1>1, <1>5 DEF RqNoScratch
    <2>1. TypeInv'
      <3>1. bios.heap + Size["context"] \in Nat
        BY DEF TypeInv, BiosType, Block
      <3>2. BiosType'
        BY <3>1 DEF TypeInv, BiosType
      <3>3. FirmwareType' /\ ExchangeType' /\ HeardType'
        BY DEF TypeInv, FirmwareType, ExchangeType, HeardType
      <3> QED
        BY <3>2, <3>3 DEF TypeInv
    <2>2. ExchangeInv' /\ ConnectingInv'
      BY CallFacts DEF ExchangeInv, ConnectingInv
    <2>3. SuiteInv' /\ ReadyInv' /\ HeapInv' /\ FailureLosesNothing'
      BY CallFacts DEF SuiteInv, ReadyInv, HeapInv, FailureLosesNothing, Common, Block
    <2>4. ConnectedAfterInit' /\ NoRequestBeforeStart'
      BY CallFacts DEF ConnectedAfterInit, Connected, NoRequestBeforeStart
    <2> QED
      BY <2>1, <2>2, <2>3, <2>4
  <1>6. CASE RqConfigure
    <2> USE <1>1, <1>6 DEF RqConfigure
    <2>1. TypeInv'
      BY DEF TypeInv, BiosType, FirmwareType, ExchangeType, HeardType, Block
    <2>2. ExchangeInv' /\ ConnectingInv'
      BY CallFacts DEF ExchangeInv, ConnectingInv
    <2>3. SuiteInv' /\ ReadyInv' /\ HeapInv' /\ FailureLosesNothing'
      BY CallFacts DEF SuiteInv, ReadyInv, HeapInv, FailureLosesNothing, Common, Block
    <2>4. ConnectedAfterInit' /\ NoRequestBeforeStart'
      BY CallFacts DEF ConnectedAfterInit, Connected, NoRequestBeforeStart
    <2> QED
      BY <2>1, <2>2, <2>3, <2>4
  <1>7. CASE RqChain
    <2> USE <1>1, <1>7 DEF RqChain
    <2>1. TypeInv'
      <3>1. bios.heap - Size["chain"] \in Nat
        BY DEF TypeInv, BiosType, Block
      <3>2. BiosType'
        BY ONLY <3>1, <1>0, <1>7, IndInv DEF IndInv, TypeInv, BiosType, RqChain
      <3>3. FirmwareType' /\ ExchangeType' /\ HeardType'
        BY DEF TypeInv, FirmwareType, ExchangeType, HeardType
      <3> QED
        BY <3>2, <3>3 DEF TypeInv
    <2>2. ExchangeInv' /\ ConnectingInv'
      BY CallFacts DEF ExchangeInv, ConnectingInv, Phase
    <2>3. SuiteInv' /\ ReadyInv' /\ HeapInv' /\ FailureLosesNothing'
      BY CallFacts DEF SuiteInv, ReadyInv, HeapInv, FailureLosesNothing, Common, Block
    <2>4. ConnectedAfterInit' /\ NoRequestBeforeStart'
      BY CallFacts DEF ConnectedAfterInit, Connected, NoRequestBeforeStart
    <2> QED
      BY <2>1, <2>2, <2>3, <2>4
  <1>8. CASE RqNoChain
    <2> USE <1>1, <1>8 DEF RqNoChain
    <2>1. TypeInv'
      <3>2. BiosType'
        BY <1>0 DEF TypeInv, BiosType
      <3>3. FirmwareType' /\ ExchangeType' /\ HeardType'
        BY DEF TypeInv, FirmwareType, ExchangeType, HeardType
      <3> QED
        BY <3>2, <3>3 DEF TypeInv
    <2>2. ExchangeInv' /\ ConnectingInv'
      BY CallFacts DEF ExchangeInv, ConnectingInv, Phase
    <2>3. SuiteInv' /\ ReadyInv' /\ HeapInv' /\ FailureLosesNothing'
      BY CallFacts DEF SuiteInv, ReadyInv, HeapInv, FailureLosesNothing, Common, Block
    <2>4. ConnectedAfterInit' /\ NoRequestBeforeStart'
      BY CallFacts DEF ConnectedAfterInit, Connected, NoRequestBeforeStart
    <2> QED
      BY <2>1, <2>2, <2>3, <2>4
  <1> QED
    BY <1>2, <1>3, <1>4, <1>5, <1>6, <1>7, <1>8

(* The calls of libspdm.                                                   *)
LEMMA CallStep ==
    ASSUME IndInv,
           RqRequest \/ RqAccept \/ RqReject
           \/ RqConnectionFailed \/ RqNextCall \/ RqReturn
    PROVE  IndInv'
  <1> USE SessionAssumption, CallFacts DEF IndInv, chan
  <1>1. CASE RqRequest
    <2> USE <1>1 DEF RqRequest, Chan!SendRequest, Request
    <2>1. TypeInv'
      <3>1. BiosType' /\ FirmwareType' /\ HeardType'
        BY DEF TypeInv, BiosType, FirmwareType, HeardType
      <3>2. bios.next \in Phase
        BY DEF TypeInv, BiosType, ExchangeInv, Ended, Phase
      <3>3. ExchangeType'
        BY <3>2 DEF TypeInv, ExchangeType, Message
      <3> QED
        BY <3>1, <3>3 DEF TypeInv
    <2>2. ExchangeInv' /\ ConnectingInv'
      BY DEF ExchangeInv, ConnectingInv, Ended, Phase
    <2>3. SuiteInv' /\ ReadyInv' /\ HeapInv' /\ FailureLosesNothing'
      BY DEF SuiteInv, ReadyInv, HeapInv, FailureLosesNothing, Common
    <2>4. ConnectedAfterInit' /\ NoRequestBeforeStart'
      BY DEF ConnectedAfterInit, Connected, NoRequestBeforeStart, ReadyInv
    <2> QED
      BY <2>1, <2>2, <2>3, <2>4
  <1>2. CASE RqAccept
    <2> USE <1>2 DEF RqAccept, Chan!HearResponse
    <2>1. bios.pc \in Call /\ ~Ended /\ wire.phase = bios.next /\ wire \in Message
      BY DEF ExchangeInv, TypeInv, ExchangeType
    <2>2. bios.next \in FirstPhase[bios.pc]..LastPhase[bios.pc]
      BY <2>1 DEF ExchangeInv, Ended
    <2>3. TypeInv'
      <3>1. BiosType' /\ FirmwareType' /\ ExchangeType'
        BY <2>1, <2>2 DEF TypeInv, BiosType, FirmwareType, ExchangeType, Phase
      <3>2. HeardType'
        BY <2>1 DEF TypeInv, HeardType, Chan!Side
      <3> QED
        BY <3>1, <3>2 DEF TypeInv
    <2>4. ExchangeInv' /\ ConnectingInv'
      BY <2>1, <2>2 DEF ExchangeInv, ConnectingInv, Ended, Phase
    <2>5. SuiteInv'
      BY <2>1 DEF SuiteInv, Common, Message
    <2>6. ReadyInv' /\ HeapInv' /\ FailureLosesNothing'
      BY <2>1 DEF ReadyInv, HeapInv, FailureLosesNothing
    <2>7. ConnectedAfterInit' /\ NoRequestBeforeStart'
      BY <2>1 DEF ConnectedAfterInit, Connected, NoRequestBeforeStart
    <2> QED
      BY <2>3, <2>4, <2>5, <2>6, <2>7
  <1>3. CASE RqReject
    <2> USE <1>3 DEF RqReject, Chan!HearResponse
    <2>1. bios.pc \in Call
      BY DEF ExchangeInv
    <2>2. TypeInv' /\ ExchangeInv' /\ ConnectingInv'
      <3>1. BiosType' /\ FirmwareType' /\ ExchangeType'
        BY ZenonT(40) DEF TypeInv, BiosType, FirmwareType, ExchangeType
      <3>2. HeardType'
        BY DEF TypeInv, ExchangeType, HeardType, Chan!Side
      <3>3. ExchangeInv' /\ ConnectingInv'
        BY <2>1 DEF ExchangeInv, ConnectingInv, TypeInv, FirmwareType
      <3> QED
        BY <3>1, <3>2, <3>3 DEF TypeInv
    <2>3. SuiteInv' /\ ReadyInv' /\ HeapInv' /\ FailureLosesNothing'
      BY <2>1 DEF SuiteInv, ReadyInv, HeapInv, FailureLosesNothing, Common
    <2>4. ConnectedAfterInit' /\ NoRequestBeforeStart'
      BY <2>1 DEF ConnectedAfterInit, Connected, NoRequestBeforeStart
    <2> QED
      BY <2>2, <2>3, <2>4
  <1>4. CASE RqConnectionFailed
    <2> USE <1>4 DEF RqConnectionFailed
    <2>1. turn = "requester"
      BY DEF ExchangeInv, Ended
    <2>2. TypeInv' /\ ExchangeInv' /\ ConnectingInv'
      BY <2>1 DEF TypeInv, BiosType, FirmwareType, ExchangeType, HeardType, ExchangeInv, ConnectingInv
    <2>3. SuiteInv' /\ ReadyInv' /\ HeapInv' /\ FailureLosesNothing'
      BY DEF SuiteInv, ReadyInv, HeapInv, FailureLosesNothing, Common
    <2>4. ConnectedAfterInit' /\ NoRequestBeforeStart'
      BY <2>1 DEF ConnectedAfterInit, Connected, NoRequestBeforeStart
    <2> QED
      BY <2>2, <2>3, <2>4
  <1>5. CASE RqNextCall
    <2> USE <1>5 DEF RqNextCall
    <2>0. /\ bios'.pc \in Call \ {"libspdm_init_connection"}
          /\ bios'.next = FirstPhase[bios'.pc]
          /\ bios'.next \in 1..10
      BY DEF TypeInv, BiosType
    <2>1. TypeInv' /\ ExchangeInv' /\ ConnectingInv'
      <3>1. TypeInv'
        BY <2>0 DEF TypeInv, BiosType, FirmwareType, ExchangeType, HeardType
      <3>2. ExchangeInv'
        BY <2>0 DEF ExchangeInv
      <3>3. ConnectingInv'
        BY <2>0 DEF ConnectingInv
      <3> QED
        BY <3>1, <3>2, <3>3
    <2>2. SuiteInv' /\ ReadyInv' /\ HeapInv' /\ FailureLosesNothing'
      BY DEF SuiteInv, ReadyInv, HeapInv, FailureLosesNothing, Common
    <2>3. ConnectedAfterInit'
      <3>1. CASE bios.pc = "libspdm_init_connection"
        BY <3>1 DEF ConnectedAfterInit, ConnectingInv, ExchangeInv, Ended, Phase
      <3>2. CASE bios.pc # "libspdm_init_connection"
        BY <3>2 DEF ConnectedAfterInit, Connected
      <3> QED
        BY <3>1, <3>2
    <2>4. NoRequestBeforeStart'
      BY DEF NoRequestBeforeStart
    <2> QED
      BY <2>1, <2>2, <2>3, <2>4
  <1>6. CASE RqReturn
    <2> USE <1>6 DEF RqReturn
    <2>1. TypeInv' /\ ExchangeInv' /\ ConnectingInv'
      BY DEF TypeInv, BiosType, FirmwareType, ExchangeType, HeardType, ExchangeInv, ConnectingInv
    <2>2. SuiteInv' /\ ReadyInv' /\ HeapInv' /\ FailureLosesNothing'
      BY DEF SuiteInv, ReadyInv, HeapInv, FailureLosesNothing, Common
    <2>3. ConnectedAfterInit' /\ NoRequestBeforeStart'
      BY DEF ConnectedAfterInit, Connected, NoRequestBeforeStart
    <2> QED
      BY <2>1, <2>2, <2>3
  <1> QED
    BY <1>1, <1>2, <1>3, <1>4, <1>5, <1>6

(* The reset of the SoC takes the BIOS back to its start; the responder    *)
(* keeps its state, of which the BIOS then claims nothing.                 *)
LEMMA ResetStep ==
    ASSUME IndInv, SocReset
    PROVE  IndInv'
  <1> USE SessionAssumption, CallFacts DEF IndInv, SocReset, BiosReset, Chan!Restart
  <1>0. TypeInv'
    <2>1. BiosType' /\ FirmwareType' /\ ExchangeType'
      BY DEF TypeInv, BiosType, FirmwareType, ExchangeType
    <2>2. HeardType'
      BY DEF TypeInv, HeardType, Chan!Side
    <2> QED
      BY <2>1, <2>2 DEF TypeInv
  <1>1. ExchangeInv' /\ ConnectingInv'
    BY DEF TypeInv, FirmwareType, ExchangeInv, ConnectingInv
  <1>2. SuiteInv' /\ ReadyInv' /\ HeapInv' /\ FailureLosesNothing'
    BY DEF SuiteInv, ReadyInv, HeapInv, FailureLosesNothing
  <1>3. ConnectedAfterInit' /\ NoRequestBeforeStart'
    BY DEF ConnectedAfterInit, Connected, NoRequestBeforeStart
  <1> QED
    BY <1>0, <1>1, <1>2, <1>3

(* main() up to the dispatch loop: ready is still down, so no request is   *)
(* under way.                                                              *)
LEMMA FirmwareSetUpStep ==
    ASSUME IndInv,
           FwContext \/ FwScratch \/ FwConfigure \/ FwChain \/ FwNoChain \/ FwStart
    PROVE  IndInv'
  <1> USE SessionAssumption DEF IndInv, chan
  <1>1. turn = "requester"
    BY DEF FwContext, FwScratch, FwConfigure, FwChain, FwNoChain, FwStart,
           NoRequestBeforeStart
  <1>2. CASE FwContext
    <2> USE <1>1, <1>2 DEF FwContext
    <2>1. TypeInv'
      <3>1. Size["context"] <= fw.heap => fw.heap - Size["context"] \in Nat
        BY DEF TypeInv, FirmwareType, Block
      <3>3. CASE Size["context"] <= fw.heap
        BY <3>1, <3>3 DEF TypeInv, BiosType, FirmwareType, ExchangeType, HeardType
      <3>4. CASE ~(Size["context"] <= fw.heap)
        BY <3>1, <3>4 DEF TypeInv, BiosType, FirmwareType, ExchangeType, HeardType
      <3> QED
        BY <3>3, <3>4
    <2>2. ExchangeInv' /\ ConnectingInv'
      BY DEF ExchangeInv, ConnectingInv, TypeInv, FirmwareType, Ended
    <2>3. SuiteInv' /\ ReadyInv' /\ HeapInv' /\ FailureLosesNothing'
      BY DEF SuiteInv, ReadyInv, HeapInv, FailureLosesNothing, TypeInv, FirmwareType, Common
    <2>4. ConnectedAfterInit' /\ NoRequestBeforeStart'
      BY DEF ConnectedAfterInit, Connected, NoRequestBeforeStart, TypeInv, FirmwareType
    <2> QED
      BY <2>1, <2>2, <2>3, <2>4
  <1>3. CASE FwScratch
    <2> USE <1>1, <1>3 DEF FwScratch
    <2>1. TypeInv'
      <3>1. Size["scratch"] <= fw.heap => fw.heap - Size["scratch"] \in Nat
        BY DEF TypeInv, FirmwareType, Block
      <3>2. fw.heap + Size["context"] \in Nat
        BY DEF TypeInv, FirmwareType, Block
      <3>3. CASE Size["scratch"] <= fw.heap
        BY <3>1, <3>2, <3>3 DEF TypeInv, BiosType, FirmwareType, ExchangeType, HeardType
      <3>4. CASE ~(Size["scratch"] <= fw.heap)
        BY <3>1, <3>2, <3>4 DEF TypeInv, BiosType, FirmwareType, ExchangeType, HeardType
      <3> QED
        BY <3>3, <3>4
    <2>2. ExchangeInv' /\ ConnectingInv'
      BY DEF ExchangeInv, ConnectingInv, TypeInv, FirmwareType, Ended
    <2>3. SuiteInv' /\ ReadyInv' /\ HeapInv' /\ FailureLosesNothing'
      BY DEF SuiteInv, ReadyInv, HeapInv, FailureLosesNothing, TypeInv, FirmwareType, Common
    <2>4. ConnectedAfterInit' /\ NoRequestBeforeStart'
      BY DEF ConnectedAfterInit, Connected, NoRequestBeforeStart, TypeInv, FirmwareType
    <2> QED
      BY <2>1, <2>2, <2>3, <2>4
  <1>4. CASE FwConfigure
    <2> USE <1>1, <1>4 DEF FwConfigure
    <2>1. TypeInv'
      BY DEF TypeInv, BiosType, FirmwareType, ExchangeType, HeardType, Block
    <2>2. ExchangeInv' /\ ConnectingInv'
      BY DEF ExchangeInv, ConnectingInv, Ended
    <2>3. SuiteInv' /\ ReadyInv' /\ HeapInv' /\ FailureLosesNothing'
      BY DEF SuiteInv, ReadyInv, HeapInv, FailureLosesNothing, Common
    <2>4. ConnectedAfterInit' /\ NoRequestBeforeStart'
      BY DEF ConnectedAfterInit, Connected, NoRequestBeforeStart
    <2> QED
      BY <2>1, <2>2, <2>3, <2>4
  <1>5. CASE FwChain
    <2> USE <1>1, <1>5 DEF FwChain
    <2>1. TypeInv'
      <3>1. fw.heap - Size["chain"] \in Nat
        BY DEF TypeInv, FirmwareType, Block
      <3>2. FirmwareType'
        BY <3>1 DEF TypeInv, FirmwareType
      <3>3. BiosType' /\ ExchangeType' /\ HeardType'
        BY DEF TypeInv, BiosType, ExchangeType, HeardType
      <3> QED
        BY <3>2, <3>3 DEF TypeInv
    <2>2. ExchangeInv' /\ ConnectingInv'
      BY DEF ExchangeInv, ConnectingInv, Ended
    <2>3. SuiteInv' /\ ReadyInv' /\ HeapInv' /\ FailureLosesNothing'
      BY DEF SuiteInv, ReadyInv, HeapInv, FailureLosesNothing, Common
    <2>4. ConnectedAfterInit' /\ NoRequestBeforeStart'
      BY DEF ConnectedAfterInit, Connected, NoRequestBeforeStart
    <2> QED
      BY <2>1, <2>2, <2>3, <2>4
  <1>6. CASE FwNoChain
    <2> USE <1>1, <1>6 DEF FwNoChain
    <2>1. TypeInv'
      BY DEF TypeInv, BiosType, FirmwareType, ExchangeType, HeardType, Block
    <2>2. ExchangeInv' /\ ConnectingInv'
      BY DEF ExchangeInv, ConnectingInv, Ended
    <2>3. SuiteInv' /\ ReadyInv' /\ HeapInv' /\ FailureLosesNothing'
      BY DEF SuiteInv, ReadyInv, HeapInv, FailureLosesNothing, Common
    <2>4. ConnectedAfterInit' /\ NoRequestBeforeStart'
      BY DEF ConnectedAfterInit, Connected, NoRequestBeforeStart
    <2> QED
      BY <2>1, <2>2, <2>3, <2>4
  <1>7. CASE FwStart
    <2> USE <1>1, <1>7 DEF FwStart
    <2>1. TypeInv'
      BY DEF TypeInv, BiosType, FirmwareType, ExchangeType, HeardType, Block
    <2>2. ExchangeInv' /\ ConnectingInv'
      BY DEF ExchangeInv, ConnectingInv, Ended
    <2>3. SuiteInv' /\ ReadyInv' /\ HeapInv' /\ FailureLosesNothing'
      BY DEF SuiteInv, ReadyInv, HeapInv, FailureLosesNothing, Common
    <2>4. ConnectedAfterInit' /\ NoRequestBeforeStart'
      BY DEF ConnectedAfterInit, Connected, NoRequestBeforeStart
    <2> QED
      BY <2>1, <2>2, <2>3, <2>4
  <1> QED
    BY <1>2, <1>3, <1>4, <1>5, <1>6, <1>7

(* The dispatch loop: the request served is the one the BIOS has sent, so  *)
(* the responder is never taken back behind a requester that has gone on.  *)
LEMMA DispatchStep ==
    ASSUME IndInv, FwHear \/ FwServe \/ FwRefuse \/ FwBreak
    PROVE  IndInv'
  <1> USE SessionAssumption, CallFacts DEF IndInv, chan
  <1>1. CASE FwHear
    <2> USE <1>1 DEF FwHear, Chan!HearRequest
    <2>1. TypeInv'
      BY DEF TypeInv, BiosType, FirmwareType, ExchangeType, HeardType
    <2>2. ExchangeInv' /\ ConnectingInv'
      <3>1. ExchangeInv'
        BY DEF ExchangeInv, TypeInv, FirmwareType, ExchangeType, HeardType, Ended, Chan!Side
      <3>2. ConnectingInv'
        BY DEF ConnectingInv, TypeInv, FirmwareType
      <3> QED
        BY <3>1, <3>2
    <2>3. SuiteInv' /\ ReadyInv' /\ HeapInv' /\ FailureLosesNothing'
      BY DEF SuiteInv, ReadyInv, HeapInv, FailureLosesNothing, Common
    <2>4. ConnectedAfterInit' /\ NoRequestBeforeStart'
      BY DEF ConnectedAfterInit, Connected, NoRequestBeforeStart
    <2> QED
      BY <2>1, <2>2, <2>3, <2>4
  <1>2. CASE FwServe
    <2> DEFINE p == heard["responder"].phase
    <2>1. /\ bios.pc \in Call
          /\ ~Ended
          /\ p = bios.next
          /\ p \in FirstPhase[bios.pc]..LastPhase[bios.pc]
          /\ turn = "responder"
      BY <1>2 DEF FwServe, ExchangeInv, Ended
    <2>2. /\ fw' = [fw EXCEPT !.pc = "dispatch", !.ready = TRUE, !.conn = p]
          /\ wire' = [phase |-> p, answer |-> "ok"]
          /\ turn' = "toRequester"
          /\ UNCHANGED <<bios, done, heard>>
      BY <1>2 DEF FwServe, Chan!SendResponse
    <2>3. /\ p = NEGOTIATE_ALGORITHMS => \A a \in Algorithms : agreed'[a] \in Common(a)
          /\ p # NEGOTIATE_ALGORITHMS => agreed' = agreed
          /\ agreed' \in [Algorithms -> Algorithm \union {"none"}]
      BY <1>2 DEF FwServe, TypeInv, ExchangeType
    <2> HIDE DEF p
    <2>4. TypeInv'
      <3>1. p \in 0..9 /\ p \in Phase
        BY <2>1 DEF TypeInv, BiosType, Phase
      <3>2. BiosType' /\ FirmwareType'
        BY <2>2, <3>1 DEF TypeInv, BiosType, FirmwareType
      <3>3. ExchangeType' /\ HeardType'
        BY <2>1, <2>2, <2>3, <3>1 DEF TypeInv, ExchangeType, HeardType, Message
      <3> QED
        BY <3>2, <3>3 DEF TypeInv
    <2>5. ExchangeInv' /\ ConnectingInv'
      BY <2>1, <2>2 DEF ExchangeInv, ConnectingInv, Ended
    <2>6. SuiteInv'
      BY <2>1, <2>2, <2>3 DEF SuiteInv, Common
    <2>7. ReadyInv' /\ HeapInv' /\ FailureLosesNothing'
      BY <2>1, <2>2 DEF ReadyInv, HeapInv, FailureLosesNothing
    <2>8. ConnectedAfterInit' /\ NoRequestBeforeStart'
      BY <2>1, <2>2 DEF ConnectedAfterInit, Connected, NoRequestBeforeStart
    <2> QED
      BY <2>4, <2>5, <2>6, <2>7, <2>8
  <1>3. CASE FwRefuse
    <2> DEFINE p == heard["responder"].phase
    <2>1. /\ bios.pc \in Call
          /\ ~Ended
          /\ p = bios.next
          /\ p \in FirstPhase[bios.pc]..LastPhase[bios.pc]
          /\ turn = "responder"
      BY <1>3 DEF FwRefuse, ExchangeInv, Ended
    <2>2. /\ fw' = [fw EXCEPT !.pc = "dispatch", !.ready = TRUE,
                              !.fault = @ \/ Serves(p)]
          /\ wire' = [phase |-> p, answer |-> "error"]
          /\ turn' = "toRequester"
          /\ UNCHANGED <<bios, done, heard, agreed>>
      BY <1>3 DEF FwRefuse, Chan!SendResponse
    <2> HIDE DEF p
    <2>3. TypeInv'
      <3>1. p \in 0..9 /\ p \in Phase
        BY <2>1 DEF TypeInv, BiosType, Phase
      <3>2. BiosType' /\ FirmwareType'
        BY <2>2, <3>1 DEF TypeInv, BiosType, FirmwareType
      <3>3. ExchangeType' /\ HeardType'
        BY <2>1, <2>2, <3>1 DEF TypeInv, ExchangeType, HeardType, Message
      <3> QED
        BY <3>2, <3>3 DEF TypeInv
    <2>4. ExchangeInv' /\ ConnectingInv'
      BY <2>1, <2>2 DEF ExchangeInv, ConnectingInv, Ended
    <2>5. SuiteInv'
      BY <2>1, <2>2 DEF SuiteInv, Common
    <2>6. ReadyInv' /\ HeapInv' /\ FailureLosesNothing'
      BY <2>1, <2>2 DEF ReadyInv, HeapInv, FailureLosesNothing
    <2>7. ConnectedAfterInit' /\ NoRequestBeforeStart'
      BY <2>1, <2>2 DEF ConnectedAfterInit, Connected, NoRequestBeforeStart
    <2> QED
      BY <2>3, <2>4, <2>5, <2>6, <2>7
  <1>4. CASE FwBreak
    <2> USE <1>4 DEF FwBreak
    <2>1. TypeInv'
      BY DEF TypeInv, BiosType, FirmwareType, ExchangeType, HeardType
    <2>2. ExchangeInv' /\ ConnectingInv'
      BY DEF ExchangeInv, ConnectingInv, Ended
    <2>3. SuiteInv' /\ ReadyInv' /\ HeapInv' /\ FailureLosesNothing'
      BY DEF SuiteInv, ReadyInv, HeapInv, FailureLosesNothing, Common
    <2>4. ConnectedAfterInit' /\ NoRequestBeforeStart'
      BY DEF ConnectedAfterInit, Connected, NoRequestBeforeStart
    <2> QED
      BY <2>1, <2>2, <2>3, <2>4
  <1> QED
    BY <1>1, <1>2, <1>3, <1>4

(* IndInv is an invariant of the two programs.                             *)
THEOREM SessionInductive == Spec => []IndInv
  <1>1. IndInv /\ [Next]_vars => IndInv'
    <2> SUFFICES ASSUME IndInv, [Next]_vars PROVE IndInv'
      OBVIOUS
    <2>1. CASE UNCHANGED vars
      BY <2>1 DEF vars, chan, IndInv, TypeInv, BiosType, FirmwareType, ExchangeType,
                  HeardType, ExchangeInv, Ended, ConnectingInv, SuiteInv, ReadyInv,
                  HeapInv, ConnectedAfterInit, Connected, NoRequestBeforeStart,
                  FailureLosesNothing
    <2>2. CASE Next
      BY <2>2, SetUpStep, CallStep, ResetStep, FirmwareSetUpStep, DispatchStep
         DEF Next, RqStep, FwStep
    <2> QED
      BY <2>1, <2>2
  <1> QED
    BY InitIndInv, <1>1, PTL DEF Spec

(* Every variable of the two programs keeps its type.                      *)
THEOREM SessionTypes == Spec => []TypeInv
  <1>1. IndInv => TypeInv
    BY DEF IndInv
  <1> QED
    BY SessionInductive, <1>1, PTL

(* A call of spdm_requester() that returns NULL has given back every block *)
(* it had allocated.                                                       *)
THEOREM NothingLost == Spec => []FailureLosesNothing
  <1>1. IndInv => FailureLosesNothing
    BY DEF IndInv
  <1> QED
    BY SessionInductive, <1>1, PTL

(* Past libspdm_init_connection, whatever failed before or fails later and *)
(* however often the SoC was reset, both sides are connected.              *)
THEOREM AlwaysConnected == Spec => []ConnectedAfterInit
  <1>1. IndInv => ConnectedAfterInit
    BY DEF IndInv
  <1> QED
    BY SessionInductive, <1>1, PTL

(* No request reaches a firmware that is still in its set-up.              *)
THEOREM StartedFirst == Spec => []NoRequestBeforeStart
  <1>1. IndInv => NoRequestBeforeStart
    BY DEF IndInv
  <1> QED
    BY SessionInductive, <1>1, PTL

(* The two lists of offers leave one suite, and it is the documented one.  *)
THEOREM SuiteAsDocumented == Spec => []AgreedSuite
  <1>1. IndInv => AgreedSuite
    <2>1. {"hash", "asym", "aead"} \subseteq Algorithms
      BY DEF Algorithms, ResponderAlgorithms
    <2>2. /\ Common("hash") = {"SHA_256"}
          /\ Common("asym") = {"RSASSA_2048"}
          /\ Common("aead") = {"CHACHA20_POLY1305"}
      BY DEF Common, RequesterAlgorithms, ResponderAlgorithms
    <2> QED
      BY <2>1, <2>2 DEF IndInv, SuiteInv, AgreedSuite, m_use_hash_algo
  <1> QED
    BY SessionInductive, <1>1, PTL

-------------------------------------------------------------------------------
(* A call in which nothing fails.                                          *)

Clean == ~fw.fault /\ ~bios.fault

(* A firmware that got through its set-up without a fault has its flags    *)
(* and its chain; the requester has its flags before it connects.          *)
SetUpInv ==
    /\ fw.pc \in {"chain", "start", "dispatch", "process"}
         => fw.caps = m_use_responder_capability_flags
    /\ fw.pc \in {"start", "dispatch", "process"} /\ ~fw.fault => fw.chain
    /\ bios.pc \in Call \union {"chain"} => bios.caps = m_use_requester_capability_flags

(* While nothing has failed no phase is skipped, and the responder is      *)
(* exactly one phase behind the one to be asked for, until it has served   *)
(* it: in all of the calls, not only in libspdm_init_connection.           *)
InStepInv ==
    Clean /\ bios.pc \in Call =>
        /\ bios.status = "ok"
        /\ \A p \in Phase : p < bios.next => p \in done
        /\ IF turn = "toRequester"
           THEN wire.answer = "ok" /\ fw.conn = bios.next
           ELSE bios.next > GET_VERSION => fw.conn = bios.next - 1

CleanInv == SetUpInv /\ InStepInv /\ CleanCallCompletes

(* A firmware in its dispatch loop serves what a requester in step asks.   *)
LEMMA CleanServes ==
    ASSUME IndInv, CleanInv, Clean, fw.pc = "process"
    PROVE  Serves(heard["responder"].phase)
  <1> DEFINE p == heard["responder"].phase
  <1>1. bios.pc \in Call /\ turn = "responder" /\ p = bios.next /\ p \in 1..9
    BY CallFacts DEF IndInv, ExchangeInv, Ended, TypeInv, BiosType
  <1>2. p > GET_VERSION => fw.conn = p - 1
    BY <1>1 DEF CleanInv, InStepInv
  <1>3. fw.chain /\ fw.caps = m_use_responder_capability_flags
    BY DEF CleanInv, SetUpInv, Clean
  <1> HIDE DEF p
  <1>4. ResponderNeeds(p) \union BothNeed(p) \subseteq fw.caps
    BY <1>1, <1>3 DEF ResponderNeeds, BothNeed, m_use_responder_capability_flags
  <1>5. \A a \in Algorithms : Common(a) # {}
    BY DEF Algorithms, Common, RequesterAlgorithms, ResponderAlgorithms
  <1>6. p \in {GET_CAPABILITIES, NEGOTIATE_ALGORITHMS, FINISH} => fw.conn = p - 1
    BY <1>1, <1>2
  <1>7. p \in GET_DIGESTS..KEY_EXCHANGE => fw.conn >= NEGOTIATE_ALGORITHMS /\ fw.chain
    BY <1>1, <1>2, <1>3
  <1>8. Serves(p)
    BY <1>4, <1>5, <1>6, <1>7 DEF Serves
  <1> QED
    BY <1>8 DEF p

(* And the requester accepts what it is answered.                          *)
LEMMA CleanAcceptable ==
    ASSUME IndInv, CleanInv, Clean, turn = "toRequester"
    PROVE  wire.answer = "ok" /\ Acceptable(bios.next)
  <1>1. bios.pc \in Call /\ bios.next \in 1..9
    BY CallFacts DEF IndInv, ExchangeInv, Ended, TypeInv, BiosType
  <1>2. wire.answer = "ok" /\ \A p \in Phase : p < bios.next => p \in done
    BY <1>1 DEF CleanInv, InStepInv
  <1>3. BothNeed(bios.next) \subseteq bios.caps
    BY <1>1 DEF CleanInv, SetUpInv, BothNeed, m_use_requester_capability_flags
  <1>4. bios.next >= GET_DIGESTS => GET_VERSION..NEGOTIATE_ALGORITHMS \subseteq done
    BY <1>1, <1>2 DEF Phase
  <1>5. bios.next >= GET_CERTIFICATE => agreed["hash"] = m_use_hash_algo
    <2>1. "hash" \in Algorithms /\ Common("hash") = {"SHA_256"}
      BY DEF Algorithms, Common, RequesterAlgorithms, ResponderAlgorithms
    <2>2. bios.next >= GET_CERTIFICATE => NEGOTIATE_ALGORITHMS \in done
      BY <1>1, <1>2 DEF Phase
    <2> QED
      BY <2>1, <2>2 DEF IndInv, SuiteInv, m_use_hash_algo
  <1> QED
    BY <1>2, <1>3, <1>4, <1>5 DEF Acceptable

(* The steps of the BIOS.                                                  *)
LEMMA CleanBiosStep ==
    ASSUME IndInv, CleanInv, RqContext \/ RqNoContext \/ RqStep \/ SocReset
    PROVE  CleanInv'
  <1> USE DEF chan
  <1>1. /\ bios.pc \notin Call => turn = "requester"
        /\ bios.pc \in Call => bios.next \in FirstPhase[bios.pc]..LastPhase[bios.pc] + 1
        /\ BiosType /\ fw.fault \in BOOLEAN
    BY DEF IndInv, ExchangeInv, TypeInv, FirmwareType
  <1>2. "out" \notin Call /\ "scratch" \notin Call /\ "configure" \notin Call
        /\ "chain" \notin Call /\ "hang" \notin Call
    BY CallFacts
  <1>3. CASE RqContext \/ RqNoContext \/ RqScratch \/ RqNoScratch
    <2>1. /\ bios.pc \notin Call /\ bios'.pc \in {"out", "scratch", "configure"} /\ fw' = fw
          /\ bios'.pc = "out" => bios'.fault
      BY <1>1, <1>2, <1>3, ZenonT(40) DEF RqContext, RqNoContext, RqScratch, RqNoScratch, BiosType
    <2>2. bios'.pc \notin Call \union {"chain"}
      BY <1>2, <2>1
    <2>3. SetUpInv'
      BY <2>1, <2>2 DEF CleanInv, SetUpInv
    <2>4. InStepInv'
      BY <2>2 DEF InStepInv
    <2>5. CleanCallCompletes'
      BY <2>1 DEF CleanCallCompletes
    <2> QED
      BY <2>3, <2>4, <2>5 DEF CleanInv
  <1>4. CASE RqConfigure
    BY <1>1, <1>2, <1>4 DEF CleanInv, SetUpInv, InStepInv, CleanCallCompletes, BiosType, RqConfigure
  <1>5. CASE RqChain \/ RqNoChain
    <2>1. /\ bios'.pc = "libspdm_init_connection" /\ bios'.next = GET_VERSION
          /\ bios'.status = "ok" /\ bios'.caps = bios.caps /\ bios.pc = "chain"
          /\ UNCHANGED <<fw, turn, done>>
      BY <1>1, <1>5 DEF RqChain, RqNoChain, BiosType
    <2>2. SetUpInv'
      BY <2>1 DEF CleanInv, SetUpInv
    <2>3. InStepInv'
      BY <1>1, <1>2, <2>1 DEF InStepInv, Phase
    <2> QED
      BY <2>1, <2>2, <2>3 DEF CleanInv, CleanCallCompletes
  <1>6. CASE RqRequest
    <2>1. bios' = bios /\ fw' = fw /\ done' = done /\ turn = "requester" /\ turn' = "toResponder"
      BY <1>6 DEF RqRequest, Chan!SendRequest
    <2> QED
      BY <2>1 DEF CleanInv, SetUpInv, InStepInv, CleanCallCompletes, Clean
  <1>7. CASE RqAccept
    <2>1. /\ turn = "toRequester" /\ turn' = "requester" /\ fw' = fw
          /\ done' = done \union {bios.next} /\ bios' = [bios EXCEPT !.next = @ + 1]
      BY <1>7 DEF RqAccept, Chan!HearResponse
    <2>2. bios.pc \in Call /\ bios.next \in 1..9
      BY <2>1, CallFacts DEF IndInv, ExchangeInv, Ended, TypeInv, BiosType
    <2>3. /\ bios'.pc = bios.pc /\ bios'.next = bios.next + 1 /\ bios'.status = bios.status
          /\ bios'.caps = bios.caps /\ bios'.fault = bios.fault
      BY <1>1, <2>1 DEF BiosType
    <2>4. SetUpInv'
      BY <2>1, <2>3 DEF CleanInv, SetUpInv
    <2>5. InStepInv'
      <3> SUFFICES ASSUME Clean'
                   PROVE  /\ bios'.status = "ok" /\ fw'.conn = bios'.next - 1
                          /\ \A p \in Phase : p < bios'.next => p \in done'
        BY <2>1 DEF InStepInv
      <3>1. bios.status = "ok" /\ fw.conn = bios.next /\ \A p \in Phase : p < bios.next => p \in done
        BY <2>1, <2>2, <2>3 DEF CleanInv, InStepInv, Clean
      <3>2. \A p \in Phase : p < bios.next + 1 => p \in done'
        BY <2>1, <2>2, <3>1 DEF Phase
      <3> QED
        BY <2>1, <2>2, <2>3, <3>1, <3>2
    <2>6. CleanCallCompletes'
      BY <1>2, <2>2, <2>3 DEF CleanCallCompletes
    <2> QED
      BY <2>4, <2>5, <2>6 DEF CleanInv
  <1>8. CASE RqReject
    <2>1. /\ turn = "toRequester" /\ fw' = fw /\ bios.pc \in Call
          /\ bios' = [bios EXCEPT !.status = "error",
                !.fault = @ \/ (wire.answer = "ok" /\ Acceptable(bios.next))]
      BY <1>8 DEF RqReject, Chan!HearResponse, IndInv, ExchangeInv
    <2>2. ~Clean'
      <3>1. CASE Clean
        <4>1. wire.answer = "ok" /\ Acceptable(bios.next)
          BY <2>1, <3>1, CleanAcceptable
        <4>2. bios'.fault
          BY <1>1, <2>1, <4>1 DEF BiosType
        <4> QED
          BY <4>2 DEF Clean
      <3>2. CASE ~Clean
        <4>1. bios.fault => bios'.fault
          BY <1>1, <2>1 DEF BiosType
        <4> QED
          BY <2>1, <3>2, <4>1 DEF Clean
      <3> QED
        BY <3>1, <3>2
    <2>3. bios'.pc = bios.pc /\ bios'.caps = bios.caps
      BY <1>1, <2>1 DEF BiosType
    <2> QED
      BY <2>1, <2>2, <2>3 DEF CleanInv, SetUpInv, InStepInv, CleanCallCompletes, Clean
  <1>9. CASE RqConnectionFailed
    BY <1>1, <1>2, <1>9 DEF CleanInv, SetUpInv, InStepInv, CleanCallCompletes, BiosType,
           RqConnectionFailed
  <1>10. CASE RqNextCall
    <2>1. /\ bios.pc \in Call \ {"libspdm_start_session"} /\ turn = "requester" /\ Ended
          /\ UNCHANGED <<fw, done, turn>>
      BY <1>10 DEF RqNextCall
    <2>2. /\ bios'.pc = NextCall[bios.pc] /\ bios'.next = FirstPhase[NextCall[bios.pc]]
          /\ bios'.status = "ok" /\ bios'.caps = bios.caps /\ bios'.fault = bios.fault
      BY <1>1, <1>10 DEF RqNextCall, BiosType
    <2>3. bios'.pc \in Call /\ bios'.next = LastPhase[bios.pc] + 1
      BY <2>1, <2>2, CallFacts
    <2>4. bios.status = "ok" => bios'.next = bios.next
      <3>1. bios.status = "ok" => bios.next > LastPhase[bios.pc]
        BY <2>1 DEF Ended
      <3>2. LastPhase[bios.pc] \in 3..9 /\ FirstPhase[bios.pc] \in 1..8
        BY <2>1, CallFacts
      <3> QED
        BY <1>1, <2>1, <2>3, <3>1, <3>2
    <2>5. SetUpInv'
      BY <2>1, <2>2, <2>3 DEF CleanInv, SetUpInv
    <2>6. InStepInv'
      BY <2>1, <2>2, <2>3, <2>4 DEF CleanInv, InStepInv, Clean
    <2>7. CleanCallCompletes'
      BY <1>2, <2>3 DEF CleanCallCompletes
    <2> QED
      BY <2>5, <2>6, <2>7 DEF CleanInv
  <1>11. CASE RqReturn
    <2>1. /\ bios.pc = "libspdm_start_session" /\ turn = "requester" /\ Ended
          /\ UNCHANGED <<fw, done, turn>> /\ bios'.pc = "out" /\ bios'.fault = bios.fault
      BY <1>1, <1>11 DEF RqReturn, BiosType
    <2>2. SetUpInv' /\ InStepInv'
      BY <1>2, <2>1 DEF CleanInv, SetUpInv, InStepInv
    <2>3. ASSUME Clean PROVE done = Phase
      <3>1. bios.pc \in Call /\ LastPhase[bios.pc] = 9
        <4>1. LastPhase["libspdm_start_session"] = FINISH
          BY DEF LastPhase, FirstPhase
        <4>2. "libspdm_start_session" \in Call
          BY CallFacts
        <4> QED
          BY <2>1, <4>1, <4>2
      <3>2. bios.status = "ok" /\ \A p \in Phase : p < bios.next => p \in done
        BY <2>3, <3>1 DEF CleanInv, InStepInv
      <3>3. bios.next > 9
        BY <2>1, <3>1, <3>2 DEF Ended
      <3>4. done \subseteq Phase
        BY DEF IndInv, TypeInv, ExchangeType
      <3>5. \A p \in Phase : p \in 1..9
        BY DEF Phase
      <3>6. bios.next \in Nat
        BY <1>1 DEF BiosType
      <3> QED
        BY <3>2, <3>3, <3>4, <3>5, <3>6
    <2>4. CleanCallCompletes'
      BY <2>1, <2>3 DEF CleanCallCompletes, Clean
    <2> QED
      BY <2>2, <2>4 DEF CleanInv
  <1>12. CASE SocReset
    BY <1>2, <1>12 DEF SocReset, BiosReset, CleanInv, SetUpInv, InStepInv, CleanCallCompletes
  <1> QED
    BY <1>3, <1>4, <1>5, <1>6, <1>7, <1>8, <1>9, <1>10, <1>11, <1>12 DEF RqStep

(* The steps of the firmware.                                              *)
LEMMA CleanFirmwareStep ==
    ASSUME IndInv, CleanInv, FwStep
    PROVE  CleanInv'
  <1> USE DEF chan
  <1>1. FirmwareType
    BY DEF IndInv, TypeInv
  <1>2. CASE FwContext \/ FwScratch \/ FwConfigure \/ FwChain \/ FwNoChain \/ FwStart
    <2>1. UNCHANGED <<bios, done, turn, wire>>
      BY <1>2 DEF FwContext, FwScratch, FwConfigure, FwChain, FwNoChain, FwStart
    <2>2. fw'.conn = fw.conn /\ (fw.fault => fw'.fault)
      BY <1>1, <1>2 DEF FwContext, FwScratch, FwConfigure, FwChain, FwNoChain, FwStart, FirmwareType
    <2>3. SetUpInv'
      BY <1>1, <1>2, <2>1 DEF CleanInv, SetUpInv, FirmwareType, FwContext, FwScratch,
             FwConfigure, FwChain, FwNoChain, FwStart
    <2> QED
      BY <2>1, <2>2, <2>3 DEF CleanInv, InStepInv, CleanCallCompletes, Clean
  <1>3. CASE FwHear
    <2>1. /\ UNCHANGED <<bios, done, wire>> /\ turn = "toResponder" /\ turn' = "responder"
          /\ fw.pc = "dispatch" /\ fw'.pc = "process" /\ fw'.conn = fw.conn
          /\ fw'.fault = fw.fault /\ fw'.caps = fw.caps /\ fw'.chain = fw.chain
      BY <1>1, <1>3 DEF FwHear, Chan!HearRequest, FirmwareType
    <2> QED
      BY <2>1 DEF CleanInv, SetUpInv, InStepInv, CleanCallCompletes, Clean
  <1>4. CASE FwServe
    <2> DEFINE p == heard["responder"].phase
    <2>1. /\ UNCHANGED <<bios, done>> /\ turn' = "toRequester" /\ turn = "responder"
          /\ wire' = [phase |-> p, answer |-> "ok"] /\ fw.pc = "process"
          /\ fw' = [fw EXCEPT !.pc = "dispatch", !.ready = TRUE, !.conn = p]
      BY <1>4 DEF FwServe, Chan!SendResponse
    <2>2. p = bios.next
      BY <2>1 DEF IndInv, ExchangeInv
    <2> HIDE DEF p
    <2>3. /\ fw'.pc = "dispatch" /\ fw'.conn = bios.next /\ fw'.fault = fw.fault
          /\ fw'.caps = fw.caps /\ fw'.chain = fw.chain /\ wire'.answer = "ok"
      BY <1>1, <2>1, <2>2 DEF FirmwareType
    <2> QED
      BY <2>1, <2>3 DEF CleanInv, SetUpInv, InStepInv, CleanCallCompletes, Clean
  <1>5. CASE FwRefuse
    <2> DEFINE p == heard["responder"].phase
    <2>1. /\ UNCHANGED <<bios, done>> /\ fw.pc = "process"
          /\ fw' = [fw EXCEPT !.pc = "dispatch", !.ready = TRUE, !.fault = @ \/ Serves(p)]
      BY <1>5 DEF FwRefuse
    <2>2. Clean => Serves(p)
      BY <2>1, CleanServes
    <2> HIDE DEF p
    <2>3. /\ fw'.pc = "dispatch" /\ fw'.caps = fw.caps /\ fw'.chain = fw.chain
          /\ (fw.fault \/ Serves(p)) => fw'.fault
      BY <1>1, <2>1 DEF FirmwareType
    <2>4. ~Clean'
      BY <2>1, <2>2, <2>3 DEF Clean
    <2> QED
      BY <2>1, <2>3, <2>4 DEF CleanInv, SetUpInv, InStepInv, CleanCallCompletes, Clean
  <1>6. CASE FwBreak
    BY <1>1, <1>6 DEF FwBreak, FirmwareType, CleanInv, SetUpInv, InStepInv, CleanCallCompletes, Clean
  <1> QED
    BY <1>2, <1>3, <1>4, <1>5, <1>6 DEF FwStep

(* If nothing fails, a call that returns a context has been through all    *)
(* nine phases, whatever the heaps, and whatever earlier calls have left   *)
(* the responder in: its GET_VERSION takes any state back to the first.    *)
THEOREM CleanCallsComplete == Spec => []CleanCallCompletes
  <1>1. Init => CleanInv
    BY CallFacts DEF Init, BiosReset, CleanInv, SetUpInv, InStepInv, CleanCallCompletes
  <1>2. IndInv /\ CleanInv /\ [Next]_vars => CleanInv'
    <2> SUFFICES ASSUME IndInv, CleanInv, [Next]_vars PROVE CleanInv'
      OBVIOUS
    <2>1. CASE UNCHANGED vars
      BY <2>1 DEF vars, chan, CleanInv, SetUpInv, InStepInv, CleanCallCompletes, Clean
    <2>2. CASE Next
      BY <2>2, CleanBiosStep, CleanFirmwareStep DEF Next
    <2> QED
      BY <2>1, <2>2
  <1>3. CleanInv => CleanCallCompletes
    BY DEF CleanInv
  <1> QED
    BY SessionInductive, <1>1, <1>2, <1>3, PTL DEF Spec
===============================================================================
