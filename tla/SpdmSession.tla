----------------------------- MODULE SpdmSession -----------------------------
(***************************************************************************)
(* The two programs above the mailbox: spdm_requester() of the BIOS, which *)
(* serialboot() and a console command call, and main() of the Microblaze   *)
(* firmware.  Both allocate a libspdm context and a scratch buffer,        *)
(* configure them and install a certificate chain.  The BIOS then makes    *)
(* six libspdm calls, which exchange the nine SPDM phases over the channel *)
(* of SpdmChannel; the firmware dispatches requests until libspdm reports  *)
(* UNSUPPORTED_CAP.                                                        *)
(*                                                                         *)
(* Only the status of the first call is looked at.  A failed set-up of a   *)
(* chain and a failed later call are printed and otherwise ignored.        *)
(***************************************************************************)
EXTENDS Naturals

CONSTANTS
    Size,           \* heap units of each block the programs allocate
    BiosHeap,       \* heap units of the BIOS
    FirmwareHeaps,  \* heap units the firmware may find
    MayFail         \* what of libspdm may fail, see Failure

Block == {"context", "scratch", "chain"}

(* hash: libspdm_hash_all; answer: the responder answers a request it      *)
(* could serve with an error; verify: the requester rejects a good answer; *)
(* dispatch: libspdm_responder_dispatch_message reports UNSUPPORTED_CAP;   *)
(* pointer: cert_chain_size, which spdm_requester() passes to              *)
(* libspdm_get_certificate without ever setting it, is not 0 and the call  *)
(* fails on it (what else a wild pointer may do is outside the model).     *)
Failure == {"hash", "answer", "verify", "dispatch", "pointer"}

ASSUME SessionAssumption ==
    /\ Size \in [Block -> Nat \ {0}]
    /\ BiosHeap \in Nat
    /\ FirmwareHeaps \subseteq Nat
    /\ MayFail \subseteq Failure

-------------------------------------------------------------------------------
(* The nine phases, in the order of the protocol.                          *)
GET_VERSION == 1
GET_CAPABILITIES == 2
NEGOTIATE_ALGORITHMS == 3
GET_DIGESTS == 4
GET_CERTIFICATE == 5
CHALLENGE == 6
GET_MEASUREMENTS == 7
KEY_EXCHANGE == 8
FINISH == 9

Phase == GET_VERSION..FINISH

(* The libspdm calls of spdm_requester(), in order, with their phases.     *)
FirstPhase == [libspdm_init_connection |-> GET_VERSION,
               libspdm_get_digest      |-> GET_DIGESTS,
               libspdm_get_certificate |-> GET_CERTIFICATE,
               libspdm_challenge       |-> CHALLENGE,
               libspdm_get_measurement |-> GET_MEASUREMENTS,
               libspdm_start_session   |-> KEY_EXCHANGE]

Call == DOMAIN FirstPhase

LastPhase == [FirstPhase EXCEPT !["libspdm_init_connection"] = NEGOTIATE_ALGORITHMS,
                                !["libspdm_start_session"] = FINISH]

NextCall == [libspdm_init_connection |-> "libspdm_get_digest",
             libspdm_get_digest      |-> "libspdm_get_certificate",
             libspdm_get_certificate |-> "libspdm_challenge",
             libspdm_challenge       |-> "libspdm_get_measurement",
             libspdm_get_measurement |-> "libspdm_start_session"]

(* What the two programs offer: the flags and algorithms that are not      *)
(* commented out.                                                          *)
m_use_requester_capability_flags ==
    {"CERT", "CHAL", "ENCRYPT", "MAC", "KEY_EX", "ENCAP", "KEY_UPD", "CHUNK"}

RequesterAlgorithms ==
    [hash |-> {"SHA_384", "SHA_256"},
     asym |-> {"ECDSA_P384", "ECDSA_P256", "RSAPSS_3072", "RSAPSS_2048",
               "RSASSA_3072", "RSASSA_2048"},
     dhe  |-> {"SECP_256_R1", "FFDHE_2048"},
     aead |-> {"AES_128_GCM", "AES_256_GCM", "CHACHA20_POLY1305"}]

m_use_responder_capability_flags ==
    {"CERT", "CHAL", "MEAS_SIG", "ENCRYPT", "MAC", "KEY_EX", "ENCAP", "KEY_UPD",
     "CHUNK"}

(* A responder with one symmetric suite too many.                          *)
MutTwoSuites ==
    [hash |-> {"SHA_256"},
     asym |-> {"RSASSA_2048"},
     dhe  |-> {"SECP_384_R1", "SECP_256_R1", "FFDHE_3072", "FFDHE_2048"},
     aead |-> {"AES_128_GCM", "CHACHA20_POLY1305"}]

ResponderAlgorithms ==
    [hash |-> {"SHA_256"},
     asym |-> {"RSASSA_2048"},
     dhe  |-> {"SECP_384_R1", "SECP_256_R1", "FFDHE_3072", "FFDHE_2048"},
     aead |-> {"CHACHA20_POLY1305"}]

Algorithms == DOMAIN ResponderAlgorithms

(* The hash both programs build their copy of the chain with.              *)
m_use_hash_algo == "SHA_256"

(* The capabilities a phase needs: of the responder, and of both.  The     *)
(* challenge asks for the summary of all measurements (0xFF), the          *)
(* measurements are asked for with a signature.                            *)
ResponderNeeds(p) ==
    CASE p \in {GET_DIGESTS, GET_CERTIFICATE} -> {"CERT"}
      [] p = CHALLENGE                        -> {"CHAL", "MEAS_SIG"}
      [] p = GET_MEASUREMENTS                 -> {"MEAS_SIG"}
      [] OTHER                                -> {}

BothNeed(p) ==
    IF p \in {KEY_EXCHANGE, FINISH} THEN {"KEY_EX", "ENCRYPT", "MAC"} ELSE {}

-------------------------------------------------------------------------------
VARIABLES
    bios,       \* spdm_requester(): program counter, heap, context
    done,       \* phases the requester's context has completed in this call
    fw,         \* main() of the firmware: program counter, heap, context
    agreed,     \* the algorithms of the last ALGORITHMS response
    turn, wire, heard       \* the channel

chan == <<turn, wire, heard>>
(* entry and fault of bios and fw record the heap at the call and whether  *)
(* something has failed in it; no guard reads them.                        *)
vars == <<bios, done, fw, agreed, chan>>

Message == [phase : Phase, answer : {"none", "ok", "error"}]
Request(p) == [phase |-> p, answer |-> "none"]

Chan == INSTANCE SpdmChannel

BiosReset ==
    [pc |-> "out", heap |-> BiosHeap, entry |-> BiosHeap, caps |-> {},
     chain |-> FALSE, next |-> GET_VERSION, status |-> "ok", result |-> "none",
     fault |-> FALSE]

Init ==
    /\ bios = BiosReset
    /\ done = {}
    /\ \E h \in FirmwareHeaps :
         fw = [pc |-> "context", heap |-> h, caps |-> {}, chain |-> FALSE,
               ready |-> FALSE, conn |-> 0, fault |-> FALSE]
    /\ agreed = [a \in Algorithms |-> "none"]
    /\ Chan!ChanInit

-------------------------------------------------------------------------------
(* Mutated forms of the actions below.                                     *)

(* free(m_spdm_context) forgotten when the scratch buffer is not there.    *)
MutKeepContext ==
    /\ bios.pc = "scratch"
    /\ Size["scratch"] > bios.heap
    /\ bios' = [bios EXCEPT !.pc = "out", !.result = "NULL", !.fault = TRUE]
    /\ UNCHANGED <<done, fw, agreed, chan>>

(* A failed connection is printed like every other failed call.            *)
MutIgnoreConnection ==
    /\ bios.pc = "libspdm_init_connection"
    /\ bios.status = "error"
    /\ bios' = [bios EXCEPT !.pc = "libspdm_get_digest", !.next = GET_DIGESTS,
                            !.status = "ok"]
    /\ UNCHANGED <<done, fw, agreed, chan>>

(* The chain set for a location that is left empty.                        *)
MutChainNotInstalled ==
    /\ fw.pc = "chain"
    /\ Size["chain"] <= fw.heap
    /\ fw' = [fw EXCEPT !.pc = "start", !.heap = @ - Size["chain"]]
    /\ UNCHANGED <<bios, done, agreed, chan>>

(* The dispatch loop entered without raising ready.                        *)
MutNoReady ==
    /\ fw.pc = "start"
    /\ fw' = [fw EXCEPT !.pc = "dispatch"]
    /\ UNCHANGED <<bios, done, agreed, chan>>

-------------------------------------------------------------------------------
(* spdm_requester(): set-up.                                               *)

(* Called, and malloc of the context.                                      *)
RqContext ==
    /\ bios.pc = "out"
    /\ Size["context"] <= bios.heap
    /\ bios' = [bios EXCEPT !.pc = "scratch", !.heap = @ - Size["context"],
                            !.entry = bios.heap, !.caps = {}, !.chain = FALSE,
                            !.result = "none", !.fault = FALSE]
    /\ done' = {}
    /\ UNCHANGED <<fw, agreed, chan>>

RqNoContext ==
    /\ bios.pc = "out"
    /\ Size["context"] > bios.heap
    /\ bios' = [bios EXCEPT !.entry = bios.heap, !.result = "NULL", !.fault = TRUE]
    /\ done' = {}
    /\ UNCHANGED <<fw, agreed, chan>>

RqScratch ==
    /\ bios.pc = "scratch"
    /\ Size["scratch"] <= bios.heap
    /\ bios' = [bios EXCEPT !.pc = "configure", !.heap = @ - Size["scratch"]]
    /\ UNCHANGED <<done, fw, agreed, chan>>

RqNoScratch ==
    /\ bios.pc = "scratch"
    /\ Size["scratch"] > bios.heap
    /\ bios' = [bios EXCEPT !.pc = "out", !.heap = @ + Size["context"],
                            !.result = "NULL", !.fault = TRUE]
    /\ UNCHANGED <<done, fw, agreed, chan>>

(* The calls of libspdm_set_data.                                          *)
RqConfigure ==
    /\ bios.pc = "configure"
    /\ bios' = [bios EXCEPT !.pc = "chain",
                            !.caps = m_use_requester_capability_flags]
    /\ UNCHANGED <<done, fw, agreed, chan>>

(* read_responder_public_certificate_chain.  Its result is not looked at.  *)
RqChain ==
    /\ bios.pc = "chain"
    /\ Size["chain"] <= bios.heap
    /\ bios' = [bios EXCEPT !.pc = "libspdm_init_connection",
                            !.heap = @ - Size["chain"], !.chain = TRUE,
                            !.next = GET_VERSION, !.status = "ok"]
    /\ UNCHANGED <<done, fw, agreed, chan>>

RqNoChain ==
    /\ bios.pc = "chain"
    /\ Size["chain"] > bios.heap \/ "hash" \in MayFail
    /\ bios' = [bios EXCEPT !.pc = "libspdm_init_connection", !.fault = TRUE,
                            !.next = GET_VERSION, !.status = "ok"]
    /\ UNCHANGED <<done, fw, agreed, chan>>

-------------------------------------------------------------------------------
(* spdm_requester(): the calls of libspdm.                                 *)

Ended == bios.status = "error" \/ bios.next > LastPhase[bios.pc]

(* The send function waits for the responder's ready flag.                 *)
RqRequest ==
    /\ bios.pc \in Call
    /\ ~Ended
    /\ fw.ready
    /\ Chan!SendRequest(Request(bios.next))
    /\ UNCHANGED <<bios, done, fw, agreed>>

(* A correct answer: good for a requester that supports the phase, is      *)
(* connected, and whose chain was hashed with the algorithm agreed on.     *)
Acceptable(p) ==
    /\ BothNeed(p) \subseteq bios.caps
    /\ p >= GET_DIGESTS => GET_VERSION..NEGOTIATE_ALGORITHMS \subseteq done
    /\ p >= GET_CERTIFICATE /\ bios.chain => agreed["hash"] = m_use_hash_algo

RqAccept ==
    /\ Chan!HearResponse
    /\ wire.answer = "ok"
    /\ Acceptable(bios.next)
    /\ done' = done \union {bios.next}
    /\ bios' = [bios EXCEPT !.next = @ + 1]
    /\ UNCHANGED <<fw, agreed>>

RqReject ==
    /\ Chan!HearResponse
    /\ \/ wire.answer = "error"
       \/ ~Acceptable(bios.next)
       \/ "verify" \in MayFail
       \/ "pointer" \in MayFail /\ bios.pc = "libspdm_get_certificate"
    /\ bios' = [bios EXCEPT !.status = "error",
            !.fault = @ \/ (wire.answer = "ok" /\ Acceptable(bios.next))]
    /\ UNCHANGED <<done, fw, agreed>>

(* while(1) after "Error, connection failed".                              *)
RqConnectionFailed ==
    /\ bios.pc = "libspdm_init_connection"
    /\ bios.status = "error"
    /\ bios' = [bios EXCEPT !.pc = "hang"]
    /\ UNCHANGED <<done, fw, agreed, chan>>

(* Any other status is printed and the next call is made.                  *)
RqNextCall ==
    /\ bios.pc \in Call \ {"libspdm_start_session"}
    /\ turn = "requester"
    /\ Ended
    /\ bios.pc = "libspdm_init_connection" => bios.status = "ok"
    /\ bios' = [bios EXCEPT !.pc = NextCall[bios.pc],
                            !.next = FirstPhase[NextCall[bios.pc]], !.status = "ok"]
    /\ UNCHANGED <<done, fw, agreed, chan>>

(* return spdm_context: the callers drop it, nothing is freed.             *)
RqReturn ==
    /\ bios.pc = "libspdm_start_session"
    /\ turn = "requester"
    /\ Ended
    /\ bios' = [bios EXCEPT !.pc = "out", !.result = "context"]
    /\ UNCHANGED <<done, fw, agreed, chan>>

RqStep ==
    \/ RqScratch \/ RqNoScratch \/ RqConfigure \/ RqChain \/ RqNoChain
    \/ RqRequest \/ RqAccept \/ RqReject
    \/ RqConnectionFailed \/ RqNextCall \/ RqReturn

(* The SoC is reset between two exchanges; the Microblaze goes on.         *)
SocReset ==
    /\ bios' = BiosReset
    /\ done' = {}
    /\ Chan!Restart
    /\ UNCHANGED <<fw, agreed>>

-------------------------------------------------------------------------------
(* main(): set-up.                                                         *)

FwContext ==
    /\ fw.pc = "context"
    /\ \/ /\ Size["context"] <= fw.heap
          /\ fw' = [fw EXCEPT !.pc = "scratch", !.heap = @ - Size["context"]]
       \/ /\ Size["context"] > fw.heap
          /\ fw' = [fw EXCEPT !.pc = "over", !.fault = TRUE]
    /\ UNCHANGED <<bios, done, agreed, chan>>

FwScratch ==
    /\ fw.pc = "scratch"
    /\ \/ /\ Size["scratch"] <= fw.heap
          /\ fw' = [fw EXCEPT !.pc = "configure", !.heap = @ - Size["scratch"]]
       \/ /\ Size["scratch"] > fw.heap
          /\ fw' = [fw EXCEPT !.pc = "over", !.heap = @ + Size["context"],
                              !.fault = TRUE]
    /\ UNCHANGED <<bios, done, agreed, chan>>

FwConfigure ==
    /\ fw.pc = "configure"
    /\ fw' = [fw EXCEPT !.pc = "chain", !.caps = m_use_responder_capability_flags]
    /\ UNCHANGED <<bios, done, agreed, chan>>

FwChain ==
    /\ fw.pc = "chain"
    /\ Size["chain"] <= fw.heap
    /\ fw' = [fw EXCEPT !.pc = "start", !.heap = @ - Size["chain"], !.chain = TRUE]
    /\ UNCHANGED <<bios, done, agreed, chan>>

FwNoChain ==
    /\ fw.pc = "chain"
    /\ Size["chain"] > fw.heap \/ "hash" \in MayFail
    /\ fw' = [fw EXCEPT !.pc = "start", !.fault = TRUE]
    /\ UNCHANGED <<bios, done, agreed, chan>>

(* XGpio_DiscreteWrite(&gpio_spdm_mux,2, start)                            *)
FwStart ==
    /\ fw.pc = "start"
    /\ fw' = [fw EXCEPT !.pc = "dispatch", !.ready = TRUE]
    /\ UNCHANGED <<bios, done, agreed, chan>>

-------------------------------------------------------------------------------
(* main(): the dispatch loop.                                              *)

(* The receive function lowers the ready flag, the send function raises it.*)
FwHear ==
    /\ fw.pc = "dispatch"
    /\ Chan!HearRequest
    /\ fw' = [fw EXCEPT !.pc = "process", !.ready = FALSE]
    /\ UNCHANGED <<bios, done, agreed>>

Common(a) == RequesterAlgorithms[a] \intersect ResponderAlgorithms[a]

Algorithm == UNION {Common(a) : a \in Algorithms}

(* libspdm's responder serves a request in the state that fits it.         *)
Serves(p) ==
    /\ ResponderNeeds(p) \union BothNeed(p) \subseteq fw.caps
    /\ p \in {GET_CAPABILITIES, NEGOTIATE_ALGORITHMS, FINISH} => fw.conn = p - 1
    /\ p = NEGOTIATE_ALGORITHMS => \A a \in Algorithms : Common(a) # {}
    /\ p \in GET_DIGESTS..KEY_EXCHANGE => fw.conn >= NEGOTIATE_ALGORITHMS /\ fw.chain

(* A response; on ALGORITHMS one common algorithm of each kind is chosen.  *)
FwServe ==
    LET p == heard["responder"].phase
    IN  /\ fw.pc = "process"
        /\ Serves(p)
        /\ IF p = NEGOTIATE_ALGORITHMS
           THEN agreed' \in {f \in [Algorithms -> Algorithm] :
                                  \A a \in Algorithms : f[a] \in Common(a)}
           ELSE UNCHANGED agreed
        /\ fw' = [fw EXCEPT !.pc = "dispatch", !.ready = TRUE, !.conn = p]
        /\ Chan!SendResponse([phase |-> p, answer |-> "ok"])
        /\ UNCHANGED <<bios, done>>

FwRefuse ==
    LET p == heard["responder"].phase
    IN  /\ fw.pc = "process"
        /\ ~Serves(p) \/ "answer" \in MayFail
        /\ fw' = [fw EXCEPT !.pc = "dispatch", !.ready = TRUE,
                            !.fault = @ \/ Serves(p)]
        /\ Chan!SendResponse([phase |-> p, answer |-> "error"])
        /\ UNCHANGED <<bios, done, agreed>>

(* UNSUPPORTED_CAP ends the loop: no response, and main() returns.         *)
FwBreak ==
    /\ fw.pc = "process"
    /\ "dispatch" \in MayFail
    /\ fw' = [fw EXCEPT !.pc = "over", !.fault = TRUE]
    /\ UNCHANGED <<bios, done, agreed, chan>>

FwStep ==
    \/ FwContext \/ FwScratch \/ FwConfigure \/ FwChain \/ FwNoChain \/ FwStart
    \/ FwHear \/ FwServe \/ FwRefuse \/ FwBreak

-------------------------------------------------------------------------------
Next == RqContext \/ RqNoContext \/ RqStep \/ SocReset \/ FwStep

(* Both programs keep running; nobody has to call spdm_requester() or to   *)
(* reset the SoC.                                                          *)
Spec == Init /\ [][Next]_vars /\ WF_vars(RqStep) /\ WF_vars(FwStep)

-------------------------------------------------------------------------------
BiosType ==
    bios \in [pc : {"out", "scratch", "configure", "chain", "hang"} \union Call,
              heap : Nat, entry : Nat, caps : SUBSET m_use_requester_capability_flags,
              chain : BOOLEAN, next : 1..10, status : {"ok", "error"},
              result : {"none", "NULL", "context"}, fault : BOOLEAN]

FirmwareType ==
    fw \in [pc : {"context", "scratch", "configure", "chain", "start", "dispatch",
                  "process", "over"},
            heap : Nat, caps : SUBSET m_use_responder_capability_flags,
            chain : BOOLEAN, ready : BOOLEAN, conn : 0..9, fault : BOOLEAN]

ExchangeType ==
    /\ done \subseteq Phase
    /\ agreed \in [Algorithms -> Algorithm \union {"none"}]
    /\ turn \in {"requester", "toResponder", "responder", "toRequester"}
    /\ turn # "requester" => wire \in Message

HeardType == heard \in [Chan!Side -> Message \union {<< >>}]

TypeInv == BiosType /\ FirmwareType /\ ExchangeType /\ HeardType

(* A call of spdm_requester() that returns NULL leaves the BIOS heap as it *)
(* found it, whichever of its allocations failed and however many contexts *)
(* earlier calls have left behind.                                         *)
FailureLosesNothing ==
    bios.pc = "out" /\ bios.result = "NULL" => bios.heap = bios.entry

(* Past libspdm_init_connection, and in every context that is returned,    *)
(* the requester has completed the three connection phases in this call    *)
(* and the responder, which no reset of the SoC reaches, agrees: it has    *)
(* not been taken back to an earlier phase.                                *)
Connected ==
    \/ bios.pc \in Call \ {"libspdm_init_connection"}
    \/ bios.pc = "out" /\ bios.result = "context"

ConnectedAfterInit ==
    Connected =>
        /\ GET_VERSION..NEGOTIATE_ALGORITHMS \subseteq done
        /\ fw.conn >= NEGOTIATE_ALGORITHMS

(* No request is under way before the firmware has finished its set-up,    *)
(* although nothing but the level of the ready flag makes the BIOS wait.   *)
NoRequestBeforeStart ==
    turn # "requester" => fw.pc \in {"dispatch", "process", "over"}

(* The algorithms the two lists of offers lead to are the ones the README  *)
(* names (SHA-256, RSA-2048, ChaCha20-Poly1305), and the hash is the one   *)
(* both programs have built their chains with.                             *)
AgreedSuite ==
    NEGOTIATE_ALGORITHMS \in done =>
        /\ agreed["hash"] = m_use_hash_algo
        /\ agreed["asym"] = "RSASSA_2048"
        /\ agreed["aead"] = "CHACHA20_POLY1305"

(* If nothing fails (see Failure; and no malloc), the offers, flags and    *)
(* chains of the two programs carry a call through all nine phases.        *)
CleanCallCompletes ==
    bios.pc = "out" /\ bios.result = "context" /\ ~fw.fault /\ ~bios.fault
        => done = Phase

(* A call ends: it returns, and serialboot() gets to boot, also when       *)
(* earlier calls have used up the heap.  It stands in while(1) only if     *)
(* something has failed on either side, and it waits for ever only for a   *)
(* firmware whose main() has returned: neither polling loop of the mailbox *)
(* has a timeout.                                                          *)
CallEnds ==
    (bios.pc # "out") ~> \/ bios.pc = "out"
                         \/ bios.pc = "hang" /\ (bios.fault \/ fw.fault)
                         \/ fw.pc = "over"

-------------------------------------------------------------------------------
(* The inductive invariant.                                                *)

(* While a message is under way the requester is in a call that has not    *)
(* ended, and the message belongs to the phase the call has reached.       *)
ExchangeInv ==
    /\ bios.pc \in Call => bios.next \in FirstPhase[bios.pc]..LastPhase[bios.pc] + 1
    /\ turn # "requester" =>
         /\ bios.pc \in Call
         /\ ~Ended
         /\ wire.phase = bios.next
    /\ turn = "responder" => heard["responder"].phase = bios.next
    /\ fw.pc = "process" => turn = "responder"

(* libspdm_init_connection: the responder is exactly one phase behind the  *)
(* one to be asked for, until it has served it.                            *)
ConnectingInv ==
    bios.pc = "libspdm_init_connection" /\ bios.status = "ok" =>
        /\ \A p \in Phase : p < bios.next => p \in done
        /\ IF turn = "toRequester"
           THEN wire.answer = "ok" => fw.conn = bios.next
           ELSE bios.next > GET_VERSION => fw.conn = bios.next - 1

(* From the ALGORITHMS response on, an algorithm both sides offer is       *)
(* agreed on of each kind.                                                 *)
SuiteInv ==
    \/ NEGOTIATE_ALGORITHMS \in done
    \/ turn = "toRequester" /\ wire = [phase |-> NEGOTIATE_ALGORITHMS, answer |-> "ok"]
    => \A a \in Algorithms : agreed[a] \in Common(a)

(* ready is up only in the dispatch loop, or after it.                     *)
ReadyInv == fw.ready => fw.pc \in {"dispatch", "process", "over"}

(* Between the two mallocs only the context is missing from the heap.      *)
HeapInv == bios.pc = "scratch" => bios.heap + Size["context"] = bios.entry

IndInv ==
    /\ TypeInv
    /\ ExchangeInv
    /\ ConnectingInv
    /\ SuiteInv
    /\ ReadyInv
    /\ HeapInv
    /\ ConnectedAfterInit
    /\ NoRequestBeforeStart
    /\ FailureLosesNothing
===============================================================================
