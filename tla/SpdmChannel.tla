----------------------------- MODULE SpdmChannel -----------------------------
(***************************************************************************)
(* What the shared FIFO, its multiplexers and the two device drivers       *)
(* promise to libspdm: a half-duplex channel.  The requester sends one     *)
(* request, the responder hears exactly that request, sends one response,  *)
(* and the requester hears exactly that response before it may send again. *)
(* SpdmMailbox implements this specification register by register.         *)
(***************************************************************************)
CONSTANT Message        \* what libspdm may hand to a send function

VARIABLES
    turn,       \* who moves next
    wire,       \* the message sent last
    heard       \* what each side was handed by its last receive

chanVars == <<turn, wire, heard>>

Side == {"requester", "responder"}

ChanInit ==
    /\ turn = "requester"
    /\ wire = << >>
    /\ heard = [s \in Side |-> << >>]

SendRequest(m) ==
    /\ turn = "requester"
    /\ turn' = "toResponder"
    /\ wire' = m
    /\ UNCHANGED heard

HearRequest ==
    /\ turn = "toResponder"
    /\ turn' = "responder"
    /\ heard' = [heard EXCEPT !["responder"] = wire]
    /\ UNCHANGED wire

SendResponse(m) ==
    /\ turn = "responder"
    /\ turn' = "toRequester"
    /\ wire' = m
    /\ UNCHANGED heard

HearResponse ==
    /\ turn = "toRequester"
    /\ turn' = "requester"
    /\ heard' = [heard EXCEPT !["requester"] = wire]
    /\ UNCHANGED wire

(* The requester starts over between two exchanges and has heard nothing.  *)
Restart ==
    /\ turn = "requester"
    /\ heard' = [heard EXCEPT !["requester"] = << >>]
    /\ UNCHANGED <<turn, wire>>

ChanNext ==
    \/ \E m \in Message : SendRequest(m) \/ SendResponse(m)
    \/ HearRequest
    \/ HearResponse
    \/ Restart

ChanSafeSpec == ChanInit /\ [][ChanNext]_chanVars

(* A request that was sent is heard, answered, and the answer heard.  That *)
(* the requester ever sends again is not promised.                         *)
ChanSpec ==
    /\ ChanSafeSpec
    /\ WF_chanVars(HearRequest)
    /\ WF_chanVars(\E m \in Message : SendResponse(m))
    /\ WF_chanVars(HearResponse)
===============================================================================
