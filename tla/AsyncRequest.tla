---------------------------- MODULE AsyncRequest ----------------------------
(***************************************************************************)
(* What the driver promises to the one who calls it, without counters,     *)
(* opcodes, frames or interrupts: a request is begun, its answer is        *)
(* delivered, cc3000_is_ready says so, and only then is it collected and   *)
(* the next one begun.  There is at most one request at a time.            *)
(*                                                                         *)
(* "delivered" says that the event handler has had the answer.  An answer  *)
(* is delivered once.  If MayLose, it may be delivered without the request *)
(* becoming ready: the answer is lost to the caller, and nothing but       *)
(* powering the device down ends the wait.                                 *)
(*                                                                         *)
(* InterruptDriven implements this specification with MayLose = TRUE,      *)
(* PolledLoop with MayLose = FALSE; Sockets is built on it.                *)
(***************************************************************************)
CONSTANTS
    Requests,           \* the requests the caller makes
    ReceiveRequests,    \* those whose answer may be followed by data
    NoRequest,          \* no request is under way
    StartRequest,       \* the request that powering up makes
    DataRequest,        \* the wait for the data that follows an answer
    MayLose             \* an answer may be lost to the caller

VARIABLES
    phase,              \* "off", "idle", "waiting" or "ready"
    request,            \* the request under way
    delivered           \* its answer has been handled

vars == <<phase, request, delivered>>

Init == phase = "off" /\ request = NoRequest /\ delivered = FALSE

-----------------------------------------------------------------------------
\* cc3000_start
PowerUp ==
    /\ phase = "off"
    /\ phase' = "waiting" /\ request' = StartRequest /\ delivered' = FALSE

\* a request function of the API
Begin(r) ==
    /\ phase = "idle"
    /\ phase' = "waiting" /\ request' = r /\ delivered' = FALSE

\* the event handler
Answer ==
    /\ phase = "waiting" /\ ~ delivered
    /\ delivered' = TRUE
    /\ phase' = "ready" \/ (MayLose /\ UNCHANGED phase)
    /\ UNCHANGED request

\* A collecting function that goes on to wait for data, which may have been
\* delivered already.
Continue ==
    /\ phase = "ready" /\ request \in ReceiveRequests
    /\ phase' = "waiting" /\ request' = DataRequest
    /\ delivered' \in BOOLEAN /\ (delivered' => MayLose)

\* any other collecting function
Collect ==
    /\ phase = "ready"
    /\ phase' = "idle" /\ request' = NoRequest /\ delivered' = FALSE

\* cc3000_stop
PowerDown ==
    /\ phase # "off"
    /\ phase' = "off" /\ request' = NoRequest /\ delivered' = FALSE

Next ==
    \/ PowerUp
    \/ \E r \in Requests : Begin(r)
    \/ Answer
    \/ Continue
    \/ Collect
    \/ PowerDown

Spec == Init /\ [][Next]_vars

\* What a caller that spins in cc3000_wait relies on.
Completes == phase = "waiting" ~> phase # "waiting"

LiveSpec == Spec /\ Completes
=============================================================================
