------------------------------ MODULE Sockets ------------------------------
(***************************************************************************)
(* The part of cc3000_socket.c that keeps state: socket_active_status, one *)
(* bit per socket, next to the sockets the device really has.  The         *)
(* requests go through AsyncRequest, whose steps InterruptDriven and       *)
(* PolledLoop implement: here a request is begun, the device executes its  *)
(* command, the event handler delivers the result, a function collects it. *)
(*                                                                         *)
(* The bits change in two places only: cc3000_get_accecpt, and the end of  *)
(* cc3000_socket_close, which comes after its frame, so that the device    *)
(* may have closed the socket before the bit says so.  Nothing resets them *)
(* when the device is powered down, and nothing tells the host when the    *)
(* device closes a socket by itself.                                       *)
(***************************************************************************)
EXTENDS Integers

CONSTANTS DeviceSds     \* the numbers the device gives its sockets

ASSUME DeviceSdsAssumption == DeviceSds \subseteq 0..7

VARIABLES
    phase, request, delivered,  \* of AsyncRequest
    result,         \* what the device returned, NoResult before that
    status,         \* socket_active_status
    returning,      \* cc3000_socket_close has sent its frame, not returned
    devOpen,        \* the sockets of the device
    devListening,   \* those that listen
    forgotten,      \* auxiliary: sockets lost without cc3000_socket_close,
                    \*   by a restart or the inactivity timeout
    made,           \* the sockets the caller has from cc3000_req_socket
    handed          \* the sockets it has from cc3000_get_accecpt

requestVars == <<phase, request, delivered>>
deviceVars == <<result, devOpen, devListening, forgotten>>
callerVars == <<made, handed>>
vars == <<requestVars, deviceVars, callerVars, status, returning>>

NoSocket == -1
Request(function, sd) == [function |-> function, sd |-> sd]
NoRequest == Request("none", NoSocket)
StartRequest == Request("cc3000_start", NoSocket)
Requests ==
    { Request("cc3000_req_socket", NoSocket) } \cup
    { Request(function, sd) :
        function \in {"cc3000_listen", "cc3000_connect", "cc3000_req_accept",
                      "cc3000_socket_close"},
        sd \in DeviceSds }

Async == INSTANCE AsyncRequest WITH
    ReceiveRequests <- {}, DataRequest <- NoRequest, MayLose <- TRUE

SOCKET_STATUS_ACTIVE == 0
SOCKET_STATUS_INACTIVE == 1
SOC_ERROR == -1
SOC_IN_PROGRESS == -2
NoResult == -3

Init ==
    /\ Async!Init
    /\ result = NoResult
    /\ status = [sd \in 0..7 |-> SOCKET_STATUS_INACTIVE]
    /\ returning = FALSE
    /\ devOpen = {} /\ devListening = {} /\ forgotten = {}
    /\ made = {} /\ handed = {}

-----------------------------------------------------------------------------
(* socket_active_status.                                                   *)

\* A defective variant: an error code passes for a socket.
IsBelowEight(sd) == sd <= 7

M_IS_VALID_SD(sd) == 0 <= sd /\ sd <= 7

set_socket_active_status(Sd, Status) ==
    status' = [sd \in 0..7 |->
                 IF M_IS_VALID_SD(Sd) /\ sd = Sd THEN Status ELSE status[sd]]

get_socket_active_status(Sd) ==
    IF M_IS_VALID_SD(Sd) THEN status[Sd] ELSE SOCKET_STATUS_INACTIVE

Active(sd) == get_socket_active_status(sd) = SOCKET_STATUS_ACTIVE

-----------------------------------------------------------------------------
(* The caller.  It keeps to one request at a time, listens, connects and   *)
(* accepts with sockets it made, and closes its own.  The number of a      *)
(* socket the device lost may come back as that of a new one: the caller   *)
(* takes it for the new one.                                               *)

Begin(r) ==
    /\ Async!Begin(r)
    /\ result' = NoResult
    /\ UNCHANGED <<status, devOpen, devListening, forgotten>>

cc3000_req_socket ==
    /\ Begin(Request("cc3000_req_socket", NoSocket))
    /\ UNCHANGED <<callerVars, returning>>

BeginOn(function) ==
    /\ \E sd \in made : Begin(Request(function, sd))
    /\ UNCHANGED <<callerVars, returning>>

\* The caller forgets the handle; the bit is cleared when the function returns.
cc3000_socket_close(sd) ==
    /\ Begin(Request("cc3000_socket_close", sd))
    /\ returning' = TRUE
    /\ made' = made \ {sd} /\ handed' = handed \ {sd}

\* A defective variant: the bit stays.
CloseReturnsUnmarked ==
    /\ returning
    /\ returning' = FALSE
    /\ UNCHANGED <<requestVars, deviceVars, callerVars, status>>

\* The last statement of cc3000_socket_close
CloseReturns ==
    /\ returning
    /\ set_socket_active_status(request.sd, SOCKET_STATUS_INACTIVE)
    /\ returning' = FALSE
    /\ UNCHANGED <<requestVars, deviceVars, callerVars>>

Collect ==
    /\ ~ returning
    /\ Async!Collect
    /\ result' = NoResult
    /\ UNCHANGED <<returning, devOpen, devListening, forgotten>>

\* A defective variant: the bit of the listening socket is set.
GetAcceptMarksListener ==
    /\ request.function = "cc3000_req_accept"
    /\ Collect
    /\ set_socket_active_status(request.sd,
           IF M_IS_VALID_SD(result) THEN SOCKET_STATUS_ACTIVE
                                    ELSE SOCKET_STATUS_INACTIVE)
    /\ handed' = handed \cup ({result} \cap 0..7)
    /\ made' = made \ {result}

\* A failure, or that nobody has connected yet, marks the listening socket
\* inactive.
cc3000_get_accecpt ==
    /\ request.function = "cc3000_req_accept"
    /\ Collect
    /\ IF M_IS_VALID_SD(result)
       THEN /\ set_socket_active_status(result, SOCKET_STATUS_ACTIVE)
            /\ handed' = handed \cup {result}
            /\ made' = made \ {result}
       ELSE /\ set_socket_active_status(request.sd, SOCKET_STATUS_INACTIVE)
            /\ UNCHANGED callerVars

\* The result of cc3000_req_socket is read with cc3000_get_return_int32.
GetSocket ==
    /\ request.function = "cc3000_req_socket"
    /\ Collect
    /\ made' = made \cup ({result} \cap 0..7)
    /\ handed' = handed \ {result}
    /\ UNCHANGED status

\* Of the others too; the caller learns nothing it acts on.
GetReturn ==
    /\ request.function \notin {"cc3000_req_accept", "cc3000_req_socket"}
    /\ Collect
    /\ UNCHANGED <<status, callerVars>>

cc3000_start ==
    /\ Async!PowerUp
    /\ result' = NoResult
    /\ UNCHANGED <<status, returning, devOpen, devListening, forgotten,
                   callerVars>>

\* The device loses its sockets, and the caller knows; the bits stay.
cc3000_stop ==
    /\ ~ returning
    /\ Async!PowerDown
    /\ result' = NoResult
    /\ devOpen' = {} /\ devListening' = {}
    /\ forgotten' = forgotten \cup devOpen
    /\ made' = {} /\ handed' = {}
    /\ UNCHANGED <<status, returning>>

-----------------------------------------------------------------------------
(* The device.                                                             *)

CanExecute(function) ==
    phase = "waiting" /\ ~ delivered /\ result = NoResult
        /\ request.function = function

\* A new socket, with a number that is free
DeviceOpens ==
    \E sd \in DeviceSds \ devOpen :
        /\ devOpen' = devOpen \cup {sd}
        /\ forgotten' = forgotten \ {sd}
        /\ result' = sd
        /\ UNCHANGED devListening

DeviceAnswers(value) ==
    /\ result' = value
    /\ UNCHANGED <<devOpen, devListening, forgotten>>

DeviceExecutes ==
    /\ \/ CanExecute("cc3000_start") /\ DeviceAnswers(0)
       \/ /\ CanExecute("cc3000_req_socket")
          /\ DeviceOpens \/ DeviceAnswers(SOC_ERROR)
       \/ /\ CanExecute("cc3000_connect")
          /\ DeviceAnswers(0) \/ DeviceAnswers(SOC_ERROR)
       \/ /\ CanExecute("cc3000_listen")
          /\ \/ /\ request.sd \in devOpen
                /\ devListening' = devListening \cup {request.sd}
                /\ result' = 0
                /\ UNCHANGED <<devOpen, forgotten>>
             \/ DeviceAnswers(SOC_ERROR)
       \/ /\ CanExecute("cc3000_req_accept")
          /\ \/ /\ request.sd \in devListening
                /\ DeviceOpens \/ DeviceAnswers(SOC_IN_PROGRESS)
             \/ DeviceAnswers(SOC_ERROR)
       \/ /\ CanExecute("cc3000_socket_close")
          /\ devOpen' = devOpen \ {request.sd}
          /\ devListening' = devListening \ {request.sd}
          /\ result' = IF request.sd \in devOpen THEN 0 ELSE SOC_ERROR
          /\ UNCHANGED forgotten
    /\ UNCHANGED <<requestVars, callerVars, status, returning>>

\* The inactivity timeout of netapp_timeout_values: "by the end of the socket
\* timeout the socket will be closed".
DeviceTimesOut(sd) ==
    /\ sd \in devOpen
    /\ devOpen' = devOpen \ {sd}
    /\ devListening' = devListening \ {sd}
    /\ forgotten' = forgotten \cup {sd}
    /\ UNCHANGED <<requestVars, callerVars, result, status, returning>>

\* The event handler, when the device has answered
Answer ==
    /\ result # NoResult
    /\ Async!Answer
    /\ UNCHANGED <<deviceVars, callerVars, status, returning>>

Next ==
    \/ cc3000_req_socket
    \/ BeginOn("cc3000_listen")
    \/ BeginOn("cc3000_connect")
    \/ BeginOn("cc3000_req_accept")
    \/ \E sd \in made \cup handed : cc3000_socket_close(sd)
    \/ CloseReturns
    \/ cc3000_get_accecpt
    \/ GetSocket
    \/ GetReturn
    \/ cc3000_start
    \/ cc3000_stop
    \/ DeviceExecutes
    \/ \E sd \in DeviceSds : DeviceTimesOut(sd)
    \/ Answer

Spec == Init /\ [][Next]_vars

-----------------------------------------------------------------------------
(* Properties.                                                             *)

TypeOK ==
    /\ phase \in {"off", "idle", "waiting", "ready"}
    /\ request \in Requests \cup {NoRequest, StartRequest}
    /\ delivered \in BOOLEAN
    /\ result \in DeviceSds \cup {0, SOC_ERROR, SOC_IN_PROGRESS, NoResult}
    /\ status \in [0..7 -> {SOCKET_STATUS_ACTIVE, SOCKET_STATUS_INACTIVE}]
    /\ returning \in BOOLEAN
    /\ devOpen \subseteq DeviceSds /\ devListening \subseteq devOpen
    /\ forgotten \subseteq DeviceSds \ devOpen
    /\ made \subseteq DeviceSds /\ handed \subseteq DeviceSds

\* A socket the host calls active exists on the device, whatever the order of
\* requests, answers, lost answers and restarts, except for the two ways the
\* host is not told of: it was lost to a restart or to the inactivity timeout.
\* While cc3000_socket_close has not returned, the device may be ahead.
ActiveMeansOpen ==
    \A sd \in DeviceSds :
        Active(sd) => \/ sd \in devOpen \cup forgotten
                      \/ returning /\ request.sd = sd

\* A connection the caller has been handed stays active until it closes it:
\* no later accept that fails, on whatever socket, and no other close takes
\* the bit away.
AcceptedIsActive == \A sd \in handed : Active(sd)
=============================================================================
