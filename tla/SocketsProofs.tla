--------------------------- MODULE SocketsProofs ---------------------------
(***************************************************************************)
(* TypeOK, ActiveMeansOpen and AcceptedIsActive of Sockets, for every set  *)
(* of socket numbers.  The last two are not inductive: SocketInv adds what *)
(* the caller, the device and the bits agree on while a request is under   *)
(* way.                                                                    *)
(***************************************************************************)
EXTENDS Sockets, TLAPS

\* What is true of the request under way, and of the handles of the caller
RequestInv ==
    /\ returning => /\ request.function = "cc3000_socket_close"
                    /\ phase \in {"waiting", "ready"}
    /\ request.function = "cc3000_socket_close" /\ ~ returning =>
          ~ Active(request.sd)
    /\ request.function \in {"cc3000_req_accept", "cc3000_req_socket"} =>
          (M_IS_VALID_SD(result) => result \in devOpen \cup forgotten)

HandleInv ==
    /\ made \cap handed = {}
    /\ request.function \in {"cc3000_req_accept", "cc3000_socket_close"} =>
          request.sd \notin handed

SocketInv ==
    /\ TypeOK /\ RequestInv /\ HandleInv
    /\ ActiveMeansOpen /\ AcceptedIsActive

-----------------------------------------------------------------------------
\* The numbers of sockets are what M_IS_VALID_SD accepts.
LEMMA SdRange ==
    /\ \A sd \in DeviceSds : sd \in 0..7 /\ M_IS_VALID_SD(sd)
    /\ \A sd \in Int : M_IS_VALID_SD(sd) <=> sd \in 0..7
  BY DeviceSdsAssumption DEF M_IS_VALID_SD

\* Two different states of a socket
LEMMA StatusValues ==
    \A sd \in 0..7 : Active(sd) <=> status[sd] = SOCKET_STATUS_ACTIVE
  BY DEF Active, get_socket_active_status, M_IS_VALID_SD

\* A function that is called on a socket has one of the device's.
LEMMA RequestShape ==
    ASSUME NEW r \in Requests \cup {NoRequest, StartRequest}
    PROVE  r.function \in {"cc3000_listen", "cc3000_connect",
                           "cc3000_req_accept", "cc3000_socket_close"} =>
               r.sd \in DeviceSds
  BY DEF Requests, NoRequest, StartRequest, Request

\* What every state of the invariant knows of its bits
LEMMA SetStatus ==
    ASSUME TypeOK, NEW Sd \in 0..7,
           NEW Status \in {SOCKET_STATUS_ACTIVE, SOCKET_STATUS_INACTIVE},
           set_socket_active_status(Sd, Status)
    PROVE  /\ status' \in [0..7 -> {SOCKET_STATUS_ACTIVE,
                                    SOCKET_STATUS_INACTIVE}]
           /\ \A sd \in 0..7 :
                 Active(sd)' <=> IF sd = Sd THEN Status = SOCKET_STATUS_ACTIVE
                                            ELSE Active(sd)
  <1>1. status' = [sd \in 0..7 |-> IF sd = Sd THEN Status ELSE status[sd]]
    BY DEF set_socket_active_status, M_IS_VALID_SD
  <1>2. \A sd \in 0..7 : Active(sd)' <=> status'[sd] = SOCKET_STATUS_ACTIVE
    BY DEF Active, get_socket_active_status, M_IS_VALID_SD
  <1> QED  BY <1>1, <1>2, StatusValues DEF TypeOK

\* The bits, the device's sockets and the caller's handles at the start
LEMMA InitSocketInv == Init => SocketInv
  <1> SUFFICES ASSUME Init PROVE SocketInv  OBVIOUS
  <1> USE DEF Init, Async!Init
  <1>1. TypeOK
    BY DEF TypeOK
  <1>2. \A sd \in 0..7 : ~ Active(sd)
    BY StatusValues DEF SOCKET_STATUS_ACTIVE, SOCKET_STATUS_INACTIVE
  <1>3. request.function = "none"
    BY DEF NoRequest, Request
  <1> QED
    BY <1>1, <1>2, <1>3, SdRange
    DEF SocketInv, RequestInv, HandleInv, ActiveMeansOpen, AcceptedIsActive

-----------------------------------------------------------------------------
(* Every step keeps the types.                                             *)

\* A request that is begun is one of the caller's.
LEMMA BeginTypes ==
    ASSUME TypeOK, NEW r \in Requests, Begin(r)
    PROVE  /\ phase' = "waiting" /\ request' = r /\ delivered' = FALSE
           /\ phase = "idle" /\ result' = NoResult
           /\ UNCHANGED <<status, devOpen, devListening, forgotten>>
  BY DEF Begin, Async!Begin

\* The caller's requests, one for each function and socket
LEMMA CallerRequests ==
    /\ Request("cc3000_req_socket", NoSocket) \in Requests
    /\ \A sd \in DeviceSds :
          \A f \in {"cc3000_listen", "cc3000_connect", "cc3000_req_accept",
                   "cc3000_socket_close"} : Request(f, sd) \in Requests
  BY DEF Requests

LEMMA CallTypeOK ==
    ASSUME TypeOK,
           \/ cc3000_req_socket
           \/ \E f \in {"cc3000_listen", "cc3000_connect",
                        "cc3000_req_accept"} : BeginOn(f)
           \/ \E sd \in made \cup handed : cc3000_socket_close(sd)
    PROVE  TypeOK'
  <1>1. ASSUME cc3000_req_socket PROVE TypeOK'
    BY <1>1, BeginTypes, CallerRequests
    DEF cc3000_req_socket, TypeOK, callerVars
  <1>2. ASSUME NEW f \in {"cc3000_listen", "cc3000_connect",
                         "cc3000_req_accept"}, BeginOn(f)
        PROVE  TypeOK'
    <2>1. PICK sd \in made : Begin(Request(f, sd))
      BY <1>2 DEF BeginOn
    <2>2. Request(f, sd) \in Requests
      BY CallerRequests DEF TypeOK
    <2> QED  BY <1>2, <2>1, <2>2, BeginTypes DEF BeginOn, TypeOK, callerVars
  <1>3. ASSUME NEW sd \in made \cup handed, cc3000_socket_close(sd)
        PROVE  TypeOK'
    <2>1. Request("cc3000_socket_close", sd) \in Requests
      BY CallerRequests DEF TypeOK
    <2> QED  BY <1>3, <2>1, BeginTypes DEF cc3000_socket_close, TypeOK
  <1> QED  BY <1>1, <1>2, <1>3

LEMMA CloseTypeOK ==
    ASSUME SocketInv, CloseReturns
    PROVE  TypeOK' /\ request.sd \in DeviceSds
  <1>1. request.sd \in DeviceSds
    BY RequestShape DEF SocketInv, RequestInv, TypeOK, CloseReturns
  <1>2. status' \in [0..7 -> {SOCKET_STATUS_ACTIVE, SOCKET_STATUS_INACTIVE}]
    <2>1. PICK Sd \in 0..7 : Sd = request.sd
      BY <1>1, SdRange
    <2>2. set_socket_active_status(Sd, SOCKET_STATUS_INACTIVE)
      BY <2>1 DEF CloseReturns
    <2> QED  BY <2>2, SetStatus DEF SocketInv
  <1> QED
    BY <1>1, <1>2
    DEF SocketInv, TypeOK, CloseReturns, requestVars, deviceVars, callerVars

\* A result that passes for a socket is one of the device's.
LEMMA ResultShape ==
    ASSUME SocketInv,
           request.function \in {"cc3000_req_accept", "cc3000_req_socket"}
    PROVE  /\ M_IS_VALID_SD(result) => result \in DeviceSds
           /\ M_IS_VALID_SD(result) <=> result \in 0..7
  <1>1. result \in Int
    BY SdRange
    DEF SocketInv, TypeOK, SOC_ERROR, SOC_IN_PROGRESS, NoResult
  <1> QED
    BY <1>1, SdRange DEF SocketInv, RequestInv, TypeOK

\* What collecting leaves alone
LEMMA CollectTypes ==
    ASSUME TypeOK, Collect
    PROVE  /\ phase' = "idle" /\ request' = NoRequest /\ delivered' = FALSE
           /\ phase = "ready" /\ ~ returning /\ result' = NoResult
           /\ UNCHANGED <<returning, devOpen, devListening, forgotten>>
  BY DEF Collect, Async!Collect

LEMMA CollectTypeOK ==
    ASSUME SocketInv, cc3000_get_accecpt \/ GetSocket \/ GetReturn
    PROVE  TypeOK'
  <1>1. Collect
    BY DEF cc3000_get_accecpt, GetSocket, GetReturn
  <1>2. ASSUME status' \in [0..7 -> {SOCKET_STATUS_ACTIVE,
                                    SOCKET_STATUS_INACTIVE}],
               made' \subseteq DeviceSds, handed' \subseteq DeviceSds
        PROVE  TypeOK'
    BY <1>1, <1>2, CollectTypes DEF SocketInv, TypeOK
  <1>3. CASE cc3000_get_accecpt /\ M_IS_VALID_SD(result)
    <2>1. PICK Sd \in DeviceSds : Sd = result /\ Sd \in 0..7
      BY <1>3, ResultShape DEF cc3000_get_accecpt
    <2>2. /\ set_socket_active_status(Sd, SOCKET_STATUS_ACTIVE)
          /\ handed' = handed \cup {Sd} /\ made' = made \ {Sd}
      BY <1>3, <2>1 DEF cc3000_get_accecpt
    <2>3. status' \in [0..7 -> {SOCKET_STATUS_ACTIVE, SOCKET_STATUS_INACTIVE}]
      BY <2>1, <2>2, SetStatus DEF SocketInv
    <2> QED  BY <1>2, <2>2, <2>3 DEF SocketInv, TypeOK
  <1>4. CASE cc3000_get_accecpt /\ ~ M_IS_VALID_SD(result)
    <2>1. PICK Sd \in 0..7 : Sd = request.sd
      BY <1>4, RequestShape, SdRange DEF SocketInv, TypeOK, cc3000_get_accecpt
    <2>2. set_socket_active_status(Sd, SOCKET_STATUS_INACTIVE)
      BY <1>4, <2>1 DEF cc3000_get_accecpt
    <2>3. status' \in [0..7 -> {SOCKET_STATUS_ACTIVE, SOCKET_STATUS_INACTIVE}]
      BY <2>2, SetStatus DEF SocketInv
    <2> QED
      BY <1>2, <1>4, <2>3 DEF SocketInv, TypeOK, cc3000_get_accecpt, callerVars
  <1>5. CASE GetSocket
    <2>1. result \in 0..7 => result \in DeviceSds
      BY <1>5, ResultShape DEF GetSocket
    <2> QED  BY <1>2, <1>5, <2>1 DEF SocketInv, TypeOK, GetSocket
  <1>6. CASE GetReturn
    BY <1>2, <1>6 DEF SocketInv, TypeOK, GetReturn, callerVars
  <1> QED  BY <1>3, <1>4, <1>5, <1>6

LEMMA PowerTypeOK ==
    ASSUME TypeOK, cc3000_start \/ cc3000_stop
    PROVE  TypeOK'
  <1>1. CASE cc3000_start
    BY <1>1 DEF TypeOK, cc3000_start, Async!PowerUp, callerVars
  <1>2. CASE cc3000_stop
    BY <1>2 DEF TypeOK, cc3000_stop, Async!PowerDown
  <1> QED  BY <1>1, <1>2

-----------------------------------------------------------------------------
(* What the device may do to its sockets.                                  *)

\* DeviceExecutes, by what it does to them
DeviceExecutesBy ==
    \/ /\ request.function \in {"cc3000_req_accept", "cc3000_req_socket"}
       /\ DeviceOpens
    \/ \E value \in {0, SOC_ERROR, SOC_IN_PROGRESS} :
          /\ DeviceAnswers(value)
          /\ value = 0 => request.function \in {"cc3000_start",
                                                "cc3000_connect"}
    \/ /\ request.function = "cc3000_listen" /\ request.sd \in devOpen
       /\ devListening' = devListening \cup {request.sd}
       /\ result' = 0
       /\ UNCHANGED <<devOpen, forgotten>>
    \/ /\ request.function = "cc3000_socket_close"
       /\ devOpen' = devOpen \ {request.sd}
       /\ devListening' = devListening \ {request.sd}
       /\ result' \in {0, SOC_ERROR}
       /\ UNCHANGED forgotten

LEMMA DeviceCases ==
    ASSUME DeviceExecutes
    PROVE  /\ DeviceExecutesBy
           /\ result = NoResult /\ phase = "waiting"
           /\ UNCHANGED <<requestVars, callerVars, status, returning>>
  <1>1. SOC_ERROR # 0 /\ SOC_IN_PROGRESS # 0
    BY DEF SOC_ERROR, SOC_IN_PROGRESS
  <1>2. /\ result = NoResult /\ phase = "waiting"
        /\ UNCHANGED <<requestVars, callerVars, status, returning>>
    BY DEF DeviceExecutes, CanExecute
  <1>3. \/ CanExecute("cc3000_start") /\ DeviceAnswers(0)
        \/ CanExecute("cc3000_connect") /\ DeviceAnswers(0)
        \/ DeviceAnswers(SOC_ERROR) \/ DeviceAnswers(SOC_IN_PROGRESS)
        \/ CanExecute("cc3000_req_socket") /\ DeviceOpens
        \/ CanExecute("cc3000_req_accept") /\ DeviceOpens
        \/ /\ CanExecute("cc3000_listen") /\ request.sd \in devOpen
           /\ devListening' = devListening \cup {request.sd}
           /\ result' = 0
           /\ UNCHANGED <<devOpen, forgotten>>
        \/ /\ CanExecute("cc3000_socket_close")
           /\ devOpen' = devOpen \ {request.sd}
           /\ devListening' = devListening \ {request.sd}
           /\ result' = IF request.sd \in devOpen THEN 0 ELSE SOC_ERROR
           /\ UNCHANGED forgotten
    BY DEF DeviceExecutes
  <1>4. DeviceExecutesBy
    BY <1>1, <1>3 DEF DeviceExecutesBy, CanExecute
  <1> QED  BY <1>2, <1>4

LEMMA DeviceTypeOK ==
    ASSUME TypeOK,
           DeviceExecutes \/ Answer \/ \E sd \in DeviceSds : DeviceTimesOut(sd)
    PROVE  TypeOK'
  <1>1. CASE DeviceExecutes
    <2>1. /\ DeviceExecutesBy
          /\ UNCHANGED <<requestVars, callerVars, status, returning>>
      BY <1>1, DeviceCases
    <2>2. /\ result' \in DeviceSds \cup {0, SOC_ERROR, SOC_IN_PROGRESS,
                                         NoResult}
          /\ devOpen' \subseteq DeviceSds /\ devListening' \subseteq devOpen'
          /\ forgotten' \subseteq DeviceSds \ devOpen'
      BY <2>1 DEF DeviceExecutesBy, DeviceOpens, DeviceAnswers, TypeOK
    <2> QED  BY <2>1, <2>2 DEF TypeOK, requestVars, callerVars
  <1>2. CASE Answer
    BY <1>2 DEF TypeOK, Answer, Async!Answer, deviceVars, callerVars
  <1>3. CASE \E sd \in DeviceSds : DeviceTimesOut(sd)
    BY <1>3 DEF TypeOK, DeviceTimesOut, requestVars, callerVars
  <1> QED  BY <1>1, <1>2, <1>3

-----------------------------------------------------------------------------
(* Every step keeps what is true of the request and of the handles.        *)

\* A step that leaves the bits and the request alone, and takes no socket away
\* that is open or forgotten, keeps everything but the types.
LEMMA Frame ==
    ASSUME SocketInv, UNCHANGED <<status, request, returning, made, handed>>,
           phase' = phase \/ phase' \in {"waiting", "ready"},
           devOpen \cup forgotten \subseteq devOpen' \cup forgotten',
           M_IS_VALID_SD(result)' =>
               result' = result \/ result' \in devOpen' \cup forgotten'
    PROVE  RequestInv' /\ HandleInv' /\ ActiveMeansOpen' /\ AcceptedIsActive'
  <1>1. \A sd : Active(sd)' <=> Active(sd)
    BY DEF Active, get_socket_active_status
  <1>2. RequestInv'
    BY <1>1 DEF SocketInv, RequestInv, M_IS_VALID_SD
  <1>3. HandleInv' /\ ActiveMeansOpen' /\ AcceptedIsActive'
    BY <1>1 DEF SocketInv, HandleInv, ActiveMeansOpen, AcceptedIsActive
  <1> QED  BY <1>2, <1>3

LEMMA CallInv ==
    ASSUME SocketInv, TypeOK',
           \/ cc3000_req_socket
           \/ \E f \in {"cc3000_listen", "cc3000_connect",
                        "cc3000_req_accept"} : BeginOn(f)
           \/ \E sd \in made \cup handed : cc3000_socket_close(sd)
    PROVE  SocketInv'
  <1>1. PICK r \in Requests :
          /\ Begin(r)
          /\ \/ /\ r.function \in {"cc3000_req_socket", "cc3000_listen",
                                    "cc3000_connect"}
                /\ UNCHANGED <<made, handed, returning>>
             \/ /\ r.function = "cc3000_req_accept" /\ r.sd \in made
                /\ UNCHANGED <<made, handed, returning>>
             \/ /\ r.function = "cc3000_socket_close"
                /\ returning' = TRUE
                /\ made' = made \ {r.sd} /\ handed' = handed \ {r.sd}
    <2>1. CASE cc3000_req_socket
      BY <2>1, CallerRequests DEF cc3000_req_socket, callerVars, Request
    <2>2. ASSUME NEW f \in {"cc3000_listen", "cc3000_connect",
                           "cc3000_req_accept"}, BeginOn(f)
          PROVE  \E sd \in made :
                    /\ Request(f, sd) \in Requests
                    /\ Begin(Request(f, sd))
                    /\ Request(f, sd).function = f /\ Request(f, sd).sd = sd
                    /\ UNCHANGED <<made, handed, returning>>
      BY <2>2, CallerRequests
      DEF SocketInv, TypeOK, BeginOn, callerVars, Request
    <2>3. ASSUME NEW sd \in made \cup handed, cc3000_socket_close(sd)
          PROVE  LET r == Request("cc3000_socket_close", sd)
                 IN  /\ r \in Requests /\ Begin(r)
                     /\ r.function = "cc3000_socket_close" /\ r.sd = sd
                     /\ returning' = TRUE
                     /\ made' = made \ {sd} /\ handed' = handed \ {sd}
      BY <2>3, CallerRequests
      DEF SocketInv, TypeOK, cc3000_socket_close, Request
    <2> QED  BY <2>1, <2>2, <2>3
  <1>2. /\ phase' = "waiting" /\ request' = r /\ phase = "idle"
        /\ result' = NoResult
        /\ UNCHANGED <<status, devOpen, devListening, forgotten>>
    BY <1>1, BeginTypes DEF SocketInv
  <1>3. ~ returning
    BY <1>2 DEF SocketInv, RequestInv
  <1>4. \A sd : Active(sd)' <=> Active(sd)
    BY <1>2 DEF Active, get_socket_active_status
  <1>5. ~ M_IS_VALID_SD(result)'
    BY <1>2 DEF M_IS_VALID_SD, NoResult
  <1>6. RequestInv'
    BY <1>1, <1>2, <1>3, <1>5 DEF RequestInv
  <1>7. HandleInv' /\ AcceptedIsActive'
    BY <1>1, <1>2, <1>4 DEF SocketInv, HandleInv, AcceptedIsActive
  <1>8. ActiveMeansOpen'
    BY <1>2, <1>3, <1>4 DEF SocketInv, ActiveMeansOpen
  <1> QED  BY <1>6, <1>7, <1>8 DEF SocketInv

LEMMA CloseInv ==
    ASSUME SocketInv, CloseReturns, TypeOK'
    PROVE  SocketInv'
  <1>1. PICK Sd \in 0..7 :
          Sd = request.sd /\ set_socket_active_status(Sd, SOCKET_STATUS_INACTIVE)
    BY CloseTypeOK, SdRange DEF CloseReturns
  <1>2. \A sd \in 0..7 : Active(sd)' <=> sd # Sd /\ Active(sd)
    BY <1>1, SetStatus
    DEF SocketInv, SOCKET_STATUS_ACTIVE, SOCKET_STATUS_INACTIVE
  <1>3. /\ Sd = request.sd' /\ UNCHANGED <<phase, request, result, devOpen, forgotten, made, handed>>
        /\ ~ returning' /\ request.function = "cc3000_socket_close"
    BY <1>1 DEF CloseReturns, requestVars, deviceVars, callerVars, SocketInv,
                RequestInv
  <1>4. RequestInv'
    <2>1. ~ Active(Sd)'
      BY <1>2
    <2>2. ~ Active(request.sd)'
      BY <1>3, <2>1
      DEF Active, get_socket_active_status
    <2> QED  BY <1>3, <2>2 DEF SocketInv, RequestInv
  <1>5. HandleInv'
    BY <1>3 DEF SocketInv, HandleInv
  <1>6. ActiveMeansOpen'
    BY <1>1, <1>2, <1>3, SdRange DEF SocketInv, ActiveMeansOpen
  <1>7. AcceptedIsActive'
    BY <1>1, <1>2, <1>3, SdRange DEF SocketInv, HandleInv, AcceptedIsActive, TypeOK
  <1> QED  BY <1>4, <1>5, <1>6, <1>7 DEF SocketInv

LEMMA CollectInv ==
    ASSUME SocketInv, cc3000_get_accecpt \/ GetSocket \/ GetReturn, TypeOK'
    PROVE  SocketInv'
  <1>1. /\ request' = NoRequest /\ phase = "ready"
        /\ ~ returning /\ result' = NoResult
        /\ UNCHANGED <<returning, devOpen, devListening, forgotten>>
    BY CollectTypes DEF SocketInv, cc3000_get_accecpt, GetSocket, GetReturn
  <1>2. NoRequest.function = "none"
    BY DEF NoRequest, Request
  <1>3. RequestInv'
    BY <1>1, <1>2 DEF RequestInv
  <1>4. \A sd \in DeviceSds : Active(sd) => sd \in devOpen \cup forgotten
    BY <1>1 DEF SocketInv, ActiveMeansOpen
  <1>5. CASE cc3000_get_accecpt /\ M_IS_VALID_SD(result)
    <2>1. PICK Sd \in DeviceSds : Sd = result /\ Sd \in 0..7
      BY <1>5, ResultShape DEF cc3000_get_accecpt
    <2>2. Sd \in devOpen \cup forgotten
      BY <1>5, <2>1 DEF SocketInv, RequestInv, cc3000_get_accecpt
    <2>3. \A sd \in 0..7 : Active(sd)' <=> sd = Sd \/ Active(sd)
      <3>1. set_socket_active_status(Sd, SOCKET_STATUS_ACTIVE)
        BY <1>5, <2>1 DEF cc3000_get_accecpt
      <3> QED  BY <2>1, <3>1, SetStatus DEF SocketInv
    <2>4. handed' = handed \cup {Sd} /\ made' = made \ {Sd}
      BY <1>5, <2>1 DEF cc3000_get_accecpt
    <2>5. HandleInv'
      BY <1>1, <1>2, <2>4 DEF SocketInv, HandleInv
    <2>6. ActiveMeansOpen'
      BY <1>1, <1>4, <2>2, <2>3, SdRange DEF ActiveMeansOpen
    <2>7. AcceptedIsActive'
      BY <2>3, <2>4, SdRange DEF SocketInv, AcceptedIsActive, TypeOK
    <2> QED  BY <1>3, <2>5, <2>6, <2>7 DEF SocketInv
  <1>6. CASE cc3000_get_accecpt /\ ~ M_IS_VALID_SD(result)
    <2>1. PICK Sd \in 0..7 : Sd = request.sd /\ Sd \notin handed
      BY <1>6, RequestShape, SdRange
      DEF SocketInv, HandleInv, TypeOK, cc3000_get_accecpt
    <2>2. \A sd \in 0..7 : Active(sd)' <=> sd # Sd /\ Active(sd)
      <3>1. set_socket_active_status(Sd, SOCKET_STATUS_INACTIVE)
        BY <1>6, <2>1 DEF cc3000_get_accecpt
      <3> QED
        BY <3>1, SetStatus
        DEF SocketInv, SOCKET_STATUS_ACTIVE, SOCKET_STATUS_INACTIVE
    <2>3. UNCHANGED <<made, handed>>
      BY <1>6 DEF cc3000_get_accecpt, callerVars
    <2>4. HandleInv'
      BY <1>1, <1>2, <2>3 DEF SocketInv, HandleInv
    <2>5. ActiveMeansOpen'
      BY <1>1, <1>4, <2>2, SdRange DEF ActiveMeansOpen
    <2>6. AcceptedIsActive'
      BY <2>1, <2>2, <2>3, SdRange DEF SocketInv, AcceptedIsActive, TypeOK
    <2> QED  BY <1>3, <2>4, <2>5, <2>6 DEF SocketInv
  <1>7. CASE GetSocket \/ GetReturn
    <2>1. /\ UNCHANGED status /\ handed' \subseteq handed
          /\ made' \cap handed' = {}
      BY <1>7 DEF SocketInv, HandleInv, GetSocket, GetReturn, callerVars
    <2>2. \A sd : Active(sd)' <=> Active(sd)
      BY <2>1 DEF Active, get_socket_active_status
    <2>3. HandleInv'
      BY <1>1, <1>2, <2>1 DEF HandleInv
    <2>4. ActiveMeansOpen' /\ AcceptedIsActive'
      BY <1>1, <1>4, <2>1, <2>2
      DEF SocketInv, ActiveMeansOpen, AcceptedIsActive
    <2> QED  BY <1>3, <2>3, <2>4 DEF SocketInv
  <1> QED  BY <1>5, <1>6, <1>7

LEMMA PowerInv ==
    ASSUME SocketInv, cc3000_start \/ cc3000_stop, TypeOK'
    PROVE  SocketInv'
  <1>1. \A sd : Active(sd)' <=> Active(sd)
    BY DEF Active, get_socket_active_status, cc3000_start, cc3000_stop
  <1>2. /\ request' \in {NoRequest, StartRequest}
        /\ ~ returning /\ UNCHANGED returning
        /\ devOpen \cup forgotten \subseteq devOpen' \cup forgotten'
        /\ made' \subseteq made /\ handed' \subseteq handed
    BY DEF SocketInv, RequestInv, cc3000_start, cc3000_stop, Async!PowerUp,
           Async!PowerDown, callerVars
  <1>3. request'.function \in {"none", "cc3000_start"}
    BY <1>2 DEF NoRequest, StartRequest, Request
  <1>4. RequestInv' /\ HandleInv'
    BY <1>2, <1>3 DEF SocketInv, RequestInv, HandleInv
  <1>5. ActiveMeansOpen' /\ AcceptedIsActive'
    BY <1>1, <1>2 DEF SocketInv, ActiveMeansOpen, AcceptedIsActive
  <1> QED  BY <1>4, <1>5 DEF SocketInv

LEMMA DeviceInv ==
    ASSUME SocketInv, TypeOK',
           DeviceExecutes \/ Answer \/ \E sd \in DeviceSds : DeviceTimesOut(sd)
    PROVE  SocketInv'
  <1>1. CASE DeviceExecutes
    <2>1. /\ DeviceExecutesBy
          /\ result = NoResult /\ phase = "waiting"
          /\ UNCHANGED <<phase, request, status, returning, made, handed>>
      BY <1>1, DeviceCases DEF requestVars, callerVars
    <2>2. CASE request.function = "cc3000_socket_close"
               /\ devOpen' = devOpen \ {request.sd}
               /\ UNCHANGED forgotten
      <3>1. \A sd : Active(sd)' <=> Active(sd)
        BY <2>1 DEF Active, get_socket_active_status
      <3>2. RequestInv'
        BY <2>1, <2>2, <3>1 DEF SocketInv, RequestInv
      <3>3. HandleInv' /\ AcceptedIsActive'
        BY <2>1, <3>1 DEF SocketInv, HandleInv, AcceptedIsActive
      <3>4. ActiveMeansOpen'
        BY <2>1, <2>2, <3>1 DEF SocketInv, RequestInv, ActiveMeansOpen
      <3> QED  BY <3>2, <3>3, <3>4 DEF SocketInv
    <2>3. CASE DeviceOpens
      <3>1. /\ devOpen \cup forgotten \subseteq devOpen' \cup forgotten'
            /\ result' \in devOpen'
        BY <2>3 DEF DeviceOpens
      <3> QED  BY <2>1, <3>1, Frame DEF SocketInv
    <2>4. CASE /\ result' \in {0, SOC_ERROR, SOC_IN_PROGRESS}
               /\ result' = 0 => request.function \in
                      {"cc3000_start", "cc3000_connect", "cc3000_listen"}
               /\ UNCHANGED <<devOpen, forgotten>>
      <3>1. \A sd : Active(sd)' <=> Active(sd)
        BY <2>1 DEF Active, get_socket_active_status
      <3>2. ~ M_IS_VALID_SD(result)' \/ result' = 0
        BY <2>4 DEF M_IS_VALID_SD, SOC_ERROR, SOC_IN_PROGRESS
      <3>3. RequestInv'
        BY <2>1, <2>4, <3>1, <3>2 DEF SocketInv, RequestInv
      <3>4. HandleInv' /\ ActiveMeansOpen' /\ AcceptedIsActive'
        BY <2>1, <2>4, <3>1
        DEF SocketInv, HandleInv, ActiveMeansOpen, AcceptedIsActive
      <3> QED  BY <3>3, <3>4 DEF SocketInv
    <2> QED
      BY <2>1, <2>2, <2>3, <2>4 DEF DeviceExecutesBy, DeviceAnswers
  <1>2. CASE Answer
    BY <1>2, Frame
    DEF SocketInv, Answer, Async!Answer, deviceVars, callerVars
  <1>3. CASE \E sd \in DeviceSds : DeviceTimesOut(sd)
    <2>1. /\ devOpen \cup forgotten \subseteq devOpen' \cup forgotten'
          /\ UNCHANGED <<phase, request, result, status, returning, made, handed>>
      BY <1>3 DEF DeviceTimesOut, requestVars, callerVars
    <2> QED  BY <2>1, Frame DEF SocketInv
  <1> QED  BY <1>1, <1>2, <1>3

-----------------------------------------------------------------------------
(* The invariant, and what follows.                                        *)

LEMMA SocketInvCorrect == Spec => []SocketInv
  <1>1. ASSUME SocketInv, Next PROVE SocketInv'
    <2> USE <1>1 DEF SocketInv
    <2>1. CASE \/ cc3000_req_socket
               \/ BeginOn("cc3000_listen") \/ BeginOn("cc3000_connect")
               \/ BeginOn("cc3000_req_accept")
               \/ \E sd \in made \cup handed : cc3000_socket_close(sd)
      BY <2>1, CallTypeOK, CallInv
    <2>2. CASE CloseReturns
      BY <2>2, CloseTypeOK, CloseInv
    <2>3. CASE cc3000_get_accecpt \/ GetSocket \/ GetReturn
      BY <2>3, CollectTypeOK, CollectInv
    <2>4. CASE cc3000_start \/ cc3000_stop
      BY <2>4, PowerTypeOK, PowerInv
    <2>5. CASE DeviceExecutes \/ Answer
               \/ \E sd \in DeviceSds : DeviceTimesOut(sd)
      BY <2>5, DeviceTypeOK, DeviceInv
    <2> QED  BY <1>1, <2>1, <2>2, <2>3, <2>4, <2>5 DEF Next
  <1>2. ASSUME SocketInv, UNCHANGED vars PROVE SocketInv'
    BY <1>2
    DEF SocketInv, vars, requestVars, deviceVars, callerVars, TypeOK,
        RequestInv, HandleInv, ActiveMeansOpen, AcceptedIsActive, Active,
        get_socket_active_status
  <1> QED  BY <1>1, <1>2, InitSocketInv, PTL DEF Spec

\* Every variable of the socket API keeps its type: in particular no socket
\* number outside 0..7 gets into the status word or to the caller.
THEOREM TypeCorrect == Spec => []TypeOK
  <1>1. SocketInv => TypeOK
    BY DEF SocketInv
  <1> QED  BY <1>1, SocketInvCorrect, PTL

\* A socket the host calls active is open on the device, or was lost to a
\* restart or the inactivity timeout, or its cc3000_socket_close has not
\* returned: the bits of socket_active_status, for any socket numbers.
THEOREM ActiveMeansOpenCorrect == Spec => []ActiveMeansOpen
  <1>1. SocketInv => ActiveMeansOpen
    BY DEF SocketInv
  <1> QED  BY <1>1, SocketInvCorrect, PTL

\* No accept, failed or not, and no close takes the bit of another connection
\* that cc3000_get_accecpt has handed out, for any socket numbers.
THEOREM AcceptedIsActiveCorrect == Spec => []AcceptedIsActive
  <1>1. SocketInv => AcceptedIsActive
    BY DEF SocketInv
  <1> QED  BY <1>1, SocketInvCorrect, PTL
=============================================================================
