-------------------------- MODULE InterruptDriven --------------------------
(***************************************************************************)
(* The driver with an interrupt handler that reads the device: whenever    *)
(* interrupts are enabled and a message waits, cc3000_spi_receive may run  *)
(* between two steps of the calling thread.  This is how cc3000_wait,      *)
(* whose loop is empty, can ever return.  The interrupt handler itself is  *)
(* not in the repository; it calls cc3000_spi_receive and nothing else.    *)
(***************************************************************************)
EXTENDS Driver

vars == driverVars

Init == DriverInit

Isr ==
    /\ intEnabled
    /\ cc3000_spi_receive
    /\ UNCHANGED <<hostVars, intVars, boots>>

Next == CallerBegins \/ HostContinues \/ DeviceSteps \/ Isr

Spec == Init /\ [][Next]_vars

\* The thread that is inside an API function goes on, the device answers the
\* commands it has, and an interrupt that is pending again and again is taken
\* (it has a higher priority than the thread).  Nothing makes the caller begin
\* anything, nor the device raise anything on its own.
Fairness == WF_vars(HostContinues) /\ WF_vars(DeviceReply) /\ SF_vars(Isr)

FairSpec == Spec /\ Fairness

-----------------------------------------------------------------------------
(* Properties.                                                             *)

\* Every variable keeps its type; the caller is "off" exactly while the device
\* is, and interrupts are disabled exactly while it is off or a frame is
\* clocked.
TypeOK ==
    /\ DriverTypeOK
    /\ devOn <=> pc # "off"
    /\ intEnabled <=> pc \notin {"off", "clocking", "data"}

\* The driver implements a request as its callers understand it, up to lost
\* answers: one at a time, answered at most once, never ready before its own
\* answer has been handled, and the next one only when it has been collected.
Request == INSTANCE AsyncRequest WITH
    phase <- Phase, request <- cur, delivered <- Delivered,
    StartRequest <- cc3000_start_command, DataRequest <- RecvData,
    MayLose <- TRUE
ImplementsRequest == Request!Spec

\* While a frame is clocked nobody else reads the bus: no message is taken and
\* no global of the handler changes.
BusExclusive ==
    [][(pc \in {"clocking", "data"}) => UNCHANGED handlerVars]_vars

\* What CreditsNeverCreated needs of the states: the host has at least the
\* buffers that cc3000_send has loaded, and so few that adding the ones freed
\* never wraps; the numbers that are read or added are those the device sent.
Counted(m) == /\ Solicited(m) => m.byte \in Bytes
              /\ Freed(m) <= UsedMax
CreditInv ==
    /\ Credit <= 255
    /\ pc = "credit" => reg <= freeBuffers
    /\ retbuf.byte \in Bytes
    /\ Len(devOut) <= OutMax
    /\ \A i \in 1..Len(devOut) : Counted(devOut[i])

\* The answer to an armed request is still to come.
AnswerPending ==
    /\ pc = "idle" /\ cur # NoRequest /\ expect = cur.evt /\ Gap = 1
    /\ \/ \E i \in 1..Len(devCmds) : devCmds[i].id = desired
       \/ \E i \in 1..Len(devOut) : Answer(devOut[i]) = Awaited

\* Once armed before its answer is handled, a request becomes ready, unless
\* the caller powers the device down: neither unsolicited messages nor data
\* that is being sent keep cc3000_wait from returning.
ArmedCompletes == AnswerPending ~> (CanCollect \/ pc = "off")
=============================================================================
