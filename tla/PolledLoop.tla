----------------------------- MODULE PolledLoop -----------------------------
(***************************************************************************)
(* The driver under the main loop of _main.c: one thread polls the IRQ     *)
(* line, receives at most one message, and then runs the flow handler,     *)
(* which makes the API calls.  Nothing interrupts it, so the four steps of *)
(* a request happen with no message handled in between.                    *)
(*                                                                         *)
(* The loop hands cc3000_spi_rx_buffer to the event handler after          *)
(* cc3000_spi_receive has already done so, and does it too when            *)
(* cc3000_spi_receive returned 0 and the buffer holds an older message.    *)
(*                                                                         *)
(* cc3000_flow_handler is not in the repository.  It is any sequence of    *)
(* API calls; as the comment on cc3000_is_ready says, it polls that        *)
(* function, so it has collected what is ready when it returns.            *)
(***************************************************************************)
EXTENDS Driver

VARIABLES
    lpc,            \* the place in the loop: "check", "process" or "flow"
    rxBuffer,       \* cc3000_spi_rx_buffer
    oneTimeCall     \* one_time_call

loopVars == <<lpc, rxBuffer, oneTimeCall>>
vars == <<driverVars, loopVars>>

\* The buffer before anything is received: zeros.
EmptyBuffer == Message(0, 0, NoId, 0)

\* main runs the startup first; the model leaves it to the first flow phase,
\* before which the loop can only find the line high.
Init ==
    /\ DriverInit
    /\ lpc = "flow"
    /\ rxBuffer = EmptyBuffer
    /\ oneTimeCall = FALSE

-----------------------------------------------------------------------------
(* The loop.                                                               *)

\* The flag is reset before the receive; cc3000_interrupt_enable after it reads
\* the line, which may linger as at the end of a frame: CS has just been released.
ReenableAfterReceive(waiting) ==
    /\ intEnabled' = TRUE
    /\ isrFlag' \in BOOLEAN
    /\ waiting => isrFlag'
    /\ isrFlag' => waiting \/ LineLingers

\* "if(!cc3000_read_irq_pin() || cc3000_isr_flag)", with a message to read
PollReceive ==
    /\ lpc = "check" /\ devOut # <<>>
    /\ cc3000_spi_receive
    /\ rxBuffer' = Head(devOut)
    /\ ReenableAfterReceive(Tail(devOut) # <<>>)
    /\ lpc' = "process"
    /\ UNCHANGED <<hostVars, boots, oneTimeCall>>

\* the same, woken by the flag alone: nothing is received
PollReceiveNothing ==
    /\ lpc = "check" /\ devOut = <<>> /\ isrFlag
    /\ ReenableAfterReceive(FALSE)
    /\ lpc' = "process"
    /\ UNCHANGED <<handlerVars, hostVars, devVars, boots, rxBuffer,
                   oneTimeCall>>

PollSkip ==
    /\ lpc = "check" /\ devOut = <<>> /\ ~ isrFlag
    /\ lpc' = "flow"
    /\ UNCHANGED <<driverVars, rxBuffer, oneTimeCall>>

\* "process the recieved data"
PollProcess ==
    /\ lpc = "process"
    /\ cc3000_event_handler(rxBuffer)
    /\ lpc' = "flow"
    /\ UNCHANGED <<hostVars, intVars, devVars, boots, rxBuffer, oneTimeCall>>

\* A defective variant: it may return without collecting what is ready.
FlowReturnsEarly ==
    /\ lpc = "flow" /\ pc \in {"off", "idle"}
    /\ oneTimeCall' = (oneTimeCall \/ dhcpComplete)
    /\ lpc' = "check"
    /\ UNCHANGED <<driverVars, rxBuffer>>

\* The flow handler returns; with an address, the loop makes its one-time call.
FlowReturns ==
    /\ lpc = "flow" /\ pc \in {"off", "idle"} /\ ~ CanCollect
    /\ oneTimeCall' = (oneTimeCall \/ dhcpComplete)
    /\ lpc' = "check"
    /\ UNCHANGED <<driverVars, rxBuffer>>

FlowCalls == lpc = "flow" /\ CallerBegins /\ UNCHANGED loopVars

FlowContinues == lpc = "flow" /\ HostContinues /\ UNCHANGED loopVars

Device == DeviceSteps /\ UNCHANGED loopVars

LoopGoesOn ==
    \/ PollReceive
    \/ PollReceiveNothing
    \/ PollSkip
    \/ PollProcess
    \/ FlowReturns
    \/ FlowContinues

Next == LoopGoesOn \/ FlowCalls \/ Device

Spec == Init /\ [][Next]_vars

\* The loop runs forever, the flow handler returns, and the device answers.
Fairness == WF_vars(LoopGoesOn) /\ WF_vars(DeviceReply /\ UNCHANGED loopVars)

FairSpec == Spec /\ Fairness

-----------------------------------------------------------------------------
(* Properties.                                                             *)

TypeOK ==
    /\ DriverTypeOK
    /\ lpc \in {"check", "process", "flow"}
    /\ rxBuffer \in Messages \cup {EmptyBuffer}
    /\ oneTimeCall \in BOOLEAN

\* The loop implements a request as its callers understand it, without loss:
\* the step that handles the answer, the first time, makes the request ready.
Request == INSTANCE AsyncRequest WITH
    phase <- Phase, request <- cur, delivered <- Delivered,
    StartRequest <- cc3000_start_command, DataRequest <- RecvData,
    MayLose <- FALSE
ImplementsRequest == Request!Spec

\* What the properties need to be inductive, besides AnswerInv, while the device
\* is started only once.

\* The loop receives and processes only between API calls, and not before the
\* flow handler has collected what is ready.
TurnInv ==
    /\ pc \notin {"off", "idle"} => lpc = "flow"
    /\ lpc = "check" => ~ CanCollect

\* The only start finds the counters equal and the flag clear.
FirstStartInv ==
    /\ boots = 0 => pc = "off" /\ lpc # "process" /\ ~ isrFlag
                    /\ cc3000_is_ready
    /\ pc # "off" => Gap <= 1

\* The flag alone never wakes the loop, unless the device is off: a message
\* waits too.
FlagInv == pc # "off" /\ isrFlag => devOut # <<>>

\* Once the request is sent its opcode is expected until it is ready, which it
\* is as soon as its answer has been handled; the data of a recv is handled only
\* when it is asked for.
ArmedInv ==
    cur # NoRequest =>
        /\ pc \in {"idle", "credit", "taken", "data"} =>
              expect = cur.evt \/ cc3000_is_ready
        /\ lastHandled = Awaited => cc3000_is_ready
        /\ cur.cmd = HCI_CMND_RECV => lastHandled \in {NoAnswer, Awaited}

\* The buffer holds zeros, an event that answers nothing, or an answer.
BufferInv ==
    rxBuffer # EmptyBuffer =>
        \/ /\ ~ Solicited(rxBuffer) /\ rxBuffer.type = HCI_TYPE_EVENT
           /\ rxBuffer.op \notin NormalEvents \cup {HCI_DATA_RECV}
        \/ /\ Solicited(rxBuffer) /\ rxBuffer.type = HCI_TYPE_EVENT
           /\ rxBuffer.op \in NormalEvents
        \/ /\ Solicited(rxBuffer) /\ rxBuffer.type = HCI_TYPE_DATA
           /\ rxBuffer.op = HCI_DATA_RECV

\* To handle the message in the buffer a second time changes nothing of the
\* request nor of the return buffer: it is not expected any more, and what the
\* first time stored is still there.
AgainInv ==
    lpc = "process" /\ pc # "off" =>
        /\ rxBuffer # EmptyBuffer
        /\ rxBuffer.op # expect
        /\ Solicited(rxBuffer) =>
              /\ lastHandled = Answer(rxBuffer)
              /\ ~ IsUnsolicited(rxBuffer.op) =>
                    retbuf = [of |-> Answer(rxBuffer), byte |-> rxBuffer.byte]
        /\ rxBuffer.op = HCI_EVNT_WLAN_UNSOL_CONNECT => connected
        /\ rxBuffer.op = HCI_EVNT_WLAN_UNSOL_DISCONNECT => ~ connected

LoopInv ==
    /\ TurnInv /\ FirstStartInv /\ FlagInv /\ ArmedInv /\ BufferInv
    /\ AgainInv

\* Without interrupts no request is lost: every one becomes ready, the data of
\* a recv included, unless the caller powers the device down.
EveryRequestCompletes ==
    pc = "idle" /\ cur # NoRequest ~> CanCollect \/ pc = "off"
=============================================================================
