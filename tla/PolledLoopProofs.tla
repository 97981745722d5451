-------------------------- MODULE PolledLoopProofs --------------------------
(***************************************************************************)
(* Theorems about PolledLoop, although the loop hands every message to the *)
(* handler twice and old ones again.  What has to do with the answers to   *)
(* requests is proved for a device that is started once; the rest for all  *)
(* values of the constants.                                                *)
(***************************************************************************)
EXTENDS PolledLoop, LinkProofs

\* The handler may be given the buffer at any time: it holds a message, whose
\* effect is known, or zeros, which it drops.
LEMMA ProcessEffect ==
    ASSUME TypeOK, PollProcess
    PROVE  \/ rxBuffer \in Messages /\ cc3000_event_handler(rxBuffer)
           \/ UNCHANGED handlerVars
<1>1. rxBuffer \in Messages \cup {EmptyBuffer} /\ cc3000_event_handler(rxBuffer)
  BY DEF TypeOK, PollProcess
<1>2. CASE rxBuffer = EmptyBuffer
  <2>1. rxBuffer.type = 0 /\ rxBuffer.id = NoId
    BY <1>2 DEF EmptyBuffer, Message
  <2>2. 0 \notin {HCI_TYPE_EVENT, HCI_TYPE_DATA}
    BY DEF HCI_TYPE_EVENT, HCI_TYPE_DATA
  <2>3. OtherMessage(rxBuffer)
    BY <1>1, <2>1, <2>2
       DEF cc3000_event_handler, EventMessage, DataMessage
  <2>4. QED
    BY <1>1, <2>1, <2>3
       DEF cc3000_event_handler, OtherMessage, handlerVars, netState
<1>3. QED
  BY <1>1, <1>2

\* The loop is one of those who receive.
LEMMA PollReceives == PollReceive => Receives
BY DEF PollReceive, Receives, cc3000_spi_receive

-----------------------------------------------------------------------------
\* Every variable keeps its type in every behaviour: the buffer holds zeros or
\* the last message received.
THEOREM TypeCorrect == Spec => []TypeOK
<1>1. Init => TypeOK
  BY InitDriverTypeOK DEF Init, TypeOK
<1>2. TypeOK /\ [Next]_vars => TypeOK'
  <2> SUFFICES ASSUME TypeOK, [Next]_vars PROVE TypeOK'
    OBVIOUS
  <2>0. DriverTypeOK /\ HandlerTypeOK
    BY DEF TypeOK, DriverTypeOK
  <2>1. CASE PollReceive
    <3>1. DriverTypeOK'
      BY <2>0, <2>1, PollReceives, ReceiveDriverTypeOK
         DEF PollReceive, ReenableAfterReceive
    <3>2. Head(devOut) \in Messages
      BY <2>0, <2>1, HeadTailProperties DEF DriverTypeOK, PollReceive
    <3>3. QED
      BY <2>1, <3>1, <3>2 DEF TypeOK, PollReceive
  <2>2. CASE PollProcess
    <3>1. HandlerTypeOK'
      BY <2>0, <2>2, ProcessEffect, HandlerStep
         DEF HandlerTypeOK, handlerVars
    <3>2. QED
      BY <2>2, <3>1
         DEF TypeOK, DriverTypeOK, PollProcess, hostVars, intVars, devVars
  <2>3. CASE FlowCalls \/ FlowContinues
    <3>1. DriverTypeOK' /\ UNCHANGED loopVars
      BY <2>0, <2>3, HostDriverTypeOK DEF FlowCalls, FlowContinues
    <3>2. QED
      BY <3>1 DEF TypeOK, loopVars
  <2>4. CASE Device
    <3>1. DriverTypeOK' /\ UNCHANGED loopVars
      BY <2>0, <2>4, DeviceDriverTypeOK DEF Device
    <3>2. QED
      BY <3>1 DEF TypeOK, loopVars
  <2>5. CASE PollReceiveNothing
    <3>1. HandlerTypeOK'
      BY <2>0, <2>5 DEF HandlerTypeOK, PollReceiveNothing, handlerVars
    <3>2. intEnabled' \in BOOLEAN /\ isrFlag' \in BOOLEAN
      BY <2>5 DEF PollReceiveNothing, ReenableAfterReceive
    <3>3. DriverTypeOK'
      BY <2>0, <2>5, <3>1, <3>2
         DEF DriverTypeOK, PollReceiveNothing, hostVars, devVars
    <3>4. QED
      BY <2>5, <3>3 DEF TypeOK, PollReceiveNothing
  <2>6. CASE PollSkip \/ FlowReturns \/ UNCHANGED vars
    <3>1. UNCHANGED <<driverVars, rxBuffer>> /\ lpc' \in {"check", "flow", lpc}
      BY <2>6 DEF PollSkip, FlowReturns, vars, loopVars
    <3>2. oneTimeCall' \in BOOLEAN
      BY <2>6 DEF TypeOK, PollSkip, FlowReturns, vars, loopVars
    <3>3. DriverTypeOK'
      BY <2>0, <3>1
         DEF DriverTypeOK, HandlerTypeOK, driverVars, handlerVars, hostVars,
             intVars, devVars
    <3>4. QED
      BY <3>1, <3>2, <3>3 DEF TypeOK
  <2>7. QED
    BY <2>1, <2>2, <2>3, <2>4, <2>5, <2>6 DEF Next, LoopGoesOn
<1>3. QED
  BY <1>1, <1>2, PTL DEF Spec

\* CounterInv holds in every reachable state of the loop too.
LEMMA CounterInvCorrect == Spec => []CounterInv
<1>1. TypeOK /\ CounterInv /\ [Next]_vars => CounterInv'
  <2> SUFFICES ASSUME TypeOK, CounterInv, [Next]_vars PROVE CounterInv'
    OBVIOUS
  <2>0. DriverTypeOK
    BY DEF TypeOK
  <2>1. CASE PollReceive
    <3>1. /\ Head(devOut) \in Messages /\ UNCHANGED <<hostVars, boots>>
          /\ cc3000_event_handler(Head(devOut))
      BY <2>0, <2>1, HeadTailProperties
         DEF DriverTypeOK, PollReceive, cc3000_spi_receive
    <3>2. QED
      BY <2>0, <3>1, HandlerCounterInv
  <2>2. CASE PollProcess
    <3>1. UNCHANGED <<hostVars, boots>>
      BY <2>2 DEF PollProcess
    <3>2. CASE UNCHANGED handlerVars
      BY <3>1, <3>2, CounterInvFrame DEF handlerVars, hostVars, counters
    <3>3. CASE rxBuffer \in Messages /\ cc3000_event_handler(rxBuffer)
      BY <2>0, <3>1, <3>3, HandlerCounterInv
    <3>4. QED
      BY <2>2, <3>2, <3>3, ProcessEffect
  <2>3. CASE FlowCalls \/ FlowContinues
    BY <2>0, <2>3, HostCounterInv DEF FlowCalls, FlowContinues
  <2>4. CASE Device
    BY <2>4, DeviceCounterInv DEF Device
  <2>5. CASE \/ PollReceiveNothing \/ PollSkip \/ FlowReturns
             \/ UNCHANGED vars
    BY <2>5, CounterInvFrame
       DEF PollReceiveNothing, PollSkip, FlowReturns, vars, driverVars,
           handlerVars, hostVars, counters
  <2>6. QED
    BY <2>1, <2>2, <2>3, <2>4, <2>5 DEF Next, LoopGoesOn
<1>2. QED
  BY InitCounterInv, TypeCorrect, <1>1, PTL DEF Spec, Init

\* In the loop, current never overtakes desired either, although a message is
\* handled twice and may be handled again when nothing was received: the first
\* time clears cc3000_expect, and no opcode is 0.
THEOREM NeverOvertakenCorrect == Spec => []NeverOvertaken
<1>1. CounterInv => NeverOvertaken
  BY DEF CounterInv
<1>2. QED
  BY CounterInvCorrect, <1>1, PTL

-----------------------------------------------------------------------------
(* The address of the device.                                              *)

\* What the loop itself does to the device and to what it knows of it.  The
\* handler never takes back that there is an address.
LEMMA LoopFrame ==
    ASSUME TypeOK,
           \/ PollReceiveNothing \/ PollSkip \/ PollProcess \/ FlowReturns
           \/ UNCHANGED vars
    PROVE  /\ UNCHANGED <<hostVars, devVars, boots>>
           /\ dhcpComplete => dhcpComplete'
           /\ ~ PollProcess => UNCHANGED handlerVars
<1>1. CASE PollProcess
  <2>1. UNCHANGED <<hostVars, devVars, boots>>
    BY <1>1 DEF PollProcess
  <2>2. dhcpComplete => dhcpComplete'
    <3>1. CASE UNCHANGED handlerVars
      BY <3>1 DEF handlerVars
    <3>2. CASE cc3000_event_handler(rxBuffer)
      BY <3>2
         DEF cc3000_event_handler, EventMessage, DataMessage, OtherMessage,
             UnsolicitedEvent, WlanEvent, NormalEvent, netState
    <3>3. QED
      BY <1>1, <3>1, <3>2, ProcessEffect
  <2>3. QED
    BY <1>1, <2>1, <2>2
<1>2. CASE PollReceiveNothing
  BY <1>2 DEF PollReceiveNothing, handlerVars
<1>3. CASE PollSkip \/ FlowReturns \/ UNCHANGED vars
  BY <1>3 DEF PollSkip, FlowReturns, vars, driverVars, handlerVars
<1>4. QED
  BY <1>1, <1>2, <1>3

\* The invariants that speak of power, of what travels and of the address hold
\* in every reachable state.
LEMMA AddressInvCorrect == Spec => [](TypeOK /\ PowerInv /\ WireInv /\ AddressInv)
<1>1. DriverInit => PowerInv
  BY DEF DriverInit, PowerInv
<1>2. ASSUME TypeOK, PowerInv, WireInv, AddressInv, [Next]_vars
      PROVE  PowerInv' /\ WireInv' /\ AddressInv'
  <2>0. DriverTypeOK
    BY <1>2 DEF TypeOK
  <2>1. CASE FlowCalls \/ FlowContinues
    BY <1>2, <2>0, <2>1, HostPowerInv, HostWireInv, HostLink
       DEF FlowCalls, FlowContinues
  <2>2. CASE Device
    <3>1. PowerInv'
      BY <1>2, <2>2, DeviceFrame DEF Device, PowerInv, hostVars
    <3>2. QED
      BY <1>2, <2>0, <2>2, <3>1, DeviceWireInv, DeviceLink DEF Device
  <2>3. CASE PollReceive
    <3>1. PowerInv'
      BY <1>2, <2>3
         DEF PollReceive, cc3000_spi_receive, PowerInv, hostVars
    <3>2. QED
      BY <1>2, <2>0, <2>3, <3>1, PollReceives, ReceiveWireInv, ReceiveLink
  <2>4. CASE \/ PollReceiveNothing \/ PollSkip \/ PollProcess \/ FlowReturns
             \/ UNCHANGED vars
    <3>1. UNCHANGED <<pc, devOn, devCmds, devOut, devLink>>
      BY <1>2, <2>4, LoopFrame DEF hostVars, devVars
    <3>2. dhcpComplete => dhcpComplete'
      BY <1>2, <2>4, LoopFrame
    <3>3. QED
      BY <1>2, <3>1, <3>2 DEF PowerInv, WireInv, AddressInv
  <2>5. QED
    BY <1>2, <2>1, <2>2, <2>3, <2>4 DEF Next, LoopGoesOn
<1>3. QED
  BY <1>1, <1>2, InitLink, TypeCorrect, PTL DEF Spec, Init

\* In the loop too the address of the device never goes unnoticed, although old
\* messages are handled again, also after a restart.
THEOREM AddressNoticedCorrect == Spec => []AddressNoticed
<1>1. PowerInv /\ AddressInv => AddressNoticed
  BY LinkProperties
<1>2. QED
  BY <1>1, AddressInvCorrect, PTL

-----------------------------------------------------------------------------
(* A device that is started once.                                          *)

\* The loop may wake with nothing to receive, and then handles the message it
\* has received last again.  While this device is on that cannot happen, if it
\* is started only once and its line is high again after a frame or a receive.
OneStart == MaxBoots = 1 /\ ~ LineLingers

\* Initially the loop has received nothing.
LEMMA InitLoopInv == Init => LoopInv
<1> SUFFICES ASSUME Init PROVE LoopInv
  OBVIOUS
<1>1. /\ lpc = "flow" /\ pc = "off" /\ cur = NoRequest /\ ~ isrFlag
      /\ rxBuffer = EmptyBuffer /\ cc3000_is_ready
  BY DEF Init, DriverInit, HandlerInit, cc3000_is_ready
<1>2. QED
  BY <1>1 DEF LoopInv, TurnInv, FirstStartInv, FlagInv, ArmedInv, BufferInv,
              AgainInv

\* A request whose answer has been handled is ready.
LEMMA AnsweredReady ==
    ASSUME TypeOK, ArmedInv, cur # NoRequest, Answered
    PROVE  cc3000_is_ready
<1>1. CASE lastHandled = Awaited
  BY <1>1 DEF ArmedInv
<1>2. CASE /\ cur.cmd = HCI_CMND_RECV
           /\ lastHandled = [id |-> desired, op |-> HCI_DATA_RECV]
  <2>1. cur \in AllRequests
    BY DEF TypeOK, DriverTypeOK
  <2>2. lastHandled \in {NoAnswer, Awaited}
    BY <1>2 DEF ArmedInv
  <2>3. NoAnswer.op # HCI_DATA_RECV /\ Awaited.op # HCI_DATA_RECV
    BY <1>2, <2>1, CurFacts, SpecialRequests DEF NoAnswer, Awaited
  <2>4. QED
    BY <1>2, <2>2, <2>3
<1>3. QED
  BY <1>1, <1>2 DEF Answered

\* The flow handler: it begins a request only when the one before is collected,
\* and arms it before the loop receives again.
LEMMA FlowArmedInv ==
    ASSUME TypeOK, AnswerInv, ArmedInv, CallerBegins \/ HostContinues
    PROVE  ArmedInv'
<1> USE DEF handlerVars, counters, hostVars
<1>0. cur \in AllRequests
  BY DEF TypeOK, DriverTypeOK
<1>1. ASSUME NEW r \in Requests, RequestBegin(r) PROVE ArmedInv'
  <2>1. cur' = r /\ lastHandled' = NoAnswer /\ pc' = "begun"
    BY <1>1 DEF RequestBegin
  <2>2. lastHandled' # Awaited'
    BY <2>1, NotAnsweredYet, RequestFacts DEF AllRequests, Answered
  <2>3. QED
    BY <2>1, <2>2 DEF ArmedInv
<1>2. ASSUME UNCHANGED <<desired, current, expect, lastHandled, cur>>,
             pc' \in {"idle", "credit", "taken", "data"} =>
                 pc \in {"idle", "credit", "taken", "data"}
      PROVE  ArmedInv'
  BY <1>2 DEF ArmedInv, Awaited, cc3000_is_ready
<1>3. CASE RequestStartFrame \/ RequestEndFrame
  BY <1>2, <1>3 DEF RequestStartFrame, RequestEndFrame
<1>4. CASE SendLoad \/ SendStore \/ SendStartFrame \/ SendEndFrame
  BY <1>2, <1>4 DEF SendLoad, SendStore, SendStartFrame, SendEndFrame
<1>5. CASE RequestExpect \/ GetRecvBytesExpect
  <2>1. /\ UNCHANGED <<desired, current, lastHandled, cur>>
        /\ expect' = cur'.evt
    BY <1>5, SpecialRequests
       DEF RequestExpect, GetRecvBytesExpect, cc3000_hci_expect, AnswerInv,
           CallerInv
  <2>2. QED
    BY <2>1 DEF ArmedInv, Awaited, cc3000_is_ready
<1>6. ASSUME cur' = NoRequest PROVE ArmedInv'
  BY <1>6 DEF ArmedInv
<1>7. CASE GetBufferSize \/ Collect \/ cc3000_stop
  BY <1>6, <1>7 DEF GetBufferSize, Collect, cc3000_stop
<1>8. CASE GetRecvBytes
  <2>1. CASE retbuf.byte > 0
    <3>1. /\ CanCollect /\ cur.cmd = HCI_CMND_RECV /\ cur' = RecvData
          /\ pc' = "rxarm" /\ UNCHANGED lastHandled
      BY <1>8, <2>1 DEF GetRecvBytes
    <3>2. lastHandled.op # HCI_DATA_RECV
      <4>1. lastHandled \in {NoAnswer, Awaited}
        BY <3>1 DEF CanCollect, ArmedInv
      <4>2. QED
        BY <1>0, <3>1, <4>1, CurFacts, SpecialRequests DEF NoAnswer, Awaited
    <3>3. Awaited'.op = HCI_DATA_RECV
      BY <3>1, SpecialRequests DEF Awaited
    <3>4. QED
      BY <3>1, <3>2, <3>3, SpecialRequests DEF ArmedInv
  <2>2. QED
    BY <1>6, <1>8, <2>1 DEF GetRecvBytes
<1>9. CASE cc3000_start
  <2>1. /\ cur' = cc3000_start_command /\ lastHandled' = NoAnswer
        /\ expect' = cur'.evt
    BY <1>9 DEF cc3000_start, cc3000_hci_expect
  <2>2. lastHandled' # Awaited'
    BY <2>1, NotAnsweredYet, SpecialRequests DEF AllRequests, Answered
  <2>3. QED
    BY <2>1, <2>2, SpecialRequests DEF ArmedInv
<1>10. QED
  BY <1>1, <1>3, <1>4, <1>5, <1>7, <1>8, <1>9 DEF CallerBegins, HostContinues

\* The first start leaves one request unmatched, and each of the others finds
\* all matched; a frame ends with the flag set only if a message waits.
LEMMA FlowLoopInv ==
    ASSUME OneStart, TypeOK, CounterInv, CounterInv', AnswerInv, LoopInv,
           FlowCalls \/ FlowContinues
    PROVE  LoopInv'
<1> USE DEF handlerVars, counters, hostVars, intVars, devVars
<1>0. /\ CallerBegins \/ HostContinues
      /\ lpc = "flow" /\ lpc' = "flow" /\ UNCHANGED rxBuffer
      /\ desired \in Counter /\ current \in Counter
      /\ LoopInv
  BY DEF FlowCalls, FlowContinues, loopVars, TypeOK, DriverTypeOK,
         HandlerTypeOK
<1>1. TurnInv' /\ BufferInv' /\ AgainInv'
  BY <1>0 DEF LoopInv, TurnInv, BufferInv, AgainInv
<1>2. ArmedInv'
  BY <1>0, FlowArmedInv DEF LoopInv
<1>3. CASE cc3000_start
  <2>1. boots = 0 /\ boots' = 1 /\ Gap = 0 /\ ~ isrFlag /\ ~ isrFlag'
    <3>1. boots = 0 /\ boots' = 1
      BY <1>3 DEF OneStart, cc3000_start, TypeOK, DriverTypeOK
    <3>2. isrFlag' => isrFlag
      BY <1>3 DEF OneStart, cc3000_start, cc3000_interrupt_enable
    <3>3. QED
      BY <1>0, <3>1, <3>2, GapFacts DEF LoopInv, FirstStartInv
  <2>2. Gap' = 1
    <3>1. Gap < CounterMod - 1
      BY <2>1, CounterModAssumption
    <3>2. QED
      BY <1>0, <1>3, <2>1, <3>1, GapIncrement
         DEF cc3000_start, IncrementDesired
  <2>3. FirstStartInv' /\ FlagInv'
    BY <2>1, <2>2 DEF FirstStartInv, FlagInv
  <2>4. QED
    BY <1>1, <1>2, <2>3 DEF LoopInv
<1>4. CASE cc3000_stop
  <2>1. pc = "idle" /\ pc' = "off" /\ UNCHANGED boots
    BY <1>4 DEF cc3000_stop
  <2>2. FirstStartInv' /\ FlagInv'
    BY <2>1 DEF LoopInv, FirstStartInv, FlagInv
  <2>3. QED
    BY <1>1, <1>2, <2>2 DEF LoopInv
<1>5. ASSUME pc # "off", UNCHANGED <<boots, devOut>>, Gap' <= 1,
             isrFlag' => isrFlag \/ devOut # <<>>
      PROVE  LoopInv'
  <2>1. FirstStartInv' /\ FlagInv'
    BY <1>5 DEF LoopInv, FirstStartInv, FlagInv
  <2>2. QED
    BY <1>1, <1>2, <2>1 DEF LoopInv
<1>6. ASSUME pc # "off", UNCHANGED <<desired, current>> PROVE Gap' <= 1
  BY <1>6, GapUnchanged DEF LoopInv, FirstStartInv
<1>7. CASE \E r \in Requests : RequestBegin(r)
  <2>1. /\ pc # "off" /\ pc' = "begun"
        /\ UNCHANGED <<boots, devOut, isrFlag>>
    BY <1>7 DEF RequestBegin
  <2>2. Gap' <= 1
    BY <2>1 DEF CounterInv, NeverOvertaken
  <2>3. QED
    BY <1>5, <2>1, <2>2
<1>8. CASE GetRecvBytes
  <2>1. pc # "off" /\ UNCHANGED <<boots, devOut, isrFlag>>
    BY <1>8 DEF GetRecvBytes, CanCollect
  <2>2. Gap' <= 1
    <3>1. CASE retbuf.byte > 0
      BY <1>8, <3>1 DEF GetRecvBytes, CounterInv, NeverOvertaken
    <3>2. CASE ~ (retbuf.byte > 0)
      BY <1>6, <1>8, <2>1, <3>2 DEF GetRecvBytes
    <3>3. QED
      BY <3>1, <3>2
  <2>3. QED
    BY <1>5, <2>1, <2>2
<1>9. CASE GetBufferSize \/ Collect \/ SendLoad
  <2>1. /\ pc # "off" /\ UNCHANGED <<boots, devOut, isrFlag, desired, current>>
    BY <1>9 DEF GetBufferSize, Collect, SendLoad, CanCollect
  <2>2. QED
    BY <1>5, <1>6, <2>1
<1>10. CASE RequestEndFrame \/ SendEndFrame
  <2>1. /\ pc # "off" /\ UNCHANGED <<boots, devOut, desired, current>>
        /\ isrFlag' => isrFlag \/ devOut # <<>>
    BY <1>10
       DEF RequestEndFrame, SendEndFrame, cc3000_interrupt_enable, OneStart
  <2>2. QED
    BY <1>5, <1>6, <2>1
<1>11. CASE \/ RequestStartFrame \/ RequestExpect \/ GetRecvBytesExpect
            \/ SendStore \/ SendStartFrame
  <2>1. /\ pc # "off" /\ UNCHANGED <<boots, devOut, isrFlag, desired, current>>
    BY <1>11
       DEF RequestStartFrame, RequestExpect, GetRecvBytesExpect, SendStore,
           SendStartFrame, cc3000_interrupt_disable
  <2>2. QED
    BY <1>5, <1>6, <2>1
<1>12. QED
  BY <1>0, <1>3, <1>4, <1>7, <1>8, <1>9, <1>10, <1>11
     DEF CallerBegins, HostContinues

\* The device only adds to what waits.
LEMMA DeviceLoopInv ==
    ASSUME TypeOK, PowerInv, WireInv, LoopInv, Device
    PROVE  LoopInv'
<1>1. /\ UNCHANGED <<handlerVars, hostVars, intVars, boots, loopVars>>
      /\ LoopInv
  BY DeviceFrame DEF Device
<1>2. devOut' # <<>>
  <2>1. devOut \in Seq(WireMessages)
    BY DEF WireInv
  <2>2. \A m \in WireMessages :
            Append(devOut, m) \in Seq(WireMessages) /\ Append(devOut, m) # <<>>
    BY <2>1, AppendProperties
  <2>3. \A r \in WireMessages, d \in WireMessages :
            Append(Append(devOut, r), d) # <<>>
    BY <2>2, AppendProperties
  <2>4. QED
    BY <2>2, <2>3, DeviceSends DEF Device, TypeOK
<1> USE DEF handlerVars, hostVars, intVars, loopVars
<1>3. TurnInv' /\ FirstStartInv'
  BY <1>1, GapUnchanged
     DEF LoopInv, TurnInv, FirstStartInv, CanCollect, cc3000_is_ready
<1>4. FlagInv'
  BY <1>2 DEF FlagInv
<1>5. ArmedInv'
  BY <1>1 DEF LoopInv, ArmedInv, Awaited, cc3000_is_ready
<1>6. BufferInv' /\ AgainInv'
  BY <1>1 DEF LoopInv, BufferInv, AgainInv, Solicited
<1>7. QED
  BY <1>3, <1>4, <1>5, <1>6 DEF LoopInv

\* What the loop knows when it receives while the device is started once: it
\* counts the message if it is expected, and notes that it has been handled.
LEMMA PollEffect ==
    ASSUME TypeOK, TypeOK', CounterInv, AnswerInv, LoopInv, PollReceive
    PROVE  LET m == Head(devOut) IN
           /\ m \in Messages /\ cc3000_event_handler(m)
           /\ pc = "idle" /\ UNCHANGED <<cur, pc, boots, desired>>
           /\ cur # NoRequest => expect = cur.evt /\ ~ cc3000_is_ready
           /\ m.op = expect => cc3000_is_ready' /\ Gap' = 0 /\ expect' = 0
           /\ m.op # expect => UNCHANGED <<current, expect>>
           /\ m.op # 0
<1> DEFINE m == Head(devOut)
<1>1. /\ m \in Messages /\ cc3000_event_handler(m) /\ pc # "off"
      /\ UNCHANGED <<cur, pc>>
  BY PollReceives, ReceiveFacts DEF TypeOK
<1>2. pc = "idle" /\ UNCHANGED boots /\ ~ CanCollect
  BY <1>1 DEF PollReceive, LoopInv, TurnInv
<1>3. cur # NoRequest => expect = cur.evt /\ ~ cc3000_is_ready
  BY <1>2 DEF CanCollect, LoopInv, ArmedInv
<1>4. HandlerTypeOK /\ HandlerTypeOK'
  BY DEF TypeOK, DriverTypeOK
<1>5. m.op # 0
  <2>1. 0 \notin Opcodes
    BY DEF Opcodes
  <2>2. QED
    BY <1>1, <2>1 DEF Messages
<1>6. /\ desired' = desired
      /\ m.op = expect => current' = Inc(current) /\ expect' = 0
      /\ m.op # expect => UNCHANGED <<current, expect>>
  BY <1>1, PollReceives, ReceiveFacts, HandlerEffect
     DEF TypeOK, IsReply, IsRecvData
<1>7. ASSUME m.op = expect
      PROVE  cc3000_is_ready' /\ Gap' = 0
  <2>1. Gap # 0 /\ Gap <= 1 /\ Gap \in Nat
    BY <1>1, <1>4, <1>5, <1>7, GapFacts, CounterModAssumption
       DEF HandlerTypeOK, CounterInv, NeverOvertaken, LoopInv, FirstStartInv
  <2>2. QED
    BY <1>4, <1>6, <1>7, <2>1, GapDecrement DEF HandlerTypeOK
<1>8. QED
  BY <1>1, <1>2, <1>3, <1>5, <1>6, <1>7

\* The answer the caller waits for makes its request ready.
LEMMA PollArmedInv ==
    ASSUME TypeOK, TypeOK', CounterInv, AnswerInv, LoopInv, PollReceive
    PROVE  ArmedInv'
<1> DEFINE m == Head(devOut)
<1>0. /\ m \in Messages /\ cc3000_event_handler(m)
      /\ pc = "idle" /\ UNCHANGED <<cur, pc, desired>>
      /\ m.op = expect => cc3000_is_ready' /\ expect' = 0
      /\ m.op # expect => UNCHANGED <<current, expect>>
      /\ DriverTypeOK /\ Receives /\ cur \in AllRequests
  BY PollEffect, PollReceives DEF TypeOK, DriverTypeOK
<1> SUFFICES ASSUME cur # NoRequest PROVE ArmedInv'
  BY <1>0 DEF ArmedInv
<1>1. expect = cur.evt /\ ~ cc3000_is_ready
  BY PollEffect
<1>2. Awaited' = Awaited
  BY <1>0 DEF Awaited
<1>3. expect' = cur.evt \/ cc3000_is_ready'
  BY <1>0, <1>1 DEF cc3000_is_ready
<1>4. ASSUME m.op = expect,
             cur.cmd = HCI_CMND_RECV => lastHandled' \in {NoAnswer, Awaited}
      PROVE  ArmedInv'
  BY <1>0, <1>2, <1>3, <1>4 DEF ArmedInv
<1>5. CASE ~ Solicited(m)
  <2>1. UNCHANGED <<current, lastHandled>>
    BY <1>0, <1>5, ReceiveUnsolicited
  <2>2. QED
    BY <1>0, <1>1, <1>2, <1>3, <2>1 DEF LoopInv, ArmedInv, cc3000_is_ready
<1>6. CASE /\ Solicited(m) /\ pc \notin {"begun", "clocking"}
           /\ IsReply(m) /\ lastHandled = NoAnswer
  <2>1. m.op = expect
    BY <1>0, <1>1, <1>6, CurFacts DEF IsReply
  <2>2. lastHandled' = Awaited
    BY <1>0, <1>2, <1>6, ReceiveReply
  <2>3. QED
    BY <1>4, <2>1, <2>2
<1>7. CASE /\ Solicited(m) /\ IsRecvData(m)
           /\ lastHandled = [id |-> Awaited.id, op |-> HCI_CMND_RECV]
  <2>1. CASE cur = RecvData
    <3>1. m.op = expect
      BY <1>1, <1>7, <2>1, SpecialRequests DEF IsRecvData
    <3>2. cur.cmd # HCI_CMND_RECV
      BY <2>1, SpecialRequests
    <3>3. QED
      BY <1>4, <3>1, <3>2
  <2>2. CASE cur.cmd = HCI_CMND_RECV
    <3>1. lastHandled = Awaited
      BY <1>0, <1>7, <2>2, CurFacts DEF Awaited
    <3>2. QED
      BY <1>1, <3>1 DEF LoopInv, ArmedInv
  <2>3. QED
    BY <1>7, <2>1, <2>2 DEF IsRecvData
<1>8. QED
  BY <1>0, <1>5, <1>6, <1>7, ReceiveFacts

\* When the loop has received, to handle the message again changes nothing.
LEMMA PollAgainInv ==
    ASSUME TypeOK, TypeOK', CounterInv, WireInv, AddressInv, AnswerInv, LoopInv,
           PollReceive
    PROVE  BufferInv' /\ AgainInv'
<1> DEFINE m == Head(devOut)
<1>0. /\ m \in Messages /\ cc3000_event_handler(m)
      /\ m.op = expect => expect' = 0
      /\ m.op # expect => UNCHANGED <<current, expect>>
      /\ m.op # 0
      /\ DriverTypeOK /\ Receives /\ cur \in AllRequests
      /\ rxBuffer' = m
  BY PollEffect, PollReceives DEF TypeOK, DriverTypeOK, PollReceive
<1>1. \/ /\ ~ Solicited(m) /\ m.type = HCI_TYPE_EVENT
         /\ m.op \notin NormalEvents \cup {HCI_DATA_RECV}
      \/ /\ Solicited(m) /\ m.type = HCI_TYPE_EVENT
         /\ m.op \in NormalEvents
      \/ /\ Solicited(m) /\ m.type = HCI_TYPE_DATA
         /\ m.op = HCI_DATA_RECV
  BY <1>0, ReceiveFacts, CurFacts DEF IsReply, IsRecvData
<1>2. BufferInv'
  BY <1>0, <1>1 DEF BufferInv, Solicited
<1>3. rxBuffer' # EmptyBuffer
  BY <1>0 DEF EmptyBuffer, Message
<1>4. m.op # expect'
  BY <1>0
<1>5. Solicited(m) =>
          /\ lastHandled' = Answer(m)
          /\ ~ IsUnsolicited(m.op) =>
                retbuf' = [of |-> Answer(m), byte |-> m.byte]
  <2>1. Solicited(m) => lastHandled' = Answer(m)
    BY <1>0, <1>1, HandlerEffect DEF Solicited
  <2>2. Solicited(m) /\ ~ IsUnsolicited(m.op) =>
            retbuf' = [of |-> Answer(m), byte |-> m.byte]
    BY <1>0, <1>1, HandlerEffect
  <2>3. QED
    BY <2>1, <2>2
<1>6. /\ m.op = HCI_EVNT_WLAN_UNSOL_CONNECT => connected'
      /\ m.op = HCI_EVNT_WLAN_UNSOL_DISCONNECT => ~ connected'
  BY <1>0, ReceiveLink, LinkOpcodes DEF ConnectedBy
<1>7. AgainInv'
  <2> HIDE DEF m
  <2>1. QED
    BY <1>0, <1>3, <1>4, <1>5, <1>6 DEF AgainInv, Solicited
<1>8. QED
  BY <1>2, <1>7

\* To handle the buffer: a message that has just been handled changes nothing
\* but the number of free buffers and the flags of the net state, of which
\* connected has its value already.  While the device is off, nobody waits for
\* an answer.
LEMMA ProcessAgain ==
    ASSUME TypeOK, CounterInv, AnswerInv, LoopInv, PollProcess, pc # "off"
    PROVE  UNCHANGED <<counters, retbuf, lastHandled, connected>>
<1>1. /\ rxBuffer \in Messages /\ cc3000_event_handler(rxBuffer)
      /\ rxBuffer.op # expect /\ AgainInv /\ BufferInv
      /\ lpc = "process" /\ HandlerTypeOK
  <2>1. rxBuffer # EmptyBuffer /\ rxBuffer.op # expect /\ lpc = "process"
    BY DEF PollProcess, LoopInv, AgainInv
  <2>2. QED
    BY <2>1 DEF PollProcess, TypeOK, DriverTypeOK, LoopInv
<1>2. rxBuffer.type \in {HCI_TYPE_EVENT, HCI_TYPE_DATA}
  BY <1>1 DEF BufferInv, AgainInv
<1>3. UNCHANGED counters
  BY <1>1, <1>2, HandlerEffect DEF counters
<1>4. UNCHANGED lastHandled
  BY <1>1, <1>2, HandlerEffect DEF AgainInv, Solicited
<1>5. UNCHANGED retbuf
  <2>1. CASE ~ Solicited(rxBuffer)
    BY <1>1, <1>2, <2>1, HandlerEffect DEF AgainInv, BufferInv
  <2>2. CASE Solicited(rxBuffer)
    <3>1. /\ lastHandled = Answer(rxBuffer)
          /\ ~ IsUnsolicited(rxBuffer.op) =>
                retbuf = [of |-> Answer(rxBuffer), byte |-> rxBuffer.byte]
      BY <1>1, <2>2 DEF AgainInv
    <3>2. \/ /\ rxBuffer.type = HCI_TYPE_EVENT /\ rxBuffer.op \in NormalEvents
          \/ rxBuffer.type = HCI_TYPE_DATA /\ rxBuffer.op = HCI_DATA_RECV
      BY <1>1, <2>2 DEF AgainInv, BufferInv
    <3>3. QED
      BY <1>1, <1>2, <3>1, <3>2, RecvStored, HandlerEffect
  <2>3. QED
    BY <2>1, <2>2
<1>6. UNCHANGED connected
  <2>1. rxBuffer.op \in LinkEvents => rxBuffer.type = HCI_TYPE_EVENT
    BY <1>1, LinkOpcodes DEF AgainInv, BufferInv
  <2>2. (connected' <=> ConnectedBy(rxBuffer, connected)) /\ connected' \in BOOLEAN
    BY <1>1, <2>1, HandlerLink
  <2>3. ConnectedBy(rxBuffer, connected) <=> connected
    BY <1>1 DEF AgainInv, ConnectedBy
  <2>4. connected \in BOOLEAN
    BY <1>1 DEF HandlerTypeOK
  <2>5. QED
    BY <2>2, <2>3, <2>4
<1>7. QED
  BY <1>3, <1>4, <1>5, <1>6

\* So it keeps all invariants.  A device that is off was on before, and nobody
\* waits for an answer of it.
LEMMA ProcessInv ==
    ASSUME TypeOK, CounterInv, AnswerInv, LoopInv, PollProcess
    PROVE  AnswerInv' /\ LoopInv' /\ (ConnectedInv => ConnectedInv')
<1>1. /\ UNCHANGED <<pc, cur, boots, isrFlag, devCmds, devOut, devLink, rxBuffer>>
      /\ lpc = "process" /\ lpc' = "flow"
  BY DEF PollProcess, hostVars, intVars, devVars
<1>2. BufferInv'
  BY <1>1 DEF LoopInv, BufferInv, Solicited
<1>3. TurnInv' /\ AgainInv'
  BY <1>1 DEF TurnInv, AgainInv
<1>4. CASE pc # "off"
  <2>1. UNCHANGED <<desired, current, expect, retbuf, lastHandled, connected>>
    BY <1>4, ProcessAgain DEF counters
  <2>2. AnswerInv'
    BY <1>1, <2>1, AnswerFrame DEF answerVars
  <2>3. FirstStartInv'
    BY <1>1, <2>1, GapUnchanged DEF LoopInv, FirstStartInv, cc3000_is_ready
  <2>4. FlagInv' /\ ArmedInv'
    BY <1>1, <2>1
       DEF LoopInv, FlagInv, ArmedInv, Awaited, cc3000_is_ready
  <2>5. ConnectedInv => ConnectedInv'
    BY <1>1, <2>1 DEF ConnectedInv
  <2>6. QED
    BY <1>2, <1>3, <2>2, <2>3, <2>4, <2>5 DEF LoopInv
<1>5. CASE pc = "off"
  <2>1. cur = NoRequest /\ devCmds = <<>> /\ devOut = <<>> /\ Len(devOut) = 0
    BY <1>5 DEF AnswerInv, CallerInv
  <2>2. CallerInv' /\ CommandInv' /\ ReadyInv'
    BY <1>1, <1>5, <2>1 DEF CallerInv, CommandInv, ReadyInv
  <2>3. UnsolicitedInv' /\ SolicitedInv' /\ OrderInv'
    BY <1>1, <2>1 DEF UnsolicitedInv, SolicitedInv, OrderInv
  <2>4. StoredInv'
    <3>1. CASE UNCHANGED handlerVars
      BY <3>1 DEF AnswerInv, StoredInv, handlerVars
    <3>2. CASE rxBuffer \in Messages /\ cc3000_event_handler(rxBuffer)
      <4>1. rxBuffer # EmptyBuffer
        <5>1. rxBuffer.op \in Opcodes
          BY <3>2 DEF Messages
        <5>2. 0 \notin Opcodes
          BY DEF Opcodes
        <5>3. QED
          BY <5>1, <5>2 DEF EmptyBuffer, Message
      <4>2. CASE ~ Solicited(rxBuffer)
        BY <3>2, <4>1, <4>2, HandlerEffect
           DEF LoopInv, BufferInv, Solicited, AnswerInv, StoredInv
      <4>3. CASE Solicited(rxBuffer)
        <5>1. lastHandled' = Answer(rxBuffer)
          BY <3>2, <4>1, <4>3, HandlerEffect DEF LoopInv, BufferInv, Solicited
        <5>2. ~ IsUnsolicited(rxBuffer.op) =>
                  retbuf' = [of |-> Answer(rxBuffer), byte |-> rxBuffer.byte]
          BY <3>2, <4>1, <4>3, HandlerEffect DEF LoopInv, BufferInv
        <5>3. QED
          BY <5>1, <5>2 DEF StoredInv, Answer
      <4>4. QED
        BY <4>2, <4>3
    <3>3. QED
      BY <3>1, <3>2, ProcessEffect
  <2>5. FirstStartInv' /\ FlagInv' /\ ArmedInv' /\ ConnectedInv'
    BY <1>1, <1>5, <2>1
       DEF LoopInv, FirstStartInv, FlagInv, ArmedInv, ConnectedInv
  <2>6. QED
    BY <1>2, <1>3, <2>2, <2>3, <2>4, <2>5 DEF AnswerInv, LoopInv
<1>6. QED
  BY <1>4, <1>5

\* The loop receives one message, and the flag says whether another one waits.
LEMMA PollLoopInv ==
    ASSUME OneStart, TypeOK, TypeOK', CounterInv, WireInv, AddressInv, AnswerInv,
           LoopInv, PollReceive
    PROVE  LoopInv'
<1> DEFINE m == Head(devOut)
<1>1. /\ pc = "idle" /\ UNCHANGED <<pc, boots, desired>>
      /\ m.op = expect => Gap' = 0
      /\ m.op # expect => UNCHANGED current
  BY PollEffect
<1>2. lpc' = "process" /\ (isrFlag' => devOut' # <<>>)
  BY DEF OneStart, PollReceive, ReenableAfterReceive, cc3000_spi_receive
<1>3. boots' # 0 /\ Gap' <= 1
  BY <1>1, GapUnchanged DEF LoopInv, FirstStartInv
<1>4. TurnInv' /\ FirstStartInv' /\ FlagInv'
  BY <1>1, <1>2, <1>3 DEF TurnInv, FirstStartInv, FlagInv
<1>5. QED
  BY <1>4, PollArmedInv, PollAgainInv DEF LoopInv

\* Woken by the flag alone, the loop finds the device off.
LEMMA IdleLoopInv ==
    ASSUME OneStart, AnswerInv, LoopInv,
           \/ PollReceiveNothing \/ PollSkip \/ FlowReturns \/ UNCHANGED vars
    PROVE  LoopInv'
<1> USE DEF handlerVars, hostVars, intVars, devVars, driverVars, loopVars
<1>1. /\ UNCHANGED <<desired, current, expect, retbuf, connected, lastHandled,
                     pc, cur, boots, devOut, rxBuffer>>
      /\ UNCHANGED isrFlag \/ ~ isrFlag'
  BY DEF OneStart, PollReceiveNothing, ReenableAfterReceive, PollSkip, FlowReturns, vars
<1>2. /\ BufferInv'
      /\ ArmedInv'
  BY <1>1 DEF LoopInv, BufferInv, ArmedInv, Solicited, Awaited, cc3000_is_ready
<1>3. FlagInv'
  BY <1>1 DEF LoopInv, FlagInv
<1>4. CASE PollReceiveNothing
  <2>1. pc = "off" /\ boots # 0
    BY <1>4 DEF PollReceiveNothing, LoopInv, FlagInv, FirstStartInv
  <2>2. QED
    BY <1>1, <1>2, <1>3, <1>4, <2>1
       DEF LoopInv, TurnInv, FirstStartInv, AgainInv, PollReceiveNothing
<1>5. CASE PollSkip \/ FlowReturns \/ UNCHANGED vars
  <2>1. FirstStartInv'
    BY <1>1, <1>5, GapUnchanged
       DEF LoopInv, FirstStartInv, cc3000_is_ready, PollSkip, FlowReturns, vars
  <2>2. TurnInv'
    BY <1>1, <1>5
       DEF LoopInv, TurnInv, CanCollect, cc3000_is_ready, PollSkip,
           FlowReturns, vars
  <2>3. AgainInv'
    BY <1>1, <1>5
       DEF LoopInv, AgainInv, Solicited, PollSkip, FlowReturns, vars
  <2>4. QED
    BY <1>2, <1>3, <2>1, <2>2, <2>3 DEF LoopInv
<1>6. QED
  BY <1>4, <1>5

\* Everything that has been said of the loop holds in every reachable state,
\* if the device is started once.
SafetyInv ==
    /\ TypeOK /\ PowerInv /\ CounterInv
    /\ WireInv /\ AddressInv /\ ConnectedInv
    /\ AnswerInv /\ LoopInv

LEMMA SafetyInvCorrect ==
    ASSUME OneStart
    PROVE  Spec => []SafetyInv
<1>1. Init => AnswerInv /\ ConnectedInv /\ LoopInv
  BY InitAnswerInv, InitLink, InitLoopInv DEF Init
<1>2. ASSUME SafetyInv, TypeOK', CounterInv', [Next]_vars
      PROVE  AnswerInv' /\ ConnectedInv' /\ LoopInv'
  <2>0. /\ TypeOK /\ DriverTypeOK /\ PowerInv /\ CounterInv
        /\ WireInv /\ AddressInv /\ ConnectedInv /\ AnswerInv /\ LoopInv
    BY <1>2 DEF SafetyInv, TypeOK
  <2>1. CASE FlowCalls \/ FlowContinues
    <3>1. CallerBegins \/ HostContinues
      BY <2>1 DEF FlowCalls, FlowContinues
    <3>2. QED
      BY <1>2, <2>0, <2>1, <3>1, HostAnswerInv, HostLink, FlowLoopInv
  <2>2. CASE Device
    <3>1. DeviceSteps
      BY <2>2 DEF Device
    <3>2. QED
      BY <2>0, <2>2, <3>1, DeviceAnswerInv, DeviceLink, DeviceLoopInv
  <2>3. CASE PollReceive
    <3>1. AnswerInv'
      BY <2>0, <2>3, PollReceives, ReceiveFacts, ReceiveUnsolicited,
         ReceiveReply, ReceiveRecvData
    <3>2. ConnectedInv'
      BY <2>0, <2>3, PollReceives, ReceiveLink
    <3>3. QED
      BY <1>2, <2>0, <2>3, <3>1, <3>2, PollLoopInv
  <2>4. CASE PollProcess
    BY <2>0, <2>4, ProcessInv
  <2>5. CASE PollReceiveNothing \/ PollSkip \/ FlowReturns \/ UNCHANGED vars
    <3>1. /\ UNCHANGED <<hostVars, devVars>> /\ UNCHANGED handlerVars
      BY <2>0, <2>5, LoopFrame
         DEF PollReceiveNothing, PollSkip, FlowReturns, vars, driverVars
    <3>2. AnswerInv'
      BY <2>0, <3>1, AnswerFrame
         DEF answerVars, handlerVars, hostVars, devVars
    <3>3. ConnectedInv'
      BY <2>0, <3>1, LinkFrame DEF handlerVars, hostVars, devVars
    <3>4. QED
      BY <2>0, <2>5, <3>2, <3>3, IdleLoopInv
  <2>6. QED
    BY <1>2, <2>1, <2>2, <2>3, <2>4, <2>5 DEF Next, LoopGoesOn
<1>3. QED
  BY <1>1, <1>2, TypeCorrect, CounterInvCorrect, AddressInvCorrect, PTL
     DEF Spec, SafetyInv

\* In the loop, cc3000_is_ready never reports a request complete before the
\* handler has had its own answer, although every message is handled twice.
THEOREM NoFalseReadyCorrect ==
    ASSUME OneStart
    PROVE  Spec => []NoFalseReady
<1>1. SafetyInv => NoFalseReady
  BY DEF SafetyInv, AnswerInv, ReadyInv, NoFalseReady, CanCollect
<1>2. QED
  BY <1>1, SafetyInvCorrect, PTL

\* What a collecting function reads from the return buffer is the answer to its
\* own request, or the data behind it, although the loop stores every answer
\* twice: the second time, no later one has been stored in between.
THEOREM FreshReturnCorrect ==
    ASSUME OneStart
    PROVE  Spec => []FreshReturn
<1>1. SafetyInv => FreshReturn
  BY FreshAnswer DEF SafetyInv, TypeOK
<1>2. QED
  BY <1>1, SafetyInvCorrect, PTL

\* No answer is lost in the loop: a request whose answer has been handled is
\* ready, because nothing is received between the end of its frame and
\* cc3000_hci_expect.
THEOREM AnsweredIsReadyCorrect ==
    ASSUME OneStart
    PROVE  Spec => []AnsweredIsReady
<1>1. SafetyInv => AnsweredIsReady
  BY DEF SafetyInv, LoopInv, ArmedInv, AnsweredIsReady
<1>2. QED
  BY <1>1, SafetyInvCorrect, PTL

\* What cc3000_get_recv_bytes reads is the answer to HCI_CMND_RECV: the loop
\* collects it before it receives the data, which would take its place.
THEOREM RecvBytesFromAnswerCorrect ==
    ASSUME OneStart
    PROVE  Spec => []RecvBytesFromAnswer
<1>1. ASSUME SafetyInv, CanCollect, cur.cmd = HCI_CMND_RECV
      PROVE  retbuf.of = Awaited
  <2>1. cur # NoRequest /\ cur \in AllRequests /\ Answered /\ AnswerInv
    BY <1>1, ReadyFacts DEF SafetyInv, TypeOK, DriverTypeOK, CanCollect
  <2>2. lastHandled \in {NoAnswer, Awaited}
    BY <1>1, <2>1 DEF SafetyInv, LoopInv, ArmedInv
  <2>3. Awaited.op = HCI_CMND_RECV
    BY <1>1, <2>1, CurFacts DEF Awaited
  <2>4. lastHandled = Awaited
    BY <2>1, <2>2, <2>3, SpecialRequests DEF Answered, NoAnswer
  <2>5. lastHandled # NoAnswer
    BY <2>3, <2>4, SpecialRequests DEF NoAnswer
  <2>6. QED
    BY <2>1, <2>3, <2>4, <2>5, RecvStored DEF AnswerInv, StoredInv
<1>2. SafetyInv => RecvBytesFromAnswer
  BY <1>1 DEF RecvBytesFromAnswer
<1>3. QED
  BY <1>2, SafetyInvCorrect, PTL

\* cc3000_state.connected is the state of the link once the messages under way
\* are handled, although the loop handles a link event twice: the second time,
\* nothing newer has been handled in between.
THEOREM ConnectedFollowsLinkCorrect ==
    ASSUME OneStart
    PROVE  Spec => []ConnectedFollowsLink
<1>1. SafetyInv => ConnectedFollowsLink
  BY LinkProperties DEF SafetyInv
<1>2. QED
  BY <1>1, SafetyInvCorrect, PTL

-----------------------------------------------------------------------------
(* The loop implements AsyncRequest without loss.                          *)

\* Each step of the loop is a step of a driver that may lose answers.
LEMMA LoopRefines ==
    ASSUME SafetyInv, [Next]_vars
    PROVE  [Seen!Next]_(Seen!vars)
<1>0. /\ TypeOK /\ DriverTypeOK /\ CounterInv /\ AnswerInv /\ LoopInv
  BY DEF SafetyInv, TypeOK
<1>1. CASE FlowCalls \/ FlowContinues
  BY <1>0, <1>1, HostRefines DEF FlowCalls, FlowContinues
<1>2. CASE Device
  BY <1>2, DeviceFrame, RequestFrame DEF Device, handlerVars, hostVars
<1>3. CASE PollReceive
  BY <1>0, <1>3, PollReceives, ReceiveRefines DEF Seen!Next
<1>4. CASE PollProcess
  <2>1. UNCHANGED <<pc, cur>>
    BY <1>4 DEF PollProcess, hostVars
  <2>2. CASE pc # "off"
    BY <1>0, <1>4, <2>1, <2>2, ProcessAgain, RequestFrame DEF counters
  <2>3. CASE pc = "off"
    BY <2>1, <2>3, PhaseFacts, NextPhaseFacts DEF Seen!vars
  <2>4. QED
    BY <2>2, <2>3
<1>5. CASE PollReceiveNothing \/ PollSkip \/ FlowReturns \/ UNCHANGED vars
  <2>1. UNCHANGED hostVars /\ UNCHANGED handlerVars
    BY <1>0, <1>5, LoopFrame
       DEF PollReceiveNothing, PollSkip, FlowReturns, vars, driverVars
  <2>2. QED
    BY <2>1, RequestFrame DEF hostVars, handlerVars
<1>6. QED
  BY <1>1, <1>2, <1>3, <1>4, <1>5 DEF Next, LoopGoesOn

\* In fact it loses none.
DeliveredIsReady == Delivered => Phase = "ready"

LEMMA DeliveredIsReadyHolds == SafetyInv => DeliveredIsReady
<1> SUFFICES ASSUME SafetyInv, Delivered PROVE Phase = "ready"
  BY DEF DeliveredIsReady
<1>1. pc # "off" /\ cur # NoRequest /\ Answered
  BY PhaseFacts DEF Delivered
<1>2. cc3000_is_ready
  BY <1>1, AnsweredReady DEF SafetyInv, LoopInv
<1>3. QED
  BY <1>1, <1>2, PhaseFacts

\* The loop implements AsyncRequest with MayLose = FALSE: the step that handles
\* the answer, the first of the two times, makes the request ready, and the
\* data of a recv never comes before it is asked for.
THEOREM ImplementsRequestCorrect ==
    ASSUME OneStart
    PROVE  Spec => ImplementsRequest
<1>1. Init => Request!Init
  <2>1. Init => pc = "off" /\ cur = NoRequest
    BY DEF Init, DriverInit
  <2>2. QED
    BY <2>1, PhaseFacts DEF Request!Init
<1>2. ASSUME SafetyInv, [Next]_vars, DeliveredIsReady'
      PROVE  [Request!Next]_(Request!vars)
  <2>1. Seen!Answer => Request!Answer
    BY <1>2 DEF DeliveredIsReady, Seen!Answer, Request!Answer
  <2>2. Seen!Continue => Request!Continue
    BY <1>2 DEF DeliveredIsReady, Seen!Continue, Request!Continue
  <2>3. Seen!Next => Request!Next
    BY <2>1, <2>2
       DEF Seen!Next, Seen!PowerUp, Seen!Begin, Seen!Collect, Seen!PowerDown,
           Request!Next, Request!PowerUp, Request!Begin, Request!Collect,
           Request!PowerDown
  <2>4. UNCHANGED Seen!vars => UNCHANGED Request!vars
    BY DEF Seen!vars, Request!vars
  <2>5. QED
    BY <1>2, <2>3, <2>4, LoopRefines
<1>3. QED
  BY <1>1, <1>2, SafetyInvCorrect, DeliveredIsReadyHolds, PTL
     DEF Spec, ImplementsRequest, Request!Spec
=============================================================================
