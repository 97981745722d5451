----------------------- MODULE InterruptDrivenProofs -----------------------
(***************************************************************************)
(* Theorems about InterruptDriven, for all values of its constants.        *)
(***************************************************************************)
EXTENDS InterruptDriven, LinkProofs

\* What of TypeOK the lemmas about Driver ask for, and who receives.
LEMMA TypeFacts == TypeOK => DriverTypeOK /\ PowerInv
BY DEF TypeOK, PowerInv

LEMMA IsrReceives == Isr => Receives
BY DEF Isr, Receives

-----------------------------------------------------------------------------
(* Type correctness.                                                       *)

\* The steps of the calling thread enable interrupts when they end a frame or
\* start the device, and disable them when they begin a frame or stop it.
LEMMA HostTypeOK ==
    ASSUME TypeOK, CallerBegins \/ HostContinues
    PROVE  TypeOK'
<1> USE DEF TypeOK, intVars, devVars, CanCollect, cc3000_interrupt_enable,
            cc3000_interrupt_disable
<1>1. DriverTypeOK'
  BY HostDriverTypeOK
<1>2. CASE CallerBegins
  BY <1>1, <1>2
     DEF CallerBegins, RequestBegin, GetBufferSize, GetRecvBytes, Collect,
         SendLoad, cc3000_start, cc3000_stop
<1>3. CASE HostContinues
  BY <1>1, <1>3
     DEF HostContinues, RequestStartFrame, RequestEndFrame, RequestExpect,
         GetRecvBytesExpect, SendStore, SendStartFrame, SendEndFrame
<1>4. QED
  BY <1>2, <1>3

\* Neither the device nor the interrupt handler touches them.
LEMMA OtherTypeOK ==
    ASSUME TypeOK, DeviceSteps \/ Isr
    PROVE  TypeOK'
<1>1. CASE DeviceSteps
  BY <1>1, DeviceDriverTypeOK, DeviceFrame DEF TypeOK, hostVars, intVars
<1>2. CASE Isr
  <2>1. UNCHANGED <<pc, devOn, intEnabled, isrFlag>>
    BY <1>2 DEF Isr, cc3000_spi_receive, hostVars, intVars
  <2>2. DriverTypeOK'
    BY <1>2, <2>1, IsrReceives, ReceiveDriverTypeOK DEF TypeOK, DriverTypeOK
  <2>3. QED
    BY <2>1, <2>2 DEF TypeOK
<1>3. QED
  BY <1>1, <1>2

\* Every variable keeps its type in every behaviour.
THEOREM TypeCorrect == Spec => []TypeOK
<1>1. Init => TypeOK
  BY InitDriverTypeOK DEF Init, DriverInit, TypeOK
<1>2. TypeOK /\ [Next]_vars => TypeOK'
  <2> SUFFICES ASSUME TypeOK, [Next]_vars PROVE TypeOK'
    OBVIOUS
  <2>1. CASE CallerBegins \/ HostContinues
    BY <2>1, HostTypeOK
  <2>2. CASE DeviceSteps \/ Isr
    BY <2>2, OtherTypeOK
  <2>3. CASE UNCHANGED vars
    BY <2>3 DEF TypeOK, DriverTypeOK, HandlerTypeOK, vars, driverVars,
                handlerVars, hostVars, intVars, devVars
  <2>4. QED
    BY <2>1, <2>2, <2>3 DEF Next
<1>3. QED
  BY <1>1, <1>2, PTL DEF Spec

-----------------------------------------------------------------------------
(* The two counters.                                                       *)

\* CounterInv holds in every reachable state.
LEMMA CounterInvCorrect == Spec => []CounterInv
<1>1. TypeOK /\ CounterInv /\ [Next]_vars => CounterInv'
  <2> SUFFICES ASSUME TypeOK, CounterInv, [Next]_vars PROVE CounterInv'
    OBVIOUS
  <2>0. DriverTypeOK
    BY DEF TypeOK
  <2>1. CASE CallerBegins \/ HostContinues
    BY <2>0, <2>1, HostCounterInv
  <2>2. CASE DeviceSteps
    BY <2>2, DeviceCounterInv
  <2>3. CASE Isr
    <3>1. /\ Head(devOut) \in Messages /\ UNCHANGED <<hostVars, boots>>
          /\ cc3000_event_handler(Head(devOut))
      BY <2>0, <2>3, HeadTailProperties
         DEF DriverTypeOK, Isr, cc3000_spi_receive
    <3>2. QED
      BY <2>0, <3>1, HandlerCounterInv
  <2>4. CASE UNCHANGED vars
    BY <2>4, CounterInvFrame
       DEF vars, driverVars, handlerVars, hostVars, counters
  <2>5. QED
    BY <2>1, <2>2, <2>3, <2>4 DEF Next
<1>2. QED
  BY InitCounterInv, TypeCorrect, <1>1, PTL DEF Spec, Init

\* Whatever messages arrive, and whatever the interleaving of the handler with
\* the API functions and with restarts, cc3000_current_state never overtakes
\* cc3000_desired_state, and the caller that starts a request finds all the
\* earlier ones matched.
THEOREM NeverOvertakenCorrect == Spec => []NeverOvertaken
<1>1. CounterInv => NeverOvertaken
  BY DEF CounterInv
<1>2. QED
  BY CounterInvCorrect, <1>1, PTL

-----------------------------------------------------------------------------
(* Where the answer is.                                                    *)

\* AnswerInv holds in every reachable state.
LEMMA AnswerInvCorrect == Spec => [](TypeOK /\ CounterInv /\ AnswerInv)
<1>1. ASSUME TypeOK, CounterInv, AnswerInv, [Next]_vars
      PROVE  AnswerInv'
  <2>1. CASE CallerBegins \/ HostContinues
    BY <1>1, <2>1, TypeFacts, HostAnswerInv
  <2>2. CASE DeviceSteps
    BY <1>1, <2>2, TypeFacts, DeviceAnswerInv
  <2>3. CASE Isr
    BY <1>1, <2>3, TypeFacts, IsrReceives, ReceiveFacts, ReceiveUnsolicited,
       ReceiveReply, ReceiveRecvData
  <2>4. CASE UNCHANGED vars
    BY <1>1, <2>4, AnswerFrame
       DEF answerVars, vars, driverVars, handlerVars, hostVars, devVars
  <2>5. QED
    BY <1>1, <2>1, <2>2, <2>3, <2>4 DEF Next
<1>2. QED
  BY <1>1, InitAnswerInv, TypeCorrect, CounterInvCorrect, PTL DEF Spec, Init

-----------------------------------------------------------------------------
(* What follows from it.                                                   *)

\* cc3000_is_ready never reports a request complete before the handler has had
\* its own answer: not after unsolicited events, not after answers that were
\* counted for nothing, not after restarts.
THEOREM NoFalseReadyCorrect == Spec => []NoFalseReady
<1>1. AnswerInv => NoFalseReady
  BY DEF AnswerInv, ReadyInv, NoFalseReady, CanCollect
<1>2. QED
  BY AnswerInvCorrect, <1>1, PTL

\* What a collecting function reads from the return buffer is the answer to its
\* own request, or the data behind it, and never an earlier or another message.
THEOREM FreshReturnCorrect == Spec => []FreshReturn
<1>1. TypeOK /\ AnswerInv => FreshReturn
  BY TypeFacts, FreshAnswer
<1>2. QED
  BY AnswerInvCorrect, <1>1, PTL

\* While a frame is clocked no message is taken from the bus and no global of
\* the handler changes: interrupts are disabled, and the calling thread does
\* nothing else.
THEOREM BusExclusiveCorrect == Spec => BusExclusive
<1>1. ASSUME TypeOK, [Next]_vars, pc \in {"clocking", "data"}
      PROVE  UNCHANGED handlerVars
  <2>1. ~ CallerBegins
    BY <1>1
       DEF CallerBegins, RequestBegin, GetBufferSize, GetRecvBytes, Collect,
           CanCollect, SendLoad, cc3000_start, cc3000_stop
  <2>2. ~ Isr
    BY <1>1 DEF TypeOK, Isr
  <2>3. CASE HostContinues
    BY <1>1, <2>3
       DEF HostContinues, RequestStartFrame, RequestEndFrame, RequestExpect,
           GetRecvBytesExpect, SendStore, SendStartFrame, SendEndFrame
  <2>4. CASE DeviceSteps
    BY <2>4, DeviceFrame
  <2>5. QED
    BY <1>1, <2>1, <2>2, <2>3, <2>4 DEF Next, vars, driverVars
<1>2. QED
  BY <1>1, TypeCorrect, PTL DEF Spec, BusExclusive

-----------------------------------------------------------------------------
(* The driver implements AsyncRequest.                                     *)

\* The driver implements AsyncRequest, whatever the device sends and however
\* the handler interrupts the API functions: there is one request at a time,
\* its answer is delivered once, it is ready only after that, and the next one
\* begins only when it has been collected or the device powered down.
THEOREM ImplementsRequestCorrect == Spec => ImplementsRequest
<1>1. Init => Request!Init
  <2>1. Init => pc = "off" /\ cur = NoRequest
    BY DEF Init, DriverInit
  <2>2. QED
    BY <2>1, PhaseFacts DEF Request!Init
<1>2. ASSUME TypeOK, CounterInv, AnswerInv, [Next]_vars
      PROVE  [Seen!Next]_(Seen!vars)
  <2>1. CASE CallerBegins \/ HostContinues
    BY <1>2, <2>1, TypeFacts, HostRefines
  <2>2. CASE DeviceSteps
    BY <2>2, DeviceFrame, RequestFrame DEF handlerVars, hostVars
  <2>3. CASE Isr
    BY <1>2, <2>3, TypeFacts, IsrReceives, ReceiveRefines DEF Seen!Next
  <2>4. CASE UNCHANGED vars
    BY <2>4, RequestFrame DEF vars, driverVars, handlerVars, hostVars
  <2>5. QED
    BY <1>2, <2>1, <2>2, <2>3, <2>4 DEF Next
<1>3. Seen!Next => Request!Next
  BY DEF Seen!Next, Seen!PowerUp, Seen!Begin, Seen!Answer, Seen!Continue,
         Seen!Collect, Seen!PowerDown, Request!Next, Request!PowerUp,
         Request!Begin, Request!Answer, Request!Continue, Request!Collect,
         Request!PowerDown
<1>4. UNCHANGED Seen!vars => UNCHANGED Request!vars
  BY DEF Seen!vars, Request!vars
<1>5. ASSUME TypeOK, CounterInv, AnswerInv, [Next]_vars
      PROVE  [Request!Next]_(Request!vars)
  BY <1>2, <1>3, <1>4, <1>5
<1>6. QED
  BY <1>1, <1>5, AnswerInvCorrect, PTL
     DEF Spec, ImplementsRequest, Request!Spec

-----------------------------------------------------------------------------
(* The state of the driver and the link of the device.                     *)

\* The invariants that relate them hold in every reachable state.
LEMMA LinkInvCorrect == Spec => [](TypeOK /\ WireInv /\ AddressInv /\ ConnectedInv)
<1>1. ASSUME TypeOK, WireInv, AddressInv, ConnectedInv, [Next]_vars
      PROVE  WireInv' /\ AddressInv' /\ ConnectedInv'
  <2>0. DriverTypeOK /\ PowerInv
    BY <1>1, TypeFacts
  <2>1. CASE CallerBegins \/ HostContinues
    BY <1>1, <2>0, <2>1, HostWireInv, HostLink
  <2>2. CASE DeviceSteps
    BY <1>1, <2>0, <2>2, DeviceWireInv, DeviceLink
  <2>3. CASE Isr
    BY <1>1, <2>0, <2>3, IsrReceives, ReceiveWireInv, ReceiveLink
  <2>4. CASE UNCHANGED vars
    BY <1>1, <2>4, LinkFrame
       DEF WireInv, vars, driverVars, handlerVars, hostVars, devVars
  <2>5. QED
    BY <1>1, <2>1, <2>2, <2>3, <2>4 DEF Next
<1>2. QED
  BY <1>1, InitLink, TypeCorrect, PTL DEF Spec, Init

\* cc3000_state.connected is the state of the link once the messages under
\* way are handled, for every sequence of events of the device, however they
\* queue up behind answers, and over every restart.
THEOREM ConnectedFollowsLinkCorrect == Spec => []ConnectedFollowsLink
<1>1. TypeOK /\ AddressInv /\ ConnectedInv => ConnectedFollowsLink
  BY TypeFacts, LinkProperties
<1>2. QED
  BY <1>1, LinkInvCorrect, PTL

\* The address of the device never goes unnoticed: dhcp_complete is set, or
\* the event that sets it waits.
THEOREM AddressNoticedCorrect == Spec => []AddressNoticed
<1>1. TypeOK /\ AddressInv => AddressNoticed
  BY TypeFacts, LinkProperties
<1>2. QED
  BY <1>1, LinkInvCorrect, PTL
=============================================================================
