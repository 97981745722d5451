---------------------------- MODULE DriverProofs ----------------------------
(***************************************************************************)
(* Lemmas about Driver for all values of its constants, whoever receives   *)
(* the messages: its steps keep the types and the account of the counters. *)
(***************************************************************************)
EXTENDS Driver, SequenceTheorems, TLAPS

-----------------------------------------------------------------------------
(* Facts about the operators the module is built from.                     *)

\* The increment and decrement of a counter stay in its range and undo each
\* other.
LEMMA IncDec ==
    \A x \in Counter : /\ Inc(x) \in Counter /\ Dec(x) \in Counter
                       /\ Dec(Inc(x)) = x
BY CounterModAssumption DEF Counter, Inc, Dec

\* An opcode is a uint16, and so is the 0 that stands for none.
LEMMA OpcodeTypes == 0 \in UInt16 /\ \A op \in Opcodes : op \in UInt16
<1>1. 0 \in UInt16
  BY DEF UInt16
<1>2. \A op \in Opcodes : op \in UInt16
  BY SMTT(30) DEF UInt16, Opcodes
<1>3. QED
  BY <1>1, <1>2

\* The opcodes the driver names are opcodes.
LEMMA NamedOpcodes ==
    /\ HCI_CMND_SIMPLE_LINK_START \in Opcodes
    /\ HCI_DATA_RECV \in Opcodes
    /\ HCI_EVNT_DATA_UNSOL_FREE_BUFF \in Opcodes
    /\ \A move \in LinkMoves : move.op \in Opcodes
BY DEF HCI_CMND_SIMPLE_LINK_START, HCI_DATA_RECV, HCI_DATA_BASE,
       HCI_EVNT_DATA_UNSOL_FREE_BUFF, HCI_EVNT_UNSOL_BASE, LinkMoves,
       HCI_EVNT_WLAN_UNSOL_CONNECT, HCI_EVNT_WLAN_UNSOL_DHCP,
       HCI_EVNT_WLAN_UNSOL_DISCONNECT, HCI_EVNT_WLAN_UNSOL_BASE, Opcodes

\* The opcodes the handler stores are opcodes, and a request of the caller is
\* none of the special ones.
LEMMA RequestFacts ==
    /\ NormalEvents \subseteq Opcodes
    /\ \A r \in Requests :
          /\ r.cmd \in Opcodes /\ r.evt = r.cmd
          /\ r.cmd # HCI_CMND_SIMPLE_LINK_START /\ r.cmd # 0
          /\ r # NoRequest /\ r # RecvData /\ r # cc3000_start_command
<1>1. NormalEvents \subseteq Opcodes
  BY SMTT(60) DEF NormalEvents, Opcodes, HCI_CMND_READ_BUFFER_SIZE,
     HCI_CMND_WLAN_CONFIGURE_PATCH, HCI_NETAPP_DHCP, HCI_NETAPP_PING_SEND,
     HCI_NETAPP_PING_STOP, HCI_NETAPP_ARP_FLUSH, HCI_NETAPP_SET_DEBUG_LEVEL,
     HCI_NETAPP_SET_TIMERS, HCI_CMND_NVMEM_READ, HCI_CMND_NVMEM_CREATE_ENTRY,
     HCI_CMND_NVMEM_WRITE_PATCH, HCI_NETAPP_PING_REPORT,
     HCI_CMND_MDNS_ADVERTISE, HCI_CMND_SETSOCKOPT, HCI_CMND_WLAN_CONNECT,
     HCI_CMND_WLAN_IOCTL_STATUSGET, HCI_CMND_WLAN_IOCTL_ADD_PROFILE,
     HCI_CMND_WLAN_IOCTL_DEL_PROFILE,
     HCI_CMND_WLAN_IOCTL_SET_CONNECTION_POLICY,
     HCI_CMND_WLAN_IOCTL_SET_SCANPARAM,
     HCI_CMND_WLAN_IOCTL_SIMPLE_CONFIG_START,
     HCI_CMND_WLAN_IOCTL_SIMPLE_CONFIG_STOP,
     HCI_CMND_WLAN_IOCTL_SIMPLE_CONFIG_SET_PREFIX, HCI_CMND_EVENT_MASK,
     HCI_CMND_WLAN_DISCONNECT, HCI_CMND_SOCKET, HCI_CMND_BIND,
     HCI_CMND_LISTEN, HCI_CMND_CLOSE_SOCKET, HCI_CMND_CONNECT,
     HCI_EVNT_NVMEM_WRITE, HCI_CMND_READ_SP_VERSION, HCI_CMND_GETHOSTNAME,
     HCI_CMND_ACCEPT, HCI_CMND_RECV, HCI_CMND_RECVFROM, HCI_EVNT_SENDTO,
     HCI_CMND_BSD_SELECT, HCI_CMND_GETSOCKOPT,
     HCI_CMND_WLAN_IOCTL_GET_SCAN_RESULTS, HCI_CMND_SIMPLE_LINK_START,
     HCI_NETAPP_IPCONFIG, HCI_CMND_SOCKET_BASE, HCI_CMND_NETAPP_BASE
<1>2. ASSUME NEW r \in Requests
      PROVE  /\ r.cmd \in Opcodes /\ r.evt = r.cmd
             /\ r.cmd # HCI_CMND_SIMPLE_LINK_START /\ r.cmd # 0
  <2>1. r.cmd \in Opcodes /\ r.evt = r.cmd
        /\ r.cmd # HCI_CMND_SIMPLE_LINK_START
    BY <1>1, RequestsAssumption
  <2>2. 0 \notin Opcodes
    BY DEF Opcodes
  <2>3. QED
    BY <2>1, <2>2
<1>3. /\ NoRequest.cmd = 0 /\ RecvData.cmd = 0
      /\ cc3000_start_command.cmd = HCI_CMND_SIMPLE_LINK_START
  BY DEF NoRequest, RecvData, cc3000_start_command, cc3000_hci_command
<1>4. QED
  BY <1>1, <1>2, <1>3

\* What the handler does with any message: the globals keep their types, the
\* number of requests made is not touched, and the counter of completed ones
\* moves exactly when the message has the expected opcode.
LEMMA HandlerStep ==
    ASSUME HandlerTypeOK, NEW m \in Messages, cc3000_event_handler(m)
    PROVE  /\ HandlerTypeOK'
           /\ desired' = desired
           /\ \/ m.op = expect /\ current' = Inc(current) /\ expect' = 0
              \/ UNCHANGED <<current, expect>>
<1>1. /\ m.op \in Opcodes /\ m.byte \in UInt8
      /\ m.id \in Counter \cup {NoId}
  BY DEF Messages
<1>2. Answer(m) \in Answers
  BY <1>1, OpcodeTypes DEF Answer, Answers
<1>3. [of |-> Answer(m), byte |-> m.byte] \in Payload
  BY <1>1, <1>2 DEF Payload
<1>4. (freeBuffers + m.byte) % 256 \in UInt8
  <2>1. \A n \in Nat : n % 256 \in 0..255
    OBVIOUS
  <2>2. freeBuffers + m.byte \in Nat
    BY <1>1 DEF HandlerTypeOK, UInt8
  <2>3. QED
    BY <2>1, <2>2 DEF UInt8
<1>5. CASE EventMessage(m)
  <2>1. \/ m.op = expect /\ current' = Inc(current) /\ expect' = 0
        \/ UNCHANGED <<current, expect>>
    BY <1>5 DEF EventMessage, NoteExpected
  <2>2. /\ retbuf' \in Payload /\ freeBuffers' \in UInt8
        /\ connected' \in BOOLEAN /\ dhcpComplete' \in BOOLEAN
        /\ closeSocket' \in BOOLEAN
    <3>1. CASE UnsolicitedEvent(m)
      BY <1>4, <3>1 DEF UnsolicitedEvent, HandlerTypeOK, netState
    <3>2. CASE WlanEvent(m)
      BY <3>2 DEF WlanEvent, HandlerTypeOK
    <3>3. CASE NormalEvent(m)
      BY <1>3, <3>3 DEF NormalEvent, cc3000_set_return, HandlerTypeOK, netState
    <3>4. QED
      BY <1>5, <3>1, <3>2, <3>3 DEF EventMessage
  <2>3. QED
    BY <1>2, <2>1, <2>2, IncDec, OpcodeTypes
       DEF cc3000_event_handler, HandlerTypeOK, Answers
<1>6. CASE DataMessage(m)
  <2>1. \/ m.op = expect /\ current' = Inc(current) /\ expect' = 0
        \/ UNCHANGED <<current, expect>>
    BY <1>6 DEF DataMessage, NoteExpected
  <2>2. QED
    BY <1>2, <1>3, <1>6, <2>1, IncDec, OpcodeTypes
       DEF DataMessage, cc3000_set_return, cc3000_event_handler,
           HandlerTypeOK, netState
<1>7. CASE OtherMessage(m)
  BY <1>2, <1>7 DEF OtherMessage, cc3000_event_handler, HandlerTypeOK, netState
<1>8. QED
  BY <1>5, <1>6, <1>7 DEF cc3000_event_handler

-----------------------------------------------------------------------------
(* Type correctness.                                                       *)

\* Initially the device is off and every global is zero.
LEMMA InitDriverTypeOK == DriverInit => DriverTypeOK
<1> SUFFICES ASSUME DriverInit PROVE DriverTypeOK
  OBVIOUS
<1> USE DEF DriverInit, HandlerInit
<1>1. HandlerTypeOK
  <2>1. 0 \in Counter /\ 0 \in UInt8
    BY CounterModAssumption DEF Counter, UInt8
  <2>2. NoAnswer \in Answers
    BY OpcodeTypes DEF NoAnswer, Answers
  <2>3. [of |-> NoAnswer, byte |-> 0] \in Payload
    BY <2>1, <2>2 DEF Payload
  <2>4. QED
    BY <2>1, <2>2, <2>3, OpcodeTypes DEF HandlerTypeOK
<1>2. devCmds \in Seq(Commands) /\ devOut \in Seq(Messages)
  BY EmptySeq
<1>3. 0 \in UInt8 /\ devUsed \in 0..UsedMax /\ boots \in 0..MaxBoots
  BY BoundsAssumption DEF UInt8
<1>4. QED
  BY <1>1, <1>2, <1>3 DEF DriverTypeOK, AllRequests

\* A message the device builds is a message.
LEMMA MessageTypes ==
    ASSUME NEW byte \in UInt8
    PROVE  /\ \A c \in Commands : /\ Reply(c, byte) \in Messages
                                 /\ RecvDataMessage(c, byte) \in Messages
           /\ \A op \in Opcodes : Unsolicited(op, byte) \in Messages
<1>1. HCI_TYPE_EVENT \in UInt8 /\ HCI_TYPE_DATA \in UInt8
  BY DEF HCI_TYPE_EVENT, HCI_TYPE_DATA, UInt8
<1>2. QED
  BY <1>1, NamedOpcodes
     DEF Reply, RecvDataMessage, Unsolicited, Message, Messages, Commands

\* The steps of the calling thread keep the types.
LEMMA HostDriverTypeOK ==
    ASSUME DriverTypeOK, CallerBegins \/ HostContinues
    PROVE  DriverTypeOK'
<1> USE IncDec, RequestFacts, NamedOpcodes, OpcodeTypes
    DEF DriverTypeOK, HandlerTypeOK, handlerVars, counters, netState,
        hostVars, intVars, devVars
<1>0. NoAnswer \in Answers
  BY DEF NoAnswer, Answers
<1>1. ASSUME NEW r \in Requests, RequestBegin(r) PROVE DriverTypeOK'
  BY <1>0, <1>1 DEF RequestBegin, IncrementDesired, AllRequests
<1>2. CASE RequestStartFrame
  BY <1>2 DEF RequestStartFrame, cc3000_interrupt_disable
<1>3. CASE RequestEndFrame
  <2>1. [cmd |-> cur.cmd, id |-> desired] \in Commands
    BY <1>3 DEF RequestEndFrame, Commands
  <2>2. devCmds' \in Seq(Commands)
    BY <1>3, <2>1, AppendProperties DEF RequestEndFrame
  <2>3. QED
    BY <1>3, <2>2 DEF RequestEndFrame, cc3000_interrupt_enable
<1>4. CASE RequestExpect
  BY <1>4 DEF RequestExpect, cc3000_hci_expect
<1>5. CASE GetRecvBytesExpect
  BY <1>5 DEF GetRecvBytesExpect, cc3000_hci_expect
<1>6. CASE SendStore
  <2>1. reg \in 1..255
    BY <1>6 DEF SendStore, UInt8
  <2>2. QED
    BY <1>6, <2>1 DEF SendStore, UInt8
<1>7. CASE SendStartFrame
  BY <1>7 DEF SendStartFrame, cc3000_interrupt_disable
<1>8. CASE SendEndFrame
  <2>1. devUsed' \in 0..UsedMax
    BY <1>8, BoundsAssumption DEF SendEndFrame
  <2>2. QED
    BY <1>8, <2>1 DEF SendEndFrame, cc3000_interrupt_enable
<1>9. CASE GetBufferSize
  BY <1>9 DEF GetBufferSize, CanCollect, AllRequests, Payload
<1>10. CASE GetRecvBytes
  BY <1>10 DEF GetRecvBytes, CanCollect, IncrementDesired, AllRequests
<1>11. CASE Collect
  BY <1>11 DEF Collect, CanCollect, AllRequests
<1>12. CASE SendLoad
  BY <1>12 DEF SendLoad
<1>13. CASE cc3000_start
  <2>1. [cmd |-> cc3000_start_command.cmd, id |-> Inc(desired)] \in Commands
    BY DEF cc3000_start_command, cc3000_hci_command, Commands
  <2>2. devCmds' \in Seq(Commands)
    BY <1>13, <2>1 DEF cc3000_start
  <2>3. cc3000_start_command.evt \in Opcodes
    BY DEF cc3000_start_command, cc3000_hci_command
  <2>4. boots' \in 0..MaxBoots
    BY <1>13, BoundsAssumption DEF cc3000_start
  <2>5. QED
    BY <1>0, <1>13, <2>2, <2>3, <2>4
       DEF cc3000_start, IncrementDesired, cc3000_hci_expect,
           cc3000_interrupt_enable, AllRequests
<1>14. CASE cc3000_stop
  <2>1. devCmds' \in Seq(Commands) /\ devOut' \in Seq(Messages)
    BY <1>14, EmptySeq DEF cc3000_stop
  <2>2. devUsed' \in 0..UsedMax
    BY <1>14, BoundsAssumption DEF cc3000_stop
  <2>3. QED
    BY <1>14, <2>1, <2>2
       DEF cc3000_stop, cc3000_interrupt_disable, AllRequests
<1>15. QED
  BY <1>1, <1>2, <1>3, <1>4, <1>5, <1>6, <1>7, <1>8, <1>9, <1>10, <1>11,
     <1>12, <1>13, <1>14 DEF CallerBegins, HostContinues

\* The steps of the device keep the types.
LEMMA DeviceDriverTypeOK ==
    ASSUME DriverTypeOK, DeviceSteps
    PROVE  DriverTypeOK'
<1> USE DEF DriverTypeOK, hostVars, intVars
<1>0. ASSUME UNCHANGED handlerVars PROVE HandlerTypeOK'
  BY <1>0 DEF HandlerTypeOK, handlerVars
<1>1. CASE DeviceReply
  <2> DEFINE c == Head(devCmds)
  <2>1. c \in Commands /\ Tail(devCmds) \in Seq(Commands)
    BY <1>1, HeadTailProperties DEF DeviceReply
  <2>2. devOut' \in Seq(Messages)
    <3>1. PICK byte \in Bytes :
             \/ devOut' = Append(devOut, Reply(c, byte))
             \/ \E content \in Bytes :
                   devOut' = devOut \o
                       <<Reply(c, byte), RecvDataMessage(c, content)>>
      BY <1>1 DEF DeviceReply
    <3>2. \A b \in Bytes : b \in UInt8
      BY BytesAssumption DEF UInt8
    <3>3. CASE devOut' = Append(devOut, Reply(c, byte))
      BY <2>1, <3>2, <3>3, MessageTypes, AppendProperties, NamedOpcodes
    <3>4. ASSUME NEW content \in Bytes,
                 devOut' = devOut \o
                     <<Reply(c, byte), RecvDataMessage(c, content)>>
          PROVE  devOut' \in Seq(Messages)
      <4>1. <<Reply(c, byte), RecvDataMessage(c, content)>> \in Seq(Messages)
        BY <2>1, <3>2, MessageTypes, NamedOpcodes
      <4>2. QED
        BY <3>4, <4>1, ConcatProperties
    <3>5. QED
      BY <3>1, <3>3, <3>4
  <2>3. QED
    BY <1>0, <1>1, <2>1, <2>2 DEF DeviceReply
<1>2. ASSUME NEW n \in 1..UsedMax, DeviceFreesBuffers(n) PROVE DriverTypeOK'
  <2>1. n \in UInt8 /\ devUsed' \in 0..UsedMax /\ devUsed' <= devUsed
    BY <1>2, BoundsAssumption DEF DeviceFreesBuffers, UInt8
  <2>2. devOut' \in Seq(Messages)
    BY <1>2, <2>1, MessageTypes, NamedOpcodes, AppendProperties
       DEF DeviceFreesBuffers
  <2>3. QED
    BY <1>0, <1>2, <2>1, <2>2, BoundsAssumption DEF DeviceFreesBuffers
<1>3. ASSUME NEW move \in LinkMoves, DeviceLinkMoves(move) PROVE DriverTypeOK'
  <2>1. devOut' \in Seq(Messages)
    <3>1. 0 \in UInt8 /\ move.op \in Opcodes
      BY NamedOpcodes DEF UInt8
    <3>2. Unsolicited(move.op, 0) \in Messages
      BY <3>1, MessageTypes
    <3>3. QED
      BY <1>3, <3>2, AppendProperties DEF DeviceLinkMoves
  <2>2. move.to \in {"down", "up", "ip"}
    BY DEF LinkMoves
  <2>3. QED
    BY <1>0, <1>3, <2>1, <2>2 DEF DeviceLinkMoves
<1>4. ASSUME NEW op \in OtherEvents, DeviceRaises(op) PROVE DriverTypeOK'
  <2>1. devOut' \in Seq(Messages)
    BY <1>4, OtherEventsAssumption, MessageTypes, AppendProperties
       DEF DeviceRaises, UInt8
  <2>2. QED
    BY <1>0, <1>4, <2>1 DEF DeviceRaises
<1>5. QED
  BY <1>1, <1>2, <1>3, <1>4 DEF DeviceSteps

\* Somebody takes a message from the device and hands it to the handler.
Receives == cc3000_spi_receive /\ UNCHANGED <<hostVars, boots>>

\* Receiving a message keeps the types, whatever becomes of the interrupts.
LEMMA ReceiveDriverTypeOK ==
    ASSUME DriverTypeOK, Receives,
           intEnabled' \in BOOLEAN, isrFlag' \in BOOLEAN
    PROVE  DriverTypeOK'
<1> USE DEF DriverTypeOK, Receives
<1>1. Head(devOut) \in Messages /\ Tail(devOut) \in Seq(Messages)
  BY HeadTailProperties DEF cc3000_spi_receive
<1>2. HandlerTypeOK'
  BY <1>1, HandlerStep DEF cc3000_spi_receive
<1>3. QED
  BY <1>1, <1>2 DEF cc3000_spi_receive, hostVars

-----------------------------------------------------------------------------
(* Power.                                                                  *)

\* The device is powered exactly while the caller is not "off".
PowerInv == devOn <=> pc # "off"

\* Only cc3000_start and cc3000_stop change either, and they change both.
LEMMA HostPowerInv ==
    ASSUME PowerInv, CallerBegins \/ HostContinues
    PROVE  PowerInv'
<1> USE DEF PowerInv, devVars
<1>1. CASE CallerBegins
  BY <1>1
     DEF CallerBegins, RequestBegin, GetBufferSize, GetRecvBytes, Collect,
         CanCollect, SendLoad, cc3000_start, cc3000_stop
<1>2. CASE HostContinues
  BY <1>2
     DEF HostContinues, RequestStartFrame, RequestEndFrame, RequestExpect,
         GetRecvBytesExpect, SendStore, SendStartFrame, SendEndFrame
<1>3. QED
  BY <1>1, <1>2

\* What the device does never concerns them.
LEMMA DeviceFrame ==
    ASSUME DeviceSteps
    PROVE  UNCHANGED <<handlerVars, hostVars, intVars, devOn, boots>>
BY DEF DeviceSteps, DeviceReply, DeviceFreesBuffers, DeviceLinkMoves,
       DeviceRaises

-----------------------------------------------------------------------------
(* The two counters.                                                       *)

\* Gap counts, modulo the width of the counters.
LEMMA GapFacts ==
    ASSUME desired \in Counter, current \in Counter
    PROVE  /\ Gap \in 0..(CounterMod - 1)
           /\ Gap = 0 <=> cc3000_is_ready
BY CounterModAssumption DEF Gap, Counter, cc3000_is_ready

\* One more request made.
LEMMA GapIncrement ==
    ASSUME desired \in Counter, current \in Counter, Gap < CounterMod - 1,
           desired' = Inc(desired), current' = current
    PROVE  Gap' = Gap + 1 /\ desired' # current'
BY CounterModAssumption DEF Gap, Counter, Inc

\* One more request completed.
LEMMA GapDecrement ==
    ASSUME desired \in Counter, current \in Counter, Gap # 0,
           desired' = desired, current' = Inc(current)
    PROVE  Gap' = Gap - 1 /\ (Gap = 1 => cc3000_is_ready')
<1>1. Gap' = Gap - 1
  BY CounterModAssumption DEF Gap, Counter, Inc
<1>2. Gap = 1 => desired' = current'
  BY CounterModAssumption DEF Gap, Counter, Inc
<1>3. QED
  BY <1>1, <1>2 DEF cc3000_is_ready

\* Nothing is counted when the counters keep their values.
LEMMA GapUnchanged ==
    ASSUME desired' = desired, current' = current
    PROVE  Gap' = Gap
BY DEF Gap

\* Initially nothing is counted.
LEMMA InitCounterInv == DriverInit => CounterInv
BY BoundsAssumption
   DEF DriverInit, HandlerInit, CounterInv, NeverOvertaken, Gap

\* A step that touches neither the counters, cc3000_expect, the waiting caller
\* nor the number of restarts keeps the invariant, if it enters no part of a
\* request function it was not in.
LEMMA CounterInvFrame ==
    ASSUME CounterInv, UNCHANGED <<counters, cur, boots>>,
           pc' \in {"begun", "clocking", "sent", "rxarm"} =>
               pc \in {"begun", "clocking", "sent", "rxarm"},
           pc = "off" <=> pc' = "off"
    PROVE  CounterInv'
BY DEF CounterInv, NeverOvertaken, Gap, counters, cc3000_is_ready

\* The steps of the calling thread keep the invariant.
LEMMA HostCounterInv ==
    ASSUME DriverTypeOK, CounterInv, CallerBegins \/ HostContinues
    PROVE  CounterInv'
<1> USE GapFacts DEF handlerVars, counters, hostVars, devVars
<1>0. /\ desired \in Counter /\ current \in Counter
      /\ boots \in 0..MaxBoots /\ Gap <= boots + 1
      /\ cur \in AllRequests
  BY DEF DriverTypeOK, HandlerTypeOK, CounterInv
<1>1. Gap < CounterMod - 1
  BY <1>0, CounterModAssumption, CounterRoomAssumption, BoundsAssumption
<1>2. ASSUME IncrementDesired, current' = current
      PROVE  Gap' = Gap + 1 /\ desired' # current'
  BY <1>0, <1>1, <1>2, GapIncrement DEF IncrementDesired
<1>3. ASSUME NEW r \in Requests, RequestBegin(r) PROVE CounterInv'
  <2>1. Gap = 0 /\ expect = 0
    BY <1>3, <1>0 DEF RequestBegin, CounterInv, NeverOvertaken
  <2>2. Gap' = 1
    BY <1>2, <1>3, <2>1 DEF RequestBegin
  <2>3. cur' # NoRequest
    BY <1>3, RequestFacts DEF RequestBegin
  <2>4. QED
    BY <1>0, <1>3, <2>1, <2>2, <2>3
       DEF RequestBegin, CounterInv, NeverOvertaken
<1>4. CASE RequestExpect
  <2>1. Gap = 1 /\ Gap' = Gap
    BY <1>4, GapUnchanged DEF RequestExpect, CounterInv, NeverOvertaken
  <2>2. ~ cc3000_is_ready'
    BY <1>0, <1>4, <2>1 DEF RequestExpect, cc3000_is_ready
  <2>3. QED
    BY <1>4, <2>1, <2>2 DEF RequestExpect, CounterInv, NeverOvertaken
<1>5. CASE GetRecvBytesExpect
  <2>1. Gap = 1 /\ Gap' = Gap
    BY <1>5, GapUnchanged DEF GetRecvBytesExpect, CounterInv, NeverOvertaken
  <2>2. ~ cc3000_is_ready'
    BY <1>0, <1>5, <2>1 DEF GetRecvBytesExpect, cc3000_is_ready
  <2>3. QED
    BY <1>5, <2>1, <2>2 DEF GetRecvBytesExpect, CounterInv, NeverOvertaken
<1>6. CASE GetRecvBytes
  <2>1. Gap = 0 /\ expect = 0
    BY <1>0, <1>6 DEF GetRecvBytes, CanCollect, CounterInv, NeverOvertaken
  <2>2. CASE retbuf.byte > 0
    <3>1. /\ IncrementDesired /\ cur' = RecvData /\ pc' = "rxarm"
          /\ UNCHANGED <<current, expect, boots>>
      BY <1>6, <2>2 DEF GetRecvBytes
    <3>2. Gap' = 1
      BY <1>2, <2>1, <3>1
    <3>3. RecvData # NoRequest
      BY DEF RecvData, NoRequest, cc3000_hci_command, HCI_DATA_RECV,
             HCI_DATA_BASE
    <3>4. QED
      BY <1>0, <2>1, <3>1, <3>2, <3>3 DEF CounterInv, NeverOvertaken
  <2>3. CASE ~ (retbuf.byte > 0)
    <3>1. cur' = NoRequest /\ UNCHANGED <<desired, current, expect, pc, boots>>
      BY <1>6, <2>3 DEF GetRecvBytes
    <3>2. Gap' = 0 /\ pc' = "idle"
      BY <1>6, <2>1, <3>1, GapUnchanged DEF GetRecvBytes, CanCollect
    <3>3. QED
      BY <1>0, <2>1, <3>1, <3>2 DEF CounterInv, NeverOvertaken
  <2>4. QED
    BY <2>2, <2>3
<1>7. CASE GetBufferSize \/ Collect
  <2>1. /\ cur' = NoRequest /\ UNCHANGED <<counters, pc, boots>>
        /\ pc = "idle" /\ cc3000_is_ready
    BY <1>7 DEF GetBufferSize, Collect, CanCollect
  <2>2. Gap = 0 /\ Gap' = Gap
    BY <1>0, <2>1, GapUnchanged
  <2>3. expect' = 0
    BY <2>1 DEF CounterInv, NeverOvertaken
  <2>4. QED
    BY <1>0, <2>1, <2>2, <2>3 DEF CounterInv, NeverOvertaken
<1>8. CASE cc3000_start
  <2>1. Gap' = Gap + 1 /\ desired' # current'
    BY <1>2, <1>8 DEF cc3000_start
  <2>2. cc3000_start_command # NoRequest
    BY DEF cc3000_start_command, NoRequest, cc3000_hci_command,
           HCI_CMND_SIMPLE_LINK_START
  <2>3. boots' = boots + 1 /\ cur' = cc3000_start_command /\ pc' = "idle"
    BY <1>8 DEF cc3000_start
  <2>4. QED
    BY <1>0, <2>1, <2>2, <2>3
       DEF CounterInv, NeverOvertaken, cc3000_is_ready
<1>9. CASE cc3000_stop
  <2>1. Gap' = Gap
    BY <1>9, GapUnchanged DEF cc3000_stop
  <2>2. QED
    BY <1>9, <2>1
       DEF cc3000_stop, CounterInv, NeverOvertaken, cc3000_is_ready
<1>10. CASE RequestStartFrame \/ RequestEndFrame
  BY <1>10, CounterInvFrame DEF RequestStartFrame, RequestEndFrame
<1>11. CASE SendLoad \/ SendStore \/ SendStartFrame \/ SendEndFrame
  BY <1>11, CounterInvFrame
     DEF SendLoad, SendStore, SendStartFrame, SendEndFrame
<1>12. QED
  BY <1>3, <1>4, <1>5, <1>6, <1>7, <1>8, <1>9, <1>10, <1>11
     DEF CallerBegins, HostContinues

\* The device touches none of it.
LEMMA DeviceCounterInv ==
    ASSUME CounterInv, DeviceSteps
    PROVE  CounterInv'
BY CounterInvFrame
   DEF DeviceSteps, DeviceReply, DeviceFreesBuffers, DeviceLinkMoves,
       DeviceRaises, handlerVars, hostVars, counters

\* A message completes a request only while one is armed, so it never makes
\* current overtake desired.
LEMMA HandlerCounterInv ==
    ASSUME DriverTypeOK, CounterInv, NEW m \in Messages,
           cc3000_event_handler(m), UNCHANGED <<hostVars, boots>>
    PROVE  CounterInv'
<1>1. /\ desired \in Counter /\ current \in Counter /\ boots \in 0..MaxBoots
      /\ HandlerTypeOK
  BY DEF DriverTypeOK, HandlerTypeOK
<1>2. /\ desired' = desired
      /\ \/ m.op = expect /\ current' = Inc(current) /\ expect' = 0
         \/ UNCHANGED <<current, expect>>
  BY <1>1, HandlerStep
<1>3. CASE UNCHANGED <<current, expect>>
  BY <1>2, <1>3, CounterInvFrame DEF counters, hostVars
<1>4. CASE m.op = expect /\ current' = Inc(current) /\ expect' = 0
  <2>1. expect # 0
    <3>1. expect \in Opcodes
      BY <1>1, <1>4 DEF Messages
    <3>2. 0 \notin Opcodes
      BY DEF Opcodes
    <3>3. QED
      BY <3>1, <3>2
  <2>2. Gap # 0
    BY <1>1, <2>1, GapFacts DEF CounterInv, NeverOvertaken
  <2>3. Gap' = Gap - 1 /\ Gap \in Nat
    BY <1>1, <1>2, <1>4, <2>2, GapDecrement, GapFacts, CounterModAssumption
  <2>4. /\ pc \notin {"begun", "clocking", "sent", "rxarm"}
        /\ ~ (cur = NoRequest /\ pc # "off")
    BY <2>1, <2>2 DEF CounterInv, NeverOvertaken
  <2>5. QED
    BY <1>1, <1>4, <2>3, <2>4 DEF CounterInv, NeverOvertaken, hostVars
<1>5. QED
  BY <1>2, <1>3, <1>4
=============================================================================
