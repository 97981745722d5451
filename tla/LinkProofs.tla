----------------------------- MODULE LinkProofs -----------------------------
(***************************************************************************)
(* Lemmas about Driver for all values of its constants, whoever receives   *)
(* the messages: what its steps and the handling of a message do to the    *)
(* relation between cc3000_state and the link of the device.               *)
(***************************************************************************)
EXTENDS AnswerProofs

\* The events that change cc3000_state.
LinkEvents == {HCI_EVNT_WLAN_UNSOL_CONNECT, HCI_EVNT_WLAN_UNSOL_DISCONNECT,
               HCI_EVNT_WLAN_UNSOL_DHCP}

\* What a handler that finds "was" in cc3000_state.connected makes of a message.
ConnectedBy(m, was) ==
    \/ m.op = HCI_EVNT_WLAN_UNSOL_CONNECT
    \/ m.op # HCI_EVNT_WLAN_UNSOL_DISCONNECT /\ was

\* What it makes of all messages of a sequence, if it finds "was" at first.
KeptFrom(msgs, i) ==
    \A j \in i..Len(msgs) : msgs[j].op # HCI_EVNT_WLAN_UNSOL_DISCONNECT
ConnectedAfter(msgs, was) ==
    \/ was /\ KeptFrom(msgs, 1)
    \/ \E i \in 1..Len(msgs) :
          msgs[i].op = HCI_EVNT_WLAN_UNSOL_CONNECT /\ KeptFrom(msgs, i)

\* The event that brings the address waits.
AddressComes(msgs) ==
    \E i \in 1..Len(msgs) : msgs[i].op = HCI_EVNT_WLAN_UNSOL_DHCP

\* What travels between the two: commands with an opcode that is answered, and
\* messages of which those that move the link are events.  A device that is off
\* has neither.
WireCommands == {c \in Commands : c.cmd \in NormalEvents}
WireMessages == {m \in Messages : m.op \in LinkEvents => m.type = HCI_TYPE_EVENT}
WireInv ==
    /\ devCmds \in Seq(WireCommands) /\ devOut \in Seq(WireMessages)
    /\ pc = "off" => devCmds = <<>> /\ devOut = <<>>

\* A device that is off has no link either.
AddressInv ==
    /\ pc = "off" => devLink = "down"
    /\ pc # "off" /\ devLink = "ip" => dhcpComplete \/ AddressComes(devOut)

ConnectedInv ==
    pc # "off" => (ConnectedAfter(devOut, connected) <=> devLink # "down")

-----------------------------------------------------------------------------
(* Opcodes, and what the handler does with them.                           *)

\* The three events differ, the handler takes them for WLAN events and not for
\* unsolicited ones, and no answer has their opcodes.
LEMMA LinkOpcodes ==
    /\ HCI_EVNT_WLAN_UNSOL_CONNECT # HCI_EVNT_WLAN_UNSOL_DISCONNECT
    /\ HCI_EVNT_WLAN_UNSOL_CONNECT # HCI_EVNT_WLAN_UNSOL_DHCP
    /\ HCI_EVNT_WLAN_UNSOL_DHCP # HCI_EVNT_WLAN_UNSOL_DISCONNECT
    /\ \A op \in LinkEvents :
          /\ IsWlanEvent(op) /\ ~ IsUnsolicited(op)
          /\ op \notin NormalEvents
          /\ op # HCI_DATA_RECV /\ op # HCI_EVNT_DATA_UNSOL_FREE_BUFF
<1> USE DEF LinkEvents, HCI_EVNT_WLAN_UNSOL_CONNECT, HCI_EVNT_WLAN_UNSOL_DHCP,
            HCI_EVNT_WLAN_UNSOL_DISCONNECT, HCI_EVNT_WLAN_UNSOL_BASE
<1>1. ASSUME NEW op \in LinkEvents
      PROVE  IsWlanEvent(op) /\ ~ IsUnsolicited(op)
  <2>1. op \div HCI_EVNT_WLAN_UNSOL_BASE = 1
    BY <1>1, SMT
  <2>2. op \div HCI_EVNT_UNSOL_BASE = 2
    BY <1>1, SMT DEF HCI_EVNT_UNSOL_BASE
  <2>3. 1 % 2 = 1 /\ 2 % 2 = 0
    OBVIOUS
  <2>4. QED
    BY <2>1, <2>2, <2>3 DEF IsWlanEvent, IsUnsolicited, HasBit
<1>2. ASSUME NEW op \in LinkEvents
      PROVE  op # HCI_DATA_RECV /\ op # HCI_EVNT_DATA_UNSOL_FREE_BUFF
  BY <1>2 DEF HCI_DATA_RECV, HCI_DATA_BASE, HCI_EVNT_DATA_UNSOL_FREE_BUFF,
              HCI_EVNT_UNSOL_BASE
<1>3. ASSUME NEW op \in LinkEvents
      PROVE  op \notin NormalEvents
  BY <1>1, <1>3, StoredOpcodes
<1>4. /\ HCI_EVNT_WLAN_UNSOL_CONNECT # HCI_EVNT_WLAN_UNSOL_DISCONNECT
      /\ HCI_EVNT_WLAN_UNSOL_CONNECT # HCI_EVNT_WLAN_UNSOL_DHCP
      /\ HCI_EVNT_WLAN_UNSOL_DHCP # HCI_EVNT_WLAN_UNSOL_DISCONNECT
  OBVIOUS
<1>5. QED
  BY <1>1, <1>2, <1>3, <1>4

\* The handler applies a link event that comes as an event, and nothing else
\* touches cc3000_state.
LEMMA HandlerLink ==
    ASSUME HandlerTypeOK, NEW m, cc3000_event_handler(m),
           m.op \in LinkEvents => m.type = HCI_TYPE_EVENT
    PROVE  /\ connected' <=> ConnectedBy(m, connected)
           /\ connected' \in BOOLEAN
           /\ dhcpComplete' <=>
                  dhcpComplete \/ m.op = HCI_EVNT_WLAN_UNSOL_DHCP
<1> USE DEF ConnectedBy
<1>1. connected \in BOOLEAN /\ dhcpComplete \in BOOLEAN
  BY DEF HandlerTypeOK
<1>2. ASSUME UNCHANGED netState, m.op \notin LinkEvents
      PROVE  /\ connected' <=> ConnectedBy(m, connected)
             /\ connected' \in BOOLEAN
             /\ dhcpComplete' <=>
                    dhcpComplete \/ m.op = HCI_EVNT_WLAN_UNSOL_DHCP
  BY <1>1, <1>2 DEF netState, LinkEvents
<1>3. CASE EventMessage(m)
  <2>1. CASE UnsolicitedEvent(m)
    BY <1>2, <2>1, LinkOpcodes DEF UnsolicitedEvent
  <2>2. CASE WlanEvent(m)
    BY <1>1, <2>2 DEF WlanEvent
  <2>3. CASE NormalEvent(m)
    BY <1>2, <2>3, LinkOpcodes DEF NormalEvent
  <2>4. QED
    BY <1>3, <2>1, <2>2, <2>3 DEF EventMessage
<1>4. CASE DataMessage(m)
  BY <1>2, <1>4, SpecialRequests DEF DataMessage
<1>5. CASE OtherMessage(m)
  BY <1>2, <1>5 DEF OtherMessage
<1>6. QED
  BY <1>3, <1>4, <1>5 DEF cc3000_event_handler

-----------------------------------------------------------------------------
(* Sequences of messages.                                                  *)

\* Nothing waits: the state is what it is.
LEMMA EmptyLink ==
    ASSUME NEW was \in BOOLEAN
    PROVE  (ConnectedAfter(<<>>, was) <=> was) /\ ~ AddressComes(<<>>)
<1>1. Len(<<>>) = 0 /\ 1..0 = {}
  OBVIOUS
<1>2. QED
  BY <1>1 DEF ConnectedAfter, KeptFrom, AddressComes

\* A message that comes last is applied last.
LEMMA AppendLink ==
    ASSUME NEW msgs \in Seq(Messages), NEW m \in Messages,
           NEW was \in BOOLEAN
    PROVE  /\ ConnectedAfter(Append(msgs, m), was) <=>
                  ConnectedBy(m, ConnectedAfter(msgs, was))
           /\ AddressComes(Append(msgs, m)) <=>
                  AddressComes(msgs) \/ m.op = HCI_EVNT_WLAN_UNSOL_DHCP
<1> DEFINE n == Len(msgs)
           longer == Append(msgs, m)
<1>1. /\ n \in Nat /\ Len(longer) = n + 1 /\ longer[n + 1] = m
      /\ \A i \in 1..n : longer[i] = msgs[i]
  BY AppendProperties, LenProperties
<1> HIDE DEF longer, n
<1>2. ASSUME NEW i \in 1..(n + 1)
      PROVE  KeptFrom(longer, i) <=>
                 /\ m.op # HCI_EVNT_WLAN_UNSOL_DISCONNECT
                 /\ \A j \in i..n :
                       msgs[j].op # HCI_EVNT_WLAN_UNSOL_DISCONNECT
  <2>1. \A j \in i..(n + 1) : j = n + 1 \/ (j \in i..n /\ j \in 1..n)
    BY <1>1
  <2>2. n + 1 \in i..(n + 1) /\ \A j \in i..n : j \in i..(n + 1) /\ j \in 1..n
    BY <1>1
  <2>3. QED
    BY <1>1, <2>1, <2>2 DEF KeptFrom
<1>3. 1 \in 1..(n + 1) /\ n + 1 \in 1..(n + 1)
  BY <1>1
<1>4. \A i \in 1..(n + 1) : i = n + 1 \/ i \in 1..n
  BY <1>1
<1>5. \A i \in 1..n : i \in 1..(n + 1)
  BY <1>1
<1>6. \A j \in (n + 1)..n : FALSE
  BY <1>1
<1>7. ConnectedAfter(longer, was) <=> ConnectedBy(m, ConnectedAfter(msgs, was))
  <2>1. CASE m.op = HCI_EVNT_WLAN_UNSOL_CONNECT
    <3>1. KeptFrom(longer, n + 1)
      BY <1>2, <1>3, <1>6, <2>1, LinkOpcodes
    <3>2. QED
      BY <1>1, <1>3, <2>1, <3>1 DEF ConnectedAfter, ConnectedBy
  <2>2. CASE m.op = HCI_EVNT_WLAN_UNSOL_DISCONNECT
    BY <1>1, <1>2, <1>3, <2>2, LinkOpcodes DEF ConnectedAfter, ConnectedBy
  <2>3. CASE /\ m.op # HCI_EVNT_WLAN_UNSOL_CONNECT
             /\ m.op # HCI_EVNT_WLAN_UNSOL_DISCONNECT
    <3>1. \A i \in 1..(n + 1) : KeptFrom(longer, i) <=> KeptFrom(msgs, i)
      BY <1>2, <2>3 DEF KeptFrom, n
    <3>2. ConnectedAfter(longer, was) <=> ConnectedAfter(msgs, was)
      BY <1>1, <1>3, <1>4, <1>5, <2>3, <3>1 DEF ConnectedAfter, n
    <3>3. QED
      BY <2>3, <3>2 DEF ConnectedBy
  <2>4. QED
    BY <2>1, <2>2, <2>3
<1>8. AddressComes(longer) <=>
          AddressComes(msgs) \/ m.op = HCI_EVNT_WLAN_UNSOL_DHCP
  BY <1>1, <1>3, <1>4, <1>5 DEF AddressComes, n
<1>9. QED
  BY <1>7, <1>8 DEF longer

\* The message that comes first is applied first.
LEMMA TailLink ==
    ASSUME NEW msgs \in Seq(Messages), msgs # <<>>,
           NEW was \in BOOLEAN, NEW is \in BOOLEAN,
           is <=> ConnectedBy(Head(msgs), was)
    PROVE  /\ ConnectedAfter(msgs, was) <=> ConnectedAfter(Tail(msgs), is)
           /\ AddressComes(msgs) <=>
                  \/ AddressComes(Tail(msgs))
                  \/ Head(msgs).op = HCI_EVNT_WLAN_UNSOL_DHCP
<1> DEFINE n == Len(msgs)
           rest == Tail(msgs)
<1>1. /\ n \in Nat /\ n >= 1 /\ Len(rest) = n - 1 /\ msgs[1] = Head(msgs)
      /\ \A i \in 1..(n - 1) : rest[i] = msgs[i + 1]
  BY HeadTailProperties, LenProperties
<1> HIDE DEF rest, n
<1>2. ASSUME NEW i \in 1..(n - 1)
      PROVE  KeptFrom(rest, i) <=> KeptFrom(msgs, i + 1)
  <2>1. ASSUME NEW j \in i..(n - 1)
        PROVE  /\ j + 1 \in (i + 1)..n
               /\ rest[j].op = msgs[j + 1].op
    BY <1>1, <1>2
  <2>2. ASSUME NEW j \in (i + 1)..n
        PROVE  j - 1 \in i..(n - 1) /\ msgs[j].op = rest[j - 1].op
    <3>1. j - 1 \in 1..(n - 1) /\ (j - 1) + 1 = j /\ j - 1 \in i..(n - 1)
      BY <1>1, <1>2
    <3>2. QED
      BY <1>1, <3>1
  <2>3. Len(rest) = n - 1
    BY <1>1
  <2>4. ASSUME KeptFrom(rest, i) PROVE KeptFrom(msgs, i + 1)
    BY <2>2, <2>3, <2>4 DEF KeptFrom, n
  <2>5. ASSUME KeptFrom(msgs, i + 1) PROVE KeptFrom(rest, i)
    BY <2>1, <2>3, <2>5 DEF KeptFrom, n
  <2>6. QED
    BY <2>4, <2>5
<1>3. KeptFrom(msgs, 1) <=>
          /\ Head(msgs).op # HCI_EVNT_WLAN_UNSOL_DISCONNECT
          /\ KeptFrom(rest, 1)
  <2>1. 1 \in 1..n /\ \A j \in 1..(n - 1) : j + 1 \in 1..n
    BY <1>1
  <2>2. \A j \in 1..n :
            j = 1 \/ (j - 1 \in 1..(n - 1) /\ msgs[j] = rest[j - 1])
    <3>1. \A j \in 1..n :
              j = 1 \/ (j - 1 \in 1..(n - 1) /\ (j - 1) + 1 = j)
      BY <1>1
    <3>2. QED
      BY <1>1, <3>1
  <2>3. Len(rest) = n - 1
    BY <1>1
  <2>4. ASSUME KeptFrom(msgs, 1)
        PROVE  /\ Head(msgs).op # HCI_EVNT_WLAN_UNSOL_DISCONNECT
               /\ KeptFrom(rest, 1)
    BY <1>1, <2>1, <2>3, <2>4 DEF KeptFrom, n
  <2>5. ASSUME Head(msgs).op # HCI_EVNT_WLAN_UNSOL_DISCONNECT,
               KeptFrom(rest, 1)
        PROVE  KeptFrom(msgs, 1)
    BY <1>1, <2>2, <2>3, <2>5 DEF KeptFrom, n
  <2>6. QED
    BY <2>4, <2>5
<1>4. \A i \in 1..n : i = 1 \/ (i - 1 \in 1..(n - 1) /\ (i - 1) + 1 = i)
  BY <1>1
<1>5. 1 \in 1..n /\ \A i \in 1..(n - 1) : i + 1 \in 1..n
  BY <1>1
<1> DEFINE Up(s, i) ==
               s[i].op = HCI_EVNT_WLAN_UNSOL_CONNECT /\ KeptFrom(s, i)
<1>6. \A i \in 1..(n - 1) : Up(rest, i) <=> Up(msgs, i + 1)
  BY <1>1, <1>2
<1>7. Up(msgs, 1) <=> /\ Head(msgs).op = HCI_EVNT_WLAN_UNSOL_CONNECT
                      /\ KeptFrom(rest, 1)
  BY <1>1, <1>3, LinkOpcodes
<1>8. ConnectedAfter(msgs, was) <=>
          (was /\ KeptFrom(msgs, 1)) \/ \E i \in 1..n : Up(msgs, i)
  BY DEF ConnectedAfter, n
<1>9. ConnectedAfter(rest, is) <=>
          (is /\ KeptFrom(rest, 1)) \/ \E i \in 1..(n - 1) : Up(rest, i)
  BY <1>1 DEF ConnectedAfter
<1> HIDE DEF Up
<1>10. (\E i \in 1..n : Up(msgs, i)) <=>
           Up(msgs, 1) \/ \E i \in 1..(n - 1) : Up(rest, i)
  BY <1>4, <1>5, <1>6
<1>11. ConnectedAfter(msgs, was) <=> ConnectedAfter(rest, is)
  BY <1>3, <1>7, <1>8, <1>9, <1>10 DEF ConnectedBy
<1>12. AddressComes(msgs) <=>
           AddressComes(rest) \/ Head(msgs).op = HCI_EVNT_WLAN_UNSOL_DHCP
  <2>1. \A i \in 1..n :
            i = 1 \/ (i - 1 \in 1..(n - 1) /\ msgs[i] = rest[i - 1])
    BY <1>1, <1>4
  <2>2. Len(rest) = n - 1
    BY <1>1
  <2>3. ASSUME AddressComes(msgs)
        PROVE  AddressComes(rest) \/ Head(msgs).op = HCI_EVNT_WLAN_UNSOL_DHCP
    BY <1>1, <2>1, <2>2, <2>3 DEF AddressComes, n
  <2>4. ASSUME AddressComes(rest) \/ Head(msgs).op = HCI_EVNT_WLAN_UNSOL_DHCP
        PROVE  AddressComes(msgs)
    BY <1>1, <1>5, <2>2, <2>4 DEF AddressComes, n
  <2>5. QED
    BY <2>3, <2>4
<1>13. QED
  BY <1>11, <1>12 DEF rest

-----------------------------------------------------------------------------
(* What travels.                                                           *)

\* Initially nothing does, and there is no link.
LEMMA InitLink == DriverInit => WireInv /\ AddressInv /\ ConnectedInv
<1> SUFFICES ASSUME DriverInit PROVE WireInv /\ AddressInv /\ ConnectedInv
  OBVIOUS
<1>1. pc = "off" /\ devLink = "down" /\ devCmds = <<>> /\ devOut = <<>>
  BY DEF DriverInit
<1>2. QED
  BY <1>1, EmptySeq DEF WireInv, AddressInv, ConnectedInv

\* All that travels are messages.
LEMMA WireAreMessages ==
    /\ WireMessages \subseteq Messages
    /\ Seq(WireMessages) \subseteq Seq(Messages)
<1>1. WireMessages \subseteq Messages
  BY DEF WireMessages
<1>2. QED
  BY <1>1

\* The messages the device builds.
LEMMA WireBuilt ==
    ASSUME NEW byte \in UInt8
    PROVE  /\ \A c \in WireCommands :
                 /\ Reply(c, byte) \in WireMessages
                 /\ Reply(c, byte).op \notin LinkEvents
                 /\ RecvDataMessage(c, byte) \in WireMessages
                 /\ RecvDataMessage(c, byte).op \notin LinkEvents
           /\ \A op \in Opcodes :
                 /\ Unsolicited(op, byte) \in WireMessages
                 /\ Unsolicited(op, byte).op = op
<1>1. ASSUME NEW c \in WireCommands
      PROVE  /\ Reply(c, byte).op \notin LinkEvents
             /\ RecvDataMessage(c, byte).op \notin LinkEvents
  BY <1>1, LinkOpcodes DEF WireCommands, Reply, RecvDataMessage, Message
<1>2. \A op : /\ Unsolicited(op, byte).op = op
              /\ Unsolicited(op, byte).type = HCI_TYPE_EVENT
  BY DEF Unsolicited, Message
<1>3. \A c \in WireCommands : c \in Commands
  BY DEF WireCommands
<1>4. QED
  BY <1>1, <1>2, <1>3, MessageTypes DEF WireMessages

\* The calling thread sends the commands of its requests, and a stop empties
\* the device.
LEMMA HostWireInv ==
    ASSUME DriverTypeOK, WireInv, CallerBegins \/ HostContinues
    PROVE  WireInv'
<1> USE DEF handlerVars, hostVars, devVars
<1>1. CASE RequestEndFrame
  <2>1. cur.cmd \in NormalEvents /\ cur.cmd \in Opcodes /\ desired \in Counter
    BY <1>1, RequestsAssumption, RequestFacts
       DEF RequestEndFrame, DriverTypeOK, HandlerTypeOK
  <2>2. [cmd |-> cur.cmd, id |-> desired] \in WireCommands
    BY <2>1 DEF WireCommands, Commands
  <2>3. QED
    BY <1>1, <2>2, AppendProperties DEF RequestEndFrame, WireInv
<1>2. CASE cc3000_start
  <2>1. Inc(desired) \in Counter
    BY IncDec DEF DriverTypeOK, HandlerTypeOK
  <2>2. [cmd |-> cc3000_start_command.cmd, id |-> Inc(desired)]
            \in WireCommands
    BY <2>1, SpecialRequests, StoredRange, RequestFacts
       DEF WireCommands, Commands
  <2>3. devCmds' \in Seq(WireCommands) /\ UNCHANGED devOut /\ pc' # "off"
    BY <1>2, <2>2 DEF cc3000_start
  <2>4. QED
    BY <2>3 DEF WireInv
<1>3. CASE cc3000_stop
  BY <1>3, EmptySeq DEF cc3000_stop, WireInv
<1>4. ASSUME UNCHANGED <<devCmds, devOut>>, pc' # "off" PROVE WireInv'
  BY <1>4 DEF WireInv
<1>5. CASE \E r \in Requests : RequestBegin(r)
  BY <1>4, <1>5 DEF RequestBegin
<1>6. CASE GetBufferSize \/ GetRecvBytes \/ Collect \/ SendLoad
  BY <1>4, <1>6
     DEF GetBufferSize, GetRecvBytes, Collect, SendLoad, CanCollect
<1>7. CASE \/ RequestStartFrame \/ RequestExpect \/ GetRecvBytesExpect
           \/ SendStore \/ SendStartFrame \/ SendEndFrame
  BY <1>4, <1>7
     DEF RequestStartFrame, RequestExpect, GetRecvBytesExpect, SendStore,
         SendStartFrame, SendEndFrame
<1>8. QED
  BY <1>1, <1>2, <1>3, <1>5, <1>6, <1>7 DEF CallerBegins, HostContinues

\* What the device sends: messages that do not concern its link, or the event
\* of the move its link makes.
LEMMA DeviceSends ==
    ASSUME DriverTypeOK, PowerInv, WireInv, DeviceSteps
    PROVE  /\ pc # "off" /\ devCmds' \in Seq(WireCommands)
           /\ \/ /\ UNCHANGED devLink
                 /\ \E m \in WireMessages :
                       m.op \notin LinkEvents /\ devOut' = Append(devOut, m)
              \/ /\ UNCHANGED devLink
                 /\ \E r \in WireMessages, d \in WireMessages :
                       /\ r.op \notin LinkEvents /\ d.op \notin LinkEvents
                       /\ devOut' = Append(Append(devOut, r), d)
              \/ \E move \in LinkMoves, m \in WireMessages :
                    /\ devLink = move.from /\ devLink' = move.to
                    /\ m.op = move.op /\ devOut' = Append(devOut, m)
<1>0. 0 \in UInt8 /\ Bytes \subseteq UInt8
  BY BytesAssumption DEF UInt8
<1>1. CASE DeviceReply
  <2> DEFINE c == Head(devCmds)
             reply(byte) == Reply(c, byte)
             data(byte) == RecvDataMessage(c, byte)
  <2>1. /\ c \in WireCommands /\ Tail(devCmds) \in Seq(WireCommands)
        /\ devCmds # <<>> /\ devOut \in Seq(WireMessages)
    BY <1>1, HeadTailProperties DEF DeviceReply, WireInv
  <2>2. \A byte \in Bytes :
            /\ reply(byte) \in WireMessages /\ reply(byte).op \notin LinkEvents
            /\ data(byte) \in WireMessages /\ data(byte).op \notin LinkEvents
    BY <1>0, <2>1, WireBuilt
  <2>3. PICK byte \in Bytes :
           \/ devOut' = Append(devOut, reply(byte))
           \/ \E content \in Bytes :
                 devOut' = devOut \o <<reply(byte), data(content)>>
    BY <1>1 DEF DeviceReply
  <2>4. UNCHANGED devLink /\ devCmds' = Tail(devCmds) /\ pc # "off"
    BY <1>1, <2>1 DEF DeviceReply, WireInv
  <2> HIDE DEF reply, data
  <2>5. \A content \in Bytes :
            devOut \o <<reply(byte), data(content)>> =
                Append(Append(devOut, reply(byte)), data(content))
    BY <2>1, <2>2
  <2>6. QED
    BY <2>1, <2>2, <2>3, <2>4, <2>5
<1>2. ASSUME NEW n \in 1..UsedMax, DeviceFreesBuffers(n)
      PROVE  /\ pc # "off" /\ UNCHANGED <<devCmds, devLink>>
             /\ \E m \in WireMessages :
                   m.op \notin LinkEvents /\ devOut' = Append(devOut, m)
  <2> DEFINE m == Unsolicited(HCI_EVNT_DATA_UNSOL_FREE_BUFF, n)
  <2>1. m \in WireMessages /\ m.op \notin LinkEvents
    <3>1. n \in UInt8
      BY <1>2, BoundsAssumption DEF UInt8
    <3>2. QED
      BY <3>1, WireBuilt, NamedOpcodes, LinkOpcodes
  <2>2. QED
    BY <1>2, <2>1 DEF DeviceFreesBuffers, CanRaise, PowerInv
<1>3. ASSUME NEW op \in OtherEvents, DeviceRaises(op)
      PROVE  /\ pc # "off" /\ UNCHANGED <<devCmds, devLink>>
             /\ \E m \in WireMessages :
                   m.op \notin LinkEvents /\ devOut' = Append(devOut, m)
  <2> DEFINE m == Unsolicited(op, 0)
  <2>1. m \in WireMessages /\ m.op \notin LinkEvents
    BY <1>0, <1>3, WireBuilt, OtherEventsAssumption DEF LinkEvents
  <2>2. QED
    BY <1>3, <2>1 DEF DeviceRaises, CanRaise, PowerInv
<1>4. ASSUME NEW move \in LinkMoves, DeviceLinkMoves(move)
      PROVE  /\ pc # "off" /\ UNCHANGED devCmds
             /\ devLink = move.from /\ devLink' = move.to
             /\ \E m \in WireMessages :
                   m.op = move.op /\ devOut' = Append(devOut, m)
  <2> DEFINE m == Unsolicited(move.op, 0)
  <2>1. m \in WireMessages /\ m.op = move.op
    BY <1>0, <1>4, WireBuilt, NamedOpcodes
  <2>2. QED
    BY <1>4, <2>1 DEF DeviceLinkMoves, CanRaise, PowerInv
<1>5. devCmds \in Seq(WireCommands)
  BY DEF WireInv
<1>6. QED
  BY <1>1, <1>2, <1>3, <1>4, <1>5 DEF DeviceSteps

\* So what travels keeps its kind.
LEMMA DeviceWireInv ==
    ASSUME DriverTypeOK, PowerInv, WireInv, DeviceSteps
    PROVE  WireInv'
<1>1. pc # "off" /\ UNCHANGED pc /\ devCmds' \in Seq(WireCommands)
  BY DeviceSends, DeviceFrame DEF hostVars
<1>2. devOut' \in Seq(WireMessages)
  <2>1. devOut \in Seq(WireMessages)
    BY DEF WireInv
  <2>2. \A m \in WireMessages : Append(devOut, m) \in Seq(WireMessages)
    BY <2>1, AppendProperties
  <2>3. \A r \in WireMessages, d \in WireMessages :
            Append(Append(devOut, r), d) \in Seq(WireMessages)
    BY <2>2, AppendProperties
  <2>4. QED
    BY <2>2, <2>3, DeviceSends
<1>3. QED
  BY <1>1, <1>2 DEF WireInv

\* Receiving takes the first message away.
LEMMA ReceiveWireInv ==
    ASSUME WireInv, Receives
    PROVE  /\ WireInv'
           /\ pc # "off" /\ UNCHANGED <<pc, devLink>>
           /\ devOut \in Seq(WireMessages) /\ devOut # <<>>
           /\ Head(devOut) \in WireMessages /\ devOut' = Tail(devOut)
           /\ cc3000_event_handler(Head(devOut))
BY HeadTailProperties
   DEF WireInv, Receives, cc3000_spi_receive, hostVars

-----------------------------------------------------------------------------
(* cc3000_state and the link.                                              *)

\* A step that leaves the link, the messages and cc3000_state alone changes
\* nothing, if the device stays on or off.
LEMMA LinkFrame ==
    ASSUME UNCHANGED <<devLink, devOut, connected, dhcpComplete>>,
           pc = "off" <=> pc' = "off"
    PROVE  /\ AddressInv => AddressInv'
           /\ ConnectedInv => ConnectedInv'
BY DEF AddressInv, ConnectedInv

\* The calling thread: a start finds a device without a link and resets
\* cc3000_state, a stop takes the link down, the rest does not matter.
LEMMA HostLink ==
    ASSUME WireInv, AddressInv, CallerBegins \/ HostContinues
    PROVE  /\ AddressInv'
           /\ ConnectedInv => ConnectedInv'
<1> USE DEF handlerVars, counters, hostVars, devVars, netState
<1>1. CASE cc3000_start
  <2>1. /\ devOut' = <<>> /\ devLink' = "down" /\ connected' = FALSE
        /\ pc' # "off"
    BY <1>1 DEF cc3000_start, WireInv, AddressInv
  <2>2. ~ ConnectedAfter(<<>>, FALSE)
    BY EmptyLink
  <2>3. QED
    BY <2>1, <2>2 DEF AddressInv, ConnectedInv
<1>2. CASE cc3000_stop
  BY <1>2 DEF cc3000_stop, AddressInv, ConnectedInv
<1>3. CASE \E r \in Requests : RequestBegin(r)
  BY <1>3, LinkFrame DEF RequestBegin
<1>4. CASE GetBufferSize \/ GetRecvBytes \/ Collect \/ SendLoad
  BY <1>4, LinkFrame
     DEF GetBufferSize, GetRecvBytes, Collect, SendLoad, CanCollect
<1>5. CASE HostContinues
  BY <1>5, LinkFrame
     DEF HostContinues, RequestStartFrame, RequestEndFrame, RequestExpect,
         GetRecvBytesExpect, SendStore, SendStartFrame, SendEndFrame
<1>6. QED
  BY <1>1, <1>2, <1>3, <1>4, <1>5 DEF CallerBegins

\* A message that changes neither the link nor its address may be sent.
LEMMA PlainLink ==
    ASSUME HandlerTypeOK,
           NEW m \in WireMessages, m.op \notin LinkEvents,
           NEW msgs \in Seq(WireMessages)
    PROVE  /\ Append(msgs, m) \in Seq(WireMessages)
           /\ ConnectedAfter(Append(msgs, m), connected) <=>
                  ConnectedAfter(msgs, connected)
           /\ AddressComes(Append(msgs, m)) <=> AddressComes(msgs)
<1>1. connected \in BOOLEAN
  BY DEF HandlerTypeOK
<1>2. Append(msgs, m) \in Seq(WireMessages)
  BY AppendProperties
<1>3. m \in Messages /\ msgs \in Seq(Messages)
  BY WireAreMessages
<1>4. QED
  BY <1>1, <1>2, <1>3, AppendLink DEF ConnectedBy, LinkEvents

\* The device: the events it sends are the moves of its link.
LEMMA DeviceLink ==
    ASSUME DriverTypeOK, PowerInv, WireInv, AddressInv, DeviceSteps
    PROVE  /\ AddressInv'
           /\ ConnectedInv => ConnectedInv'
<1>1. /\ devOut \in Seq(WireMessages) /\ HandlerTypeOK
      /\ connected \in BOOLEAN /\ pc # "off"
      /\ UNCHANGED <<connected, dhcpComplete, pc>>
  BY DeviceSends, DeviceFrame
     DEF DriverTypeOK, HandlerTypeOK, WireInv, handlerVars, hostVars
<1>2. ASSUME UNCHANGED devLink,
             ConnectedAfter(devOut', connected) <=>
                 ConnectedAfter(devOut, connected),
             AddressComes(devOut') <=> AddressComes(devOut)
      PROVE  /\ AddressInv'
             /\ ConnectedInv => ConnectedInv'
  BY <1>1, <1>2 DEF AddressInv, ConnectedInv
<1>3. ASSUME UNCHANGED devLink, NEW m \in WireMessages, m.op \notin LinkEvents,
             devOut' = Append(devOut, m)
      PROVE  /\ AddressInv'
             /\ ConnectedInv => ConnectedInv'
  BY <1>1, <1>2, <1>3, PlainLink
<1>4. ASSUME UNCHANGED devLink, NEW r \in WireMessages, NEW d \in WireMessages,
             r.op \notin LinkEvents, d.op \notin LinkEvents,
             devOut' = Append(Append(devOut, r), d)
      PROVE  /\ AddressInv'
             /\ ConnectedInv => ConnectedInv'
  BY <1>1, <1>2, <1>4, PlainLink
<1>5. ASSUME NEW move \in LinkMoves, NEW m \in WireMessages,
             devLink = move.from, devLink' = move.to, m.op = move.op,
             devOut' = Append(devOut, m)
      PROVE  /\ AddressInv'
             /\ ConnectedInv => ConnectedInv'
  <2>1. /\ ConnectedAfter(devOut', connected) <=>
               ConnectedBy(m, ConnectedAfter(devOut, connected))
        /\ AddressComes(devOut') <=>
               AddressComes(devOut) \/ m.op = HCI_EVNT_WLAN_UNSOL_DHCP
    BY <1>1, <1>5, WireAreMessages, AppendLink
  <2>2. \/ /\ move.to = "up" /\ move.op = HCI_EVNT_WLAN_UNSOL_CONNECT
        \/ /\ move.from = "up" /\ move.to = "ip"
           /\ move.op = HCI_EVNT_WLAN_UNSOL_DHCP
        \/ /\ move.to = "down"
           /\ move.op = HCI_EVNT_WLAN_UNSOL_DISCONNECT
    BY DEF LinkMoves
  <2>3. QED
    BY <1>1, <1>5, <2>1, <2>2, LinkOpcodes
       DEF AddressInv, ConnectedInv, ConnectedBy
<1>6. QED
  BY <1>3, <1>4, <1>5, DeviceSends

\* Whoever receives applies the first message.
LEMMA ReceiveLink ==
    ASSUME DriverTypeOK, WireInv, AddressInv, Receives
    PROVE  /\ AddressInv'
           /\ ConnectedInv => ConnectedInv'
           /\ connected' <=> ConnectedBy(Head(devOut), connected)
<1> DEFINE m == Head(devOut)
<1>1. /\ devOut \in Seq(WireMessages) /\ devOut # <<>> /\ HandlerTypeOK
      /\ connected \in BOOLEAN
      /\ m \in WireMessages /\ devOut' = Tail(devOut)
      /\ cc3000_event_handler(m) /\ UNCHANGED <<pc, devLink>> /\ pc # "off"
  BY ReceiveWireInv DEF DriverTypeOK, HandlerTypeOK
<1>2. m.op \in LinkEvents => m.type = HCI_TYPE_EVENT
  BY <1>1 DEF WireMessages
<1>3. /\ connected' <=> ConnectedBy(m, connected)
      /\ connected' \in BOOLEAN
      /\ dhcpComplete' <=>
             dhcpComplete \/ m.op = HCI_EVNT_WLAN_UNSOL_DHCP
  <2> HIDE DEF m
  <2>1. QED
    BY <1>1, <1>2, HandlerLink
<1>4. /\ ConnectedAfter(devOut, connected) <=>
             ConnectedAfter(devOut', connected')
      /\ AddressComes(devOut) <=>
             AddressComes(devOut') \/ m.op = HCI_EVNT_WLAN_UNSOL_DHCP
  BY <1>1, <1>3, WireAreMessages, TailLink
<1>5. QED
  BY <1>1, <1>3, <1>4 DEF AddressInv, ConnectedInv

-----------------------------------------------------------------------------
(* What follows from the invariants.                                       *)

\* They are the properties, in the words of the lemmas above.
LEMMA LinkProperties ==
    ASSUME PowerInv, AddressInv
    PROVE  /\ AddressNoticed
           /\ ConnectedInv => ConnectedFollowsLink
<1>1. AddressNoticed
  BY DEF PowerInv, AddressInv, AddressNoticed, AddressComes
<1>2. ASSUME ConnectedInv PROVE ConnectedFollowsLink
  <2> SUFFICES ASSUME devOn
               PROVE  ConnectedAfter(devOut, connected) = (devLink # "down")
    BY DEF ConnectedFollowsLink, ConnectedAfter, KeptFrom
  <2>1. ConnectedAfter(devOut, connected) <=> devLink # "down"
    BY <1>2 DEF ConnectedInv, PowerInv
  <2>2. ConnectedAfter(devOut, connected) \in BOOLEAN
    BY DEF ConnectedAfter
  <2>3. QED
    BY <2>1, <2>2
<1>3. QED
  BY <1>1, <1>2
=============================================================================
