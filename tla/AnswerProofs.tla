---------------------------- MODULE AnswerProofs ----------------------------
(***************************************************************************)
(* Lemmas about Driver for all values of its constants, whoever receives   *)
(* the messages: its steps and the handling of a message keep AnswerInv,   *)
(* which says where the answer of the request under way is, and they are   *)
(* steps of AsyncRequest.                                                  *)
(***************************************************************************)
EXTENDS DriverProofs

-----------------------------------------------------------------------------
(* Opcodes and requests.                                                   *)

\* The opcodes of the answers the handler stores.
LEMMA StoredRange ==
    /\ \A op \in NormalEvents :
          op \in Nat /\ 1 <= op /\ op <= 16395 /\ op # HCI_DATA_RECV
    /\ HCI_CMND_RECV \in NormalEvents
    /\ HCI_CMND_SIMPLE_LINK_START \in NormalEvents
BY SMTT(60) DEF NormalEvents, HCI_CMND_READ_BUFFER_SIZE,
     HCI_CMND_WLAN_CONFIGURE_PATCH, HCI_NETAPP_DHCP, HCI_NETAPP_PING_SEND,
     HCI_NETAPP_PING_STOP, HCI_NETAPP_ARP_FLUSH, HCI_NETAPP_SET_DEBUG_LEVEL,
     HCI_NETAPP_SET_TIMERS, HCI_CMND_NVMEM_READ, HCI_CMND_NVMEM_CREATE_ENTRY,
     HCI_CMND_NVMEM_WRITE_PATCH, HCI_NETAPP_PING_REPORT,
     HCI_CMND_MDNS_ADVERTISE, HCI_CMND_SETSOCKOPT, HCI_CMND_WLAN_CONNECT,
     HCI_CMND_WLAN_IOCTL_STATUSGET, HCI_CMND_WLAN_IOCTL_ADD_PROFILE,
     HCI_CMND_WLAN_IOCTL_DEL_PROFILE,
     HCI_CMND_WLAN_IOCTL_SET_CONNECTION_POLICY,
     HCI_CMND_WLAN_IOCTL_SET_SCANPARAM,
     HCI_CMND_WLAN_IOCTL_SIMPLE_CONFIG_START,
     HCI_CMND_WLAN_IOCTL_SIMPLE_CONFIG_STOP,
     HCI_CMND_WLAN_IOCTL_SIMPLE_CONFIG_SET_PREFIX, HCI_CMND_EVENT_MASK,
     HCI_CMND_WLAN_DISCONNECT, HCI_CMND_SOCKET, HCI_CMND_BIND,
     HCI_CMND_LISTEN, HCI_CMND_CLOSE_SOCKET, HCI_CMND_CONNECT,
     HCI_EVNT_NVMEM_WRITE, HCI_CMND_READ_SP_VERSION, HCI_CMND_GETHOSTNAME,
     HCI_CMND_ACCEPT, HCI_CMND_RECV, HCI_CMND_RECVFROM, HCI_EVNT_SENDTO,
     HCI_CMND_BSD_SELECT, HCI_CMND_GETSOCKOPT,
     HCI_CMND_WLAN_IOCTL_GET_SCAN_RESULTS, HCI_CMND_SIMPLE_LINK_START,
     HCI_NETAPP_IPCONFIG, HCI_CMND_SOCKET_BASE, HCI_CMND_NETAPP_BASE,
     HCI_DATA_RECV, HCI_DATA_BASE

\* They are not WLAN events, and unsolicited messages have other ones.
LEMMA StoredOpcodes ==
    /\ \A op \in NormalEvents : ~ IsWlanEvent(op)
    /\ 0 \notin NormalEvents /\ HCI_DATA_RECV \notin NormalEvents
    /\ HCI_EVNT_DATA_UNSOL_FREE_BUFF \notin NormalEvents
    /\ \A move \in LinkMoves : move.op \notin NormalEvents
<1>1. ASSUME NEW op \in NormalEvents
      PROVE  ~ IsWlanEvent(op)
  <2>1. op \in Nat /\ op <= 16395
    BY StoredRange
  <2>2. op \div HCI_EVNT_WLAN_UNSOL_BASE = 0
    BY <2>1, SMT DEF HCI_EVNT_WLAN_UNSOL_BASE
  <2>3. 0 % 2 = 0
    OBVIOUS
  <2>4. QED
    BY <2>2, <2>3 DEF IsWlanEvent, HasBit
<1>2. 0 \notin NormalEvents /\ HCI_DATA_RECV \notin NormalEvents
  <2>1. ~ (1 <= 0)
    OBVIOUS
  <2>2. QED
    BY <2>1, StoredRange
<1>3. HCI_EVNT_DATA_UNSOL_FREE_BUFF \notin NormalEvents
  <2>1. ~ (HCI_EVNT_DATA_UNSOL_FREE_BUFF <= 16395)
    BY DEF HCI_EVNT_DATA_UNSOL_FREE_BUFF, HCI_EVNT_UNSOL_BASE
  <2>2. QED
    BY <2>1, StoredRange
<1>4. \A move \in LinkMoves : move.op \notin NormalEvents
  <2>1. \A move \in LinkMoves : ~ (move.op <= 16395)
    BY DEF LinkMoves, HCI_EVNT_WLAN_UNSOL_CONNECT, HCI_EVNT_WLAN_UNSOL_DHCP,
           HCI_EVNT_WLAN_UNSOL_DISCONNECT, HCI_EVNT_WLAN_UNSOL_BASE
  <2>2. QED
    BY <2>1, StoredRange
<1>5. QED
  BY <1>1, <1>2, <1>3, <1>4

\* The requests that the caller does not choose, and the values of opcodes
\* that are told apart.
LEMMA SpecialRequests ==
    /\ cc3000_start_command.cmd = HCI_CMND_SIMPLE_LINK_START
    /\ cc3000_start_command.evt = HCI_CMND_SIMPLE_LINK_START
    /\ RecvData.cmd = 0 /\ RecvData.evt = HCI_DATA_RECV
    /\ NoRequest.cmd = 0 /\ NoRequest.evt = 0
    /\ HCI_DATA_RECV # 0 /\ HCI_CMND_RECV # 0
    /\ HCI_CMND_SIMPLE_LINK_START # 0
    /\ HCI_CMND_RECV # HCI_DATA_RECV
    /\ HCI_CMND_SIMPLE_LINK_START # HCI_CMND_RECV
    /\ HCI_TYPE_EVENT # HCI_TYPE_DATA
    /\ NoId \notin Counter
BY DEF cc3000_start_command, RecvData, NoRequest, cc3000_hci_command,
       HCI_CMND_SIMPLE_LINK_START, HCI_DATA_RECV, HCI_DATA_BASE,
       HCI_CMND_RECV, HCI_CMND_SOCKET_BASE, HCI_TYPE_EVENT, HCI_TYPE_DATA,
       NoId, Counter

\* What is under way: its kinds, and the opcode each expects.
LEMMA CurFacts ==
    ASSUME cur \in AllRequests
    PROVE  /\ cur \in Requests => cur.evt = cur.cmd /\ cur.cmd \in NormalEvents
           /\ cur.cmd = HCI_CMND_RECV => cur \in Requests /\ cur.evt = cur.cmd
           /\ cur = RecvData => cur.cmd = 0 /\ cur.evt = HCI_DATA_RECV
           /\ cur \notin Requests \cup {cc3000_start_command} =>
                  cur \in {NoRequest, RecvData}
           /\ cur \in Requests \cup {cc3000_start_command} =>
                  /\ cur.evt = cur.cmd /\ cur.cmd \in NormalEvents
                  /\ cur # RecvData /\ cur # NoRequest
           /\ cur # NoRequest =>
                  cur.evt \in NormalEvents \cup {HCI_DATA_RECV} /\ cur.evt # 0
<1> USE SpecialRequests, StoredOpcodes, StoredRange, RequestFacts, RequestsAssumption
    DEF AllRequests
<1>1. CASE cur \in Requests
  BY <1>1
<1>2. CASE cur = cc3000_start_command
  BY <1>2
<1>3. CASE cur = RecvData
  BY <1>3
<1>4. CASE cur = NoRequest
  BY <1>4
<1>5. QED
  BY <1>1, <1>2, <1>3, <1>4

\* What the handler does with a message that is an event or data: it counts it
\* if and only if its opcode is expected, notes which command it answers, and
\* stores it if it is listed and not marked as unsolicited.
LEMMA HandlerEffect ==
    ASSUME NEW m \in Messages, cc3000_event_handler(m),
           m.type \in {HCI_TYPE_EVENT, HCI_TYPE_DATA}
    PROVE  /\ lastHandled' = IF m.id = NoId THEN lastHandled ELSE Answer(m)
           /\ desired' = desired
           /\ m.op = expect => current' = Inc(current) /\ expect' = 0
           /\ m.op # expect => UNCHANGED <<current, expect>>
           /\ m.type = HCI_TYPE_EVENT =>
                 IF m.op \in NormalEvents /\ ~ IsUnsolicited(m.op)
                 THEN retbuf' = [of |-> Answer(m), byte |-> m.byte]
                 ELSE retbuf' = retbuf
           /\ m.type = HCI_TYPE_DATA /\ m.op = HCI_DATA_RECV =>
                 retbuf' = [of |-> Answer(m), byte |-> m.byte]
<1> USE DEF cc3000_event_handler, NoteExpected
<1>1. CASE EventMessage(m)
  <2>1. m.type = HCI_TYPE_EVENT /\ NoteExpected(m)
    BY <1>1 DEF EventMessage
  <2>2. CASE UnsolicitedEvent(m)
    BY <2>1, <2>2, SpecialRequests DEF UnsolicitedEvent
  <2>3. CASE WlanEvent(m)
    BY <2>1, <2>3, SpecialRequests, StoredOpcodes DEF WlanEvent
  <2>4. CASE NormalEvent(m)
    BY <2>1, <2>4, SpecialRequests DEF NormalEvent, cc3000_set_return
  <2>5. QED
    BY <1>1, <2>2, <2>3, <2>4 DEF EventMessage
<1>2. CASE DataMessage(m)
  BY <1>2, SpecialRequests DEF DataMessage, cc3000_set_return
<1>3. QED
  BY <1>1, <1>2 DEF OtherMessage

-----------------------------------------------------------------------------
(* AnswerInv is inductive.                                                 *)

\* Initially nothing has been sent, received or handled.
LEMMA InitAnswerInv == DriverInit => AnswerInv
<1> SUFFICES ASSUME DriverInit PROVE AnswerInv
  OBVIOUS
<1>1. /\ pc = "off" /\ cur = NoRequest /\ devCmds = <<>> /\ devOut = <<>>
      /\ lastHandled = NoAnswer
  BY DEF DriverInit, HandlerInit
<1>2. Len(devOut) = 0
  BY <1>1
<1>3. 1..Len(devOut) = {}
  BY <1>2
<1>4. CallerInv /\ CommandInv /\ ReadyInv /\ StoredInv
  BY <1>1 DEF CallerInv, CommandInv, ReadyInv, StoredInv
<1>5. UnsolicitedInv /\ SolicitedInv /\ OrderInv
  BY <1>3 DEF UnsolicitedInv, SolicitedInv, OrderInv
<1>6. QED
  BY <1>4, <1>5 DEF AnswerInv

\* What the parts of the invariant that speak of answers depend on.
answerVars == <<desired, retbuf, lastHandled, cur, devCmds, devOut>>

\* A step that changes nothing of this, keeps what is ready and expected, and
\* enters no part of an API function it was not in, keeps the invariant.
LEMMA AnswerFrame ==
    ASSUME AnswerInv, UNCHANGED answerVars, UNCHANGED <<current, expect>>,
           pc' \in {"begun", "clocking"} => pc \in {"begun", "clocking"},
           pc' = "rxarm" => pc = "rxarm",
           pc = "off" <=> pc' = "off"
    PROVE  AnswerInv'
<1> USE DEF AnswerInv, answerVars
<1>1. CallerInv'
  BY DEF CallerInv
<1>2. CommandInv'
  BY DEF CommandInv, Solicited
<1>3. UnsolicitedInv'
  BY DEF UnsolicitedInv, Solicited
<1>4. SolicitedInv'
  BY DEF SolicitedInv, Solicited, IsReply, IsRecvData, Announced, Awaited
<1>5. OrderInv'
  BY DEF OrderInv, Solicited, IsReply, IsRecvData, Awaited
<1>6. ReadyInv'
  BY DEF ReadyInv, cc3000_is_ready, Answered, Awaited
<1>7. StoredInv'
  BY DEF StoredInv
<1>8. QED
  BY <1>1, <1>2, <1>3, <1>4, <1>5, <1>6, <1>7

\* Where there is no solicited message, most of the invariant says nothing.
NoneSolicited == \A i \in 1..Len(devOut) : ~ Solicited(devOut[i])

\* While no request that has been sent waits for its answer, nothing of the
\* kind is under way.
LEMMA NothingUnderWay ==
    ASSUME DriverTypeOK, AnswerInv,
           cur = NoRequest \/ pc \in {"off", "begun", "clocking"}
    PROVE  devCmds = <<>> /\ NoneSolicited
<1>1. cur \in AllRequests
  BY DEF DriverTypeOK
<1>2. CASE cur = NoRequest
  <2>1. /\ cur \notin Requests \cup {cc3000_start_command}
        /\ cur # RecvData /\ cur.cmd # HCI_CMND_RECV
    BY <1>1, <1>2, CurFacts, SpecialRequests
  <2>2. QED
    BY <2>1 DEF AnswerInv, CommandInv, SolicitedInv, NoneSolicited, IsReply,
                IsRecvData
<1>3. CASE pc \in {"begun", "clocking"}
  BY <1>3 DEF AnswerInv, CommandInv, SolicitedInv, NoneSolicited
<1>4. CASE pc = "off"
  BY <1>2, <1>4 DEF AnswerInv, CallerInv
<1>5. QED
  BY <1>2, <1>3, <1>4

\* A caller that can collect has had the answer, and the only thing that may
\* still come is the data of a recv, which the answer announced.
LEMMA ReadyFacts ==
    ASSUME DriverTypeOK, AnswerInv, CanCollect
    PROVE  /\ Answered /\ devCmds = <<>>
           /\ cur.cmd # HCI_CMND_RECV => NoneSolicited
           /\ \A i \in 1..Len(devOut) : Solicited(devOut[i]) =>
                 /\ IsRecvData(devOut[i])
                 /\ lastHandled = [id |-> desired, op |-> HCI_CMND_RECV]
                 /\ retbuf.byte # 0
<1>1. cur \in AllRequests /\ cur # NoRequest /\ pc = "idle"
  BY DEF DriverTypeOK, CanCollect
<1>2. Answered
  BY <1>1 DEF AnswerInv, ReadyInv, CanCollect
<1>3. lastHandled # NoAnswer
  <2>1. lastHandled.op # 0
    BY <1>1, <1>2, CurFacts, SpecialRequests DEF Answered, Awaited
  <2>2. QED
    BY <2>1 DEF NoAnswer
<1>4. devCmds = <<>>
  BY <1>3 DEF AnswerInv, CommandInv
<1>5. ASSUME NEW i \in 1..Len(devOut), Solicited(devOut[i])
      PROVE  IsRecvData(devOut[i]) /\ Announced(i)
  BY <1>3, <1>5 DEF AnswerInv, SolicitedInv
<1>6. ASSUME NEW i \in 1..Len(devOut), Solicited(devOut[i])
      PROVE  /\ lastHandled = [id |-> Awaited.id, op |-> HCI_CMND_RECV]
             /\ cur # RecvData => retbuf.byte # 0
  <2>1. ASSUME NEW j \in 1..(i - 1), Solicited(devOut[j])
        PROVE  FALSE
    <3>1. j \in 1..Len(devOut)
      <4>1. Len(devOut) \in Nat
        BY LenProperties DEF DriverTypeOK
      <4>2. QED
        BY <4>1
    <3>2. IsReply(devOut[j]) /\ IsRecvData(devOut[i])
      BY <1>6, <2>1 DEF AnswerInv, OrderInv
    <3>3. IsRecvData(devOut[j])
      BY <1>5, <2>1, <3>1
    <3>4. QED
      BY <3>2, <3>3, SpecialRequests DEF IsReply, IsRecvData
  <2>2. QED
    BY <1>5, <1>6, <2>1 DEF Announced
<1>7. ASSUME NEW i \in 1..Len(devOut), Solicited(devOut[i])
      PROVE  cur # RecvData
  <2>1. CASE cur = RecvData
    <3>1. lastHandled.op = HCI_DATA_RECV
      BY <1>1, <1>2, <2>1, CurFacts, SpecialRequests DEF Answered, Awaited
    <3>2. QED
      BY <1>6, <1>7, <3>1, SpecialRequests
  <2>2. QED
    BY <2>1
<1>8. ASSUME NEW i \in 1..Len(devOut), Solicited(devOut[i])
      PROVE  Awaited.id = desired /\ cur.cmd = HCI_CMND_RECV
  BY <1>5, <1>7, <1>8 DEF Awaited, IsRecvData
<1>9. QED
  BY <1>2, <1>4, <1>5, <1>6, <1>7, <1>8 DEF NoneSolicited

\* The steps of the calling thread keep the invariant.
LEMMA HostAnswerInv ==
    ASSUME DriverTypeOK, CounterInv, AnswerInv, CallerBegins \/ HostContinues
    PROVE  AnswerInv'
<1> USE DEF handlerVars, counters, hostVars, devVars
<1>0. /\ cur \in AllRequests /\ desired \in Counter /\ current \in Counter
      /\ NoAnswer.op = 0
  BY DEF DriverTypeOK, HandlerTypeOK, NoAnswer
<1>1. ASSUME NEW r \in Requests, RequestBegin(r) PROVE AnswerInv'
  <2>1. devCmds = <<>> /\ NoneSolicited
    BY <1>1, NothingUnderWay DEF RequestBegin
  <2>2. /\ UNCHANGED <<devCmds, devOut, current, expect, retbuf>>
        /\ lastHandled' = NoAnswer /\ cur' = r /\ pc' = "begun"
        /\ desired' = Inc(desired)
    BY <1>1 DEF RequestBegin, IncrementDesired
  <2>3. NoneSolicited'
    BY <2>1, <2>2 DEF NoneSolicited, Solicited
  <2>4. SolicitedInv' /\ OrderInv'
    BY <2>3 DEF NoneSolicited, SolicitedInv, OrderInv
  <2>5. CallerInv' /\ CommandInv' /\ StoredInv'
    BY <2>1, <2>2 DEF CallerInv, CommandInv, StoredInv
  <2>6. UnsolicitedInv'
    BY <2>2 DEF AnswerInv, UnsolicitedInv, Solicited
  <2>7. expect = 0 /\ Gap = 0
    BY <1>1, <1>0, GapFacts
       DEF RequestBegin, CounterInv, NeverOvertaken
  <2>8. ~ cc3000_is_ready'
    <3>1. Gap < CounterMod - 1
      BY <2>7, CounterModAssumption
    <3>2. desired' # current'
      BY <1>0, <2>2, <3>1, GapIncrement
    <3>3. QED
      BY <3>2 DEF cc3000_is_ready
  <2>9. ReadyInv'
    BY <2>2, <2>7, <2>8 DEF ReadyInv
  <2>10. QED
    BY <2>4, <2>5, <2>6, <2>9 DEF AnswerInv
<1>2. CASE RequestStartFrame
  BY <1>2, AnswerFrame DEF RequestStartFrame, answerVars
<1>3. CASE RequestEndFrame
  <2>1. devCmds = <<>> /\ NoneSolicited /\ lastHandled = NoAnswer
    BY <1>3, NothingUnderWay DEF RequestEndFrame, AnswerInv, CallerInv
  <2>2. /\ UNCHANGED <<handlerVars, cur, devOut>> /\ pc' = "sent"
        /\ devCmds' = <<[cmd |-> cur.cmd, id |-> desired]>>
        /\ cur \in Requests
    BY <1>3, <2>1 DEF RequestEndFrame, DriverTypeOK
  <2>3. NoneSolicited'
    BY <2>1, <2>2 DEF NoneSolicited, Solicited
  <2>4. SolicitedInv' /\ OrderInv'
    BY <2>3 DEF NoneSolicited, SolicitedInv, OrderInv
  <2>5. CommandInv'
    BY <2>1, <2>2, <2>3 DEF CommandInv, NoneSolicited
  <2>6. CallerInv' /\ StoredInv' /\ UnsolicitedInv'
    BY <2>2 DEF AnswerInv, CallerInv, StoredInv, UnsolicitedInv, Solicited
  <2>7. ReadyInv'
    BY <1>3, <2>2 DEF RequestEndFrame, AnswerInv, ReadyInv, cc3000_is_ready,
                      Answered, Awaited
  <2>8. QED
    BY <2>4, <2>5, <2>6, <2>7 DEF AnswerInv
<1>4. ASSUME pc \in {"sent", "rxarm"}, pc' = "idle", expect' = cur.evt,
             UNCHANGED <<desired, current, retbuf, lastHandled, cur, devCmds,
                         devOut>>
      PROVE  AnswerInv'
  <2>1. ~ cc3000_is_ready'
    <3>1. Gap = 1
      BY <1>4 DEF CounterInv, NeverOvertaken
    <3>2. desired # current
      BY <1>0, <3>1, GapFacts DEF cc3000_is_ready
    <3>3. QED
      BY <1>4, <3>2 DEF cc3000_is_ready
  <2>2. cur # NoRequest
    BY <1>4, RequestFacts, SpecialRequests
       DEF DriverTypeOK, AnswerInv, CallerInv
  <2>3. ReadyInv'
    BY <1>4, <2>1, <2>2 DEF ReadyInv
  <2>4. CallerInv' /\ StoredInv'
    BY <1>4 DEF AnswerInv, CallerInv, StoredInv
  <2>5. CommandInv' /\ UnsolicitedInv'
    BY <1>4 DEF AnswerInv, CommandInv, UnsolicitedInv, Solicited
  <2>6. SolicitedInv'
    BY <1>4 DEF AnswerInv, SolicitedInv, Solicited, IsReply, IsRecvData,
                Announced, Awaited
  <2>7. OrderInv'
    BY <1>4 DEF AnswerInv, OrderInv, Solicited, IsReply, IsRecvData, Awaited
  <2>8. QED
    BY <2>3, <2>4, <2>5, <2>6, <2>7 DEF AnswerInv
<1>5. CASE RequestExpect
  BY <1>4, <1>5 DEF RequestExpect, cc3000_hci_expect
<1>6. CASE GetRecvBytesExpect
  <2>1. cur.evt = HCI_DATA_RECV
    BY <1>6, SpecialRequests DEF GetRecvBytesExpect, AnswerInv, CallerInv
  <2>2. QED
    BY <1>4, <1>6, <2>1 DEF GetRecvBytesExpect, cc3000_hci_expect
<1>7. CASE SendLoad \/ SendStore \/ SendStartFrame \/ SendEndFrame
  BY <1>7, AnswerFrame
     DEF SendLoad, SendStore, SendStartFrame, SendEndFrame, answerVars
<1>8. ASSUME CanCollect, NoneSolicited, cur' = NoRequest,
             UNCHANGED <<desired, current, expect, retbuf, lastHandled, pc,
                         devCmds, devOut>>
      PROVE  AnswerInv'
  <2>1. devCmds = <<>>
    BY <1>8, ReadyFacts
  <2>2. NoneSolicited'
    BY <1>8 DEF NoneSolicited, Solicited
  <2>3. SolicitedInv' /\ OrderInv'
    BY <2>2 DEF NoneSolicited, SolicitedInv, OrderInv
  <2>4. CallerInv' /\ CommandInv' /\ StoredInv' /\ UnsolicitedInv'
    BY <1>8, <2>1 DEF AnswerInv, CanCollect, CallerInv, CommandInv, StoredInv,
                      UnsolicitedInv, Solicited
  <2>5. expect' = 0
    BY <1>8 DEF CounterInv, NeverOvertaken, CanCollect
  <2>6. ReadyInv'
    BY <1>8, <2>5 DEF ReadyInv
  <2>7. QED
    BY <2>3, <2>4, <2>6 DEF AnswerInv
<1>9. CASE GetBufferSize \/ Collect
  <2>1. CanCollect /\ cur.cmd # HCI_CMND_RECV
    BY <1>9, StoredRange
       DEF GetBufferSize, Collect, HCI_CMND_READ_BUFFER_SIZE, HCI_CMND_RECV,
           HCI_CMND_SOCKET_BASE
  <2>2. NoneSolicited
    BY <2>1, ReadyFacts
  <2>3. QED
    BY <1>8, <1>9, <2>1, <2>2 DEF GetBufferSize, Collect
<1>10. CASE GetRecvBytes
  <2>1. CanCollect /\ cur.cmd = HCI_CMND_RECV /\ devCmds = <<>>
    BY <1>10, ReadyFacts DEF GetRecvBytes
  <2>2. CASE ~ (retbuf.byte > 0)
    <3>1. retbuf.byte = 0
      <4>1. retbuf.byte \in UInt8
        BY DEF DriverTypeOK, HandlerTypeOK, Payload
      <4>2. QED
        BY <2>2, <4>1 DEF UInt8
    <3>2. NoneSolicited
      BY <2>1, <3>1, ReadyFacts DEF NoneSolicited
    <3>3. QED
      BY <1>8, <1>10, <2>1, <2>2, <3>2 DEF GetRecvBytes
  <2>3. CASE retbuf.byte > 0
    <3>1. /\ desired' = Inc(desired) /\ cur' = RecvData /\ pc' = "rxarm"
          /\ UNCHANGED <<current, expect, retbuf, lastHandled, devCmds, devOut>>
      BY <1>10, <2>3 DEF GetRecvBytes, IncrementDesired
    <3>2. Awaited'.id = desired
      BY <1>0, <3>1, IncDec DEF Awaited
    <3>3. SolicitedInv'
      <4>1. ASSUME NEW i \in 1..Len(devOut), Solicited(devOut[i])
            PROVE  /\ IsRecvData(devOut[i]) /\ Awaited.id = desired
                   /\ lastHandled = [id |-> desired, op |-> HCI_CMND_RECV]
        BY <2>1, <4>1, ReadyFacts, SpecialRequests DEF Awaited
      <4>2. QED
        BY <3>1, <3>2, <4>1
           DEF SolicitedInv, Solicited, IsRecvData, Announced
    <3>4. OrderInv'
      <4>1. ASSUME NEW i \in 1..Len(devOut), NEW j \in 1..(i - 1),
                   Solicited(devOut[i]), Solicited(devOut[j])
            PROVE  FALSE
        <5>1. j \in 1..Len(devOut)
          <6>1. Len(devOut) \in Nat
            BY LenProperties DEF DriverTypeOK
          <6>2. QED
            BY <6>1
        <5>2. IsReply(devOut[j]) /\ IsRecvData(devOut[j])
          BY <2>1, <4>1, <5>1, ReadyFacts DEF AnswerInv, OrderInv
        <5>3. QED
          BY <5>2, SpecialRequests DEF IsReply, IsRecvData
      <4>2. QED
        BY <3>1, <4>1 DEF OrderInv, Solicited
    <3>5. CallerInv' /\ CommandInv' /\ StoredInv' /\ UnsolicitedInv'
      BY <2>1, <3>1 DEF AnswerInv, CallerInv, CommandInv, StoredInv,
                        UnsolicitedInv, Solicited
    <3>6. ReadyInv'
      <4>1. expect = 0 /\ Gap = 0
        BY <1>0, <2>1, GapFacts DEF CanCollect, CounterInv, NeverOvertaken
      <4>2. Gap < CounterMod - 1
        BY <4>1, CounterModAssumption
      <4>3. desired' # current'
        BY <1>0, <3>1, <4>2, GapIncrement
      <4>4. QED
        BY <3>1, <4>1, <4>3 DEF ReadyInv, cc3000_is_ready
    <3>7. QED
      BY <3>3, <3>4, <3>5, <3>6 DEF AnswerInv
  <2>4. QED
    BY <2>2, <2>3
<1>11. CASE cc3000_start
  <2>1. devOut = <<>>
    BY <1>11 DEF cc3000_start, AnswerInv, CallerInv
  <2>2. /\ devOut' = <<>> /\ desired' = Inc(desired) /\ pc' = "idle"
        /\ cur' = cc3000_start_command /\ lastHandled' = NoAnswer
        /\ devCmds' = <<[cmd |-> cc3000_start_command.cmd,
                         id |-> Inc(desired)]>>
        /\ expect' = cc3000_start_command.evt /\ current' = current
    BY <1>11, <2>1 DEF cc3000_start, IncrementDesired, cc3000_hci_expect
  <2>3. 1..Len(devOut') = {}
    BY <2>2
  <2>4. UnsolicitedInv' /\ SolicitedInv' /\ OrderInv'
    BY <2>3 DEF UnsolicitedInv, SolicitedInv, OrderInv
  <2>5. CommandInv' /\ CallerInv' /\ StoredInv'
    BY <2>2, <2>3 DEF CommandInv, CallerInv, StoredInv
  <2>6. ReadyInv'
    <3>1. Gap < CounterMod - 1
      BY <1>0, GapFacts, CounterModAssumption, CounterRoomAssumption,
         BoundsAssumption
         DEF CounterInv, DriverTypeOK
    <3>2. desired' # current'
      BY <1>0, <2>2, <3>1, GapIncrement
    <3>3. cc3000_start_command # NoRequest
      BY SpecialRequests
    <3>4. QED
      BY <2>2, <3>2, <3>3 DEF ReadyInv, cc3000_is_ready
  <2>7. QED
    BY <2>4, <2>5, <2>6 DEF AnswerInv
<1>12. CASE cc3000_stop
  <2>1. /\ devOut' = <<>> /\ devCmds' = <<>> /\ cur' = NoRequest
        /\ pc' = "off" /\ UNCHANGED <<lastHandled, retbuf>>
    BY <1>12 DEF cc3000_stop
  <2>2. 1..Len(devOut') = {}
    BY <2>1
  <2>3. UnsolicitedInv' /\ SolicitedInv' /\ OrderInv'
    BY <2>2 DEF UnsolicitedInv, SolicitedInv, OrderInv
  <2>4. CommandInv' /\ CallerInv' /\ ReadyInv' /\ StoredInv'
    BY <2>1 DEF AnswerInv, CommandInv, CallerInv, ReadyInv, StoredInv
  <2>5. QED
    BY <2>3, <2>4 DEF AnswerInv
<1>13. QED
  BY <1>1, <1>2, <1>3, <1>5, <1>6, <1>7, <1>9, <1>10, <1>11, <1>12
     DEF CallerBegins, HostContinues

\* A message that answers nothing, behind the others, keeps the invariant.
LEMMA UnsolicitedAnswerInv ==
    ASSUME DriverTypeOK, AnswerInv, pc # "off",
           NEW op, NEW byte, op \notin NormalEvents \cup {HCI_DATA_RECV},
           devOut' = Append(devOut, Unsolicited(op, byte)),
           UNCHANGED <<handlerVars, hostVars, devCmds>>
    PROVE  AnswerInv'
<1> DEFINE m == Unsolicited(op, byte)
<1> USE DEF handlerVars, hostVars
<1>1. devOut \in Seq(Messages) /\ Len(devOut) \in Nat
  BY LenProperties DEF DriverTypeOK
<1>2. m.id = NoId /\ m.type = HCI_TYPE_EVENT /\ m.op = op
  BY DEF Unsolicited, Message
<1>3. ASSUME NEW i \in 1..Len(devOut')
      PROVE  \/ i \in 1..Len(devOut) /\ devOut'[i] = devOut[i]
             \/ i = Len(devOut) + 1 /\ devOut'[i] = m
  BY <1>1
<1>4. ASSUME NEW i \in 1..Len(devOut'), Solicited(devOut'[i])
      PROVE  /\ i \in 1..Len(devOut) /\ devOut'[i] = devOut[i]
             /\ \A j \in 1..(i - 1) :
                   j \in 1..Len(devOut) /\ devOut'[j] = devOut[j]
  <2>1. i \in 1..Len(devOut) /\ devOut'[i] = devOut[i]
    BY <1>2, <1>3, <1>4 DEF Solicited
  <2>2. \A j \in 1..(i - 1) :
           /\ j \in 1..Len(devOut) /\ j \in 1..Len(devOut')
           /\ j # Len(devOut) + 1
    BY <1>1, <2>1
  <2>3. QED
    BY <1>3, <2>1, <2>2
<1>5. UNCHANGED <<Awaited, Answered>>
  BY DEF Awaited, Answered
<1>6. CallerInv' /\ ReadyInv' /\ StoredInv'
  BY <1>5 DEF AnswerInv, CallerInv, ReadyInv, StoredInv, cc3000_is_ready
<1>7. CommandInv'
  <2>1. NoneSolicited => NoneSolicited'
    BY <1>4 DEF NoneSolicited, Solicited
  <2>2. QED
    BY <2>1 DEF AnswerInv, CommandInv, NoneSolicited
<1>8. UnsolicitedInv'
  BY <1>2, <1>3 DEF AnswerInv, UnsolicitedInv, Solicited
<1>9. SolicitedInv'
  <2>1. ASSUME NEW i \in 1..Len(devOut'), Solicited(devOut'[i])
        PROVE  /\ pc \notin {"begun", "clocking"}
               /\ \/ IsReply(devOut[i]) /\ lastHandled = NoAnswer
                  \/ IsRecvData(devOut[i]) /\ Announced(i)
    BY <1>4, <2>1 DEF AnswerInv, SolicitedInv
  <2>2. ASSUME NEW i \in 1..Len(devOut'), Solicited(devOut'[i]), Announced(i)
        PROVE  Announced(i)'
    BY <1>4, <1>5, <2>2 DEF Announced, Solicited
  <2>3. QED
    BY <1>4, <1>5, <2>1, <2>2 DEF SolicitedInv, IsReply, IsRecvData, Solicited
<1>10. OrderInv'
  BY <1>4, <1>5 DEF AnswerInv, OrderInv, IsReply, IsRecvData, Solicited
<1>11. QED
  BY <1>6, <1>7, <1>8, <1>9, <1>10 DEF AnswerInv

\* So does the answer to a command: the device has the command of the request
\* under way, and no answer to it is under way.
LEMMA ReplyAnswerInv ==
    ASSUME DriverTypeOK, AnswerInv, DeviceReply
    PROVE  AnswerInv'
<1> DEFINE c == [cmd |-> cur.cmd, id |-> desired]
           n == Len(devOut)
<1> USE DEF handlerVars, hostVars
<1>1. /\ devOut \in Seq(Messages) /\ n \in Nat /\ cur \in AllRequests
      /\ desired \in Counter
  BY LenProperties DEF DriverTypeOK, HandlerTypeOK
<1>2. /\ devCmds = <<c>> /\ cur \in Requests \cup {cc3000_start_command}
      /\ pc \notin {"begun", "clocking"} /\ lastHandled = NoAnswer
      /\ NoneSolicited
  BY DEF DeviceReply, AnswerInv, CommandInv, NoneSolicited
<1>3. Head(devCmds) = c /\ devCmds' = <<>>
  BY <1>2 DEF DeviceReply
<1>4. UNCHANGED <<desired, current, expect, retbuf, lastHandled, cur, pc>>
  BY DEF DeviceReply
<1>5. UNCHANGED <<Awaited, Answered>>
  BY <1>4 DEF Awaited, Answered
<1>6. /\ cur # RecvData /\ cur.evt = cur.cmd /\ cur.cmd \in NormalEvents
      /\ Awaited.id = desired /\ desired # NoId
  BY <1>1, <1>2, CurFacts, SpecialRequests DEF Awaited
<1>7. PICK byte, r, d :
         /\ r.type = HCI_TYPE_EVENT /\ r.op = cur.cmd /\ r.id = desired
         /\ r.byte = byte
         /\ d.type = HCI_TYPE_DATA /\ d.op = HCI_DATA_RECV /\ d.id = desired
         /\ \/ devOut' = Append(devOut, r)
            \/ /\ cur.cmd = HCI_CMND_RECV /\ byte # 0
               /\ devOut' = devOut \o <<r, d>>
  <2>1. PICK byte \in Bytes :
           \/ devOut' = Append(devOut, Reply(c, byte))
           \/ /\ cur.cmd = HCI_CMND_RECV /\ byte # 0
              /\ \E content \in Bytes :
                    devOut' = devOut \o
                        <<Reply(c, byte), RecvDataMessage(c, content)>>
    BY <1>3 DEF DeviceReply
  <2> DEFINE data(content) == RecvDataMessage(c, content)
  <2>2. /\ Reply(c, byte).type = HCI_TYPE_EVENT
        /\ Reply(c, byte).op = cur.cmd
        /\ Reply(c, byte).id = desired /\ Reply(c, byte).byte = byte
    BY DEF Reply, Message
  <2>3. \A content : /\ data(content).type = HCI_TYPE_DATA
                     /\ data(content).op = HCI_DATA_RECV
                     /\ data(content).id = desired
    BY DEF RecvDataMessage, Message
  <2> HIDE DEF data
  <2>4. CASE devOut' = Append(devOut, Reply(c, byte))
    BY <2>2, <2>3, <2>4
  <2>5. ASSUME NEW content \in Bytes, cur.cmd = HCI_CMND_RECV, byte # 0,
               devOut' = devOut \o <<Reply(c, byte), data(content)>>
        PROVE  \E y, r, d :
                  /\ r.type = HCI_TYPE_EVENT /\ r.op = cur.cmd
                  /\ r.id = desired /\ r.byte = y
                  /\ d.type = HCI_TYPE_DATA /\ d.op = HCI_DATA_RECV
                  /\ d.id = desired
                  /\ cur.cmd = HCI_CMND_RECV /\ y # 0
                  /\ devOut' = devOut \o <<r, d>>
    BY <2>2, <2>3, <2>5
  <2>6. QED
    BY <2>1, <2>4, <2>5 DEF data
<1>9. IsReply(r)' /\ Solicited(r) /\ Solicited(d)
  BY <1>2, <1>4, <1>6, <1>7 DEF IsReply, Solicited
<1>10. cur.cmd = HCI_CMND_RECV => IsRecvData(d)'
  BY <1>4, <1>5, <1>6, <1>7 DEF IsRecvData
<1>11. ASSUME NEW i \in 1..Len(devOut')
       PROVE  \/ /\ i \in 1..n /\ devOut'[i] = devOut[i]
                 /\ ~ Solicited(devOut'[i])
              \/ i = n + 1 /\ devOut'[i] = r
              \/ /\ i = n + 2 /\ devOut'[i] = d /\ devOut'[n + 1] = r
                 /\ cur.cmd = HCI_CMND_RECV /\ byte # 0
  <2>1. CASE devOut' = Append(devOut, r)
    <3>1. /\ Len(devOut') = n + 1 /\ devOut'[n + 1] = r
          /\ \A k \in 1..n : devOut'[k] = devOut[k]
      BY <1>1, <2>1
    <3>2. i \in 1..n \/ i = n + 1
      BY <1>1, <3>1
    <3>3. QED
      BY <1>2, <3>1, <3>2 DEF NoneSolicited
  <2>2. CASE /\ cur.cmd = HCI_CMND_RECV /\ byte # 0
             /\ devOut' = devOut \o <<r, d>>
    <3>1. \/ i \in 1..n /\ devOut'[i] = devOut[i]
          \/ i = n + 1 /\ devOut'[i] = r
          \/ i = n + 2 /\ devOut'[i] = d /\ devOut'[n + 1] = r
      BY <1>1, <2>2
    <3>2. QED
      BY <1>2, <2>2, <3>1 DEF NoneSolicited
  <2>3. QED
    BY <1>7, <2>1, <2>2
<1>12. CallerInv'
  BY <1>1, <1>2, <1>4 DEF AnswerInv, CallerInv
<1>13. CommandInv' /\ ReadyInv' /\ StoredInv'
  BY <1>3, <1>4, <1>5
     DEF AnswerInv, CommandInv, ReadyInv, StoredInv, cc3000_is_ready
<1>14. UnsolicitedInv'
  BY <1>9, <1>11 DEF AnswerInv, UnsolicitedInv, Solicited
<1>15. SolicitedInv'
  <2>1. ASSUME NEW i \in 1..Len(devOut'), Solicited(devOut'[i])
        PROVE  \/ IsReply(devOut[i])'
               \/ IsRecvData(devOut[i])' /\ Announced(i)'
    <3>1. CASE devOut'[i] = r
      BY <1>9, <3>1
    <3>2. CASE /\ i = n + 2 /\ devOut'[i] = d /\ devOut'[n + 1] = r
               /\ cur.cmd = HCI_CMND_RECV
      <4>1. n + 1 \in 1..(i - 1)
        BY <1>1, <3>2
      <4>2. QED
        BY <1>9, <1>10, <3>2, <4>1 DEF Announced, Solicited
    <3>3. QED
      BY <1>11, <2>1, <3>1, <3>2
  <2>2. QED
    BY <1>2, <1>4, <2>1 DEF SolicitedInv, Solicited, IsReply, IsRecvData
<1>16. OrderInv'
  <2>1. ASSUME NEW i \in 1..Len(devOut'), NEW j \in 1..(i - 1),
               Solicited(devOut'[i]), Solicited(devOut'[j])
        PROVE  /\ devOut'[j] = r /\ devOut'[i] = d
               /\ cur.cmd = HCI_CMND_RECV /\ byte # 0
    <3>1. j \in 1..Len(devOut') /\ j < i
      <4>1. Len(devOut') \in Nat
        BY <1>1, <1>7
      <4>2. QED
        BY <4>1
    <3>2. i \in {n + 1, n + 2} /\ j \in {n + 1, n + 2}
      BY <1>11, <2>1, <3>1
    <3>3. i = n + 2 /\ j = n + 1 /\ n + 1 # n + 2
      BY <1>1, <3>1, <3>2
    <3>4. ~ (n + 2 \in 1..n)
      BY <1>1
    <3>5. QED
      BY <1>11, <3>3, <3>4
  <2>2. QED
    BY <1>7, <1>9, <1>10, <2>1 DEF OrderInv, Solicited, IsReply, IsRecvData
<1>17. QED
  BY <1>12, <1>13, <1>14, <1>15, <1>16 DEF AnswerInv

\* The steps of the device keep the invariant.
LEMMA DeviceAnswerInv ==
    ASSUME DriverTypeOK, PowerInv, AnswerInv, DeviceSteps
    PROVE  AnswerInv'
<1> USE DEF hostVars
<1>1. CASE DeviceReply
  BY <1>1, ReplyAnswerInv
<1>2. ASSUME NEW n \in 1..UsedMax, DeviceFreesBuffers(n) PROVE AnswerInv'
  <2>1. HCI_EVNT_DATA_UNSOL_FREE_BUFF # HCI_DATA_RECV
    BY DEF HCI_EVNT_DATA_UNSOL_FREE_BUFF, HCI_EVNT_UNSOL_BASE, HCI_DATA_RECV,
           HCI_DATA_BASE
  <2>2. QED
    BY <1>2, <2>1, StoredOpcodes, UnsolicitedAnswerInv
       DEF DeviceFreesBuffers, CanRaise, PowerInv
<1>3. ASSUME NEW move \in LinkMoves, DeviceLinkMoves(move) PROVE AnswerInv'
  <2>1. move.op # HCI_DATA_RECV
    BY DEF LinkMoves, HCI_EVNT_WLAN_UNSOL_CONNECT, HCI_EVNT_WLAN_UNSOL_DHCP,
           HCI_EVNT_WLAN_UNSOL_DISCONNECT, HCI_EVNT_WLAN_UNSOL_BASE,
           HCI_DATA_RECV, HCI_DATA_BASE
  <2>2. QED
    BY <1>3, <2>1, StoredOpcodes, UnsolicitedAnswerInv
       DEF DeviceLinkMoves, CanRaise, PowerInv
<1>4. ASSUME NEW op \in OtherEvents, DeviceRaises(op) PROVE AnswerInv'
  <2>1. op \notin NormalEvents \cup {HCI_DATA_RECV}
    BY <1>4, OtherEventsAssumption
  <2>2. QED
    BY <1>4, <2>1, UnsolicitedAnswerInv DEF DeviceRaises, CanRaise, PowerInv
<1>5. QED
  BY <1>1, <1>2, <1>3, <1>4 DEF DeviceSteps

\* Neither the answer to HCI_CMND_RECV nor the data is marked as unsolicited.
LEMMA RecvStored ==
    ~ IsUnsolicited(HCI_CMND_RECV) /\ ~ IsUnsolicited(HCI_DATA_RECV)
<1>1. HCI_CMND_RECV \div HCI_EVNT_UNSOL_BASE = 0
  BY SMT DEF HCI_CMND_RECV, HCI_CMND_SOCKET_BASE, HCI_EVNT_UNSOL_BASE
<1>2. HCI_DATA_RECV \div HCI_EVNT_UNSOL_BASE = 0
  BY SMT DEF HCI_DATA_RECV, HCI_DATA_BASE, HCI_EVNT_UNSOL_BASE
<1>3. 0 % 2 = 0
  OBVIOUS
<1>4. QED
  BY <1>1, <1>2, <1>3 DEF IsUnsolicited, HasBit

\* What is collected is what the caller asked for.
LEMMA FreshAnswer ==
    ASSUME DriverTypeOK, AnswerInv
    PROVE  FreshReturn
<1> SUFFICES ASSUME CanCollect, ~ IsUnsolicited(cur.evt)
             PROVE  Answered /\ retbuf.of = lastHandled
  BY DEF FreshReturn
<1>1. Answered /\ cur \in AllRequests /\ cur # NoRequest
  BY ReadyFacts DEF DriverTypeOK, CanCollect
<1>2. lastHandled.op \in {cur.evt, HCI_DATA_RECV}
  BY <1>1 DEF Answered, Awaited
<1>3. lastHandled # NoAnswer
  BY <1>1, <1>2, CurFacts, SpecialRequests DEF NoAnswer
<1>4. QED
  BY <1>1, <1>2, <1>3, RecvStored DEF AnswerInv, StoredInv

\* What is known of a message that is taken from the device: it is one of
\* three, and the others move up.
LEMMA ReceiveFacts ==
    ASSUME DriverTypeOK, AnswerInv, Receives
    PROVE  LET m == Head(devOut) IN
           /\ m \in Messages /\ cc3000_event_handler(m)
           /\ m = devOut[1] /\ 1 \in 1..Len(devOut)
           /\ Len(devOut) \in Nat /\ cur \in AllRequests
           /\ \A i \in 1..Len(devOut') :
                 /\ i + 1 \in 1..Len(devOut) /\ devOut'[i] = devOut[i + 1]
                 /\ \A j \in 1..(i - 1) : j \in 1..Len(devOut')
           /\ UNCHANGED <<cur, pc, devCmds>> /\ pc # "off"
           /\ \/ /\ ~ Solicited(m) /\ m.type = HCI_TYPE_EVENT
                 /\ m.op \notin NormalEvents \cup {HCI_DATA_RECV}
              \/ /\ Solicited(m) /\ pc \notin {"begun", "clocking"}
                 /\ IsReply(m) /\ lastHandled = NoAnswer
              \/ /\ Solicited(m) /\ pc \notin {"begun", "clocking"}
                 /\ IsRecvData(m)
                 /\ lastHandled = [id |-> Awaited.id, op |-> HCI_CMND_RECV]
<1>1. /\ devOut \in Seq(Messages) /\ devOut # <<>> /\ cur \in AllRequests
      /\ Len(devOut) \in Nat
  BY LenProperties DEF DriverTypeOK, Receives, cc3000_spi_receive
<1>2. /\ Head(devOut) \in Messages /\ Head(devOut) = devOut[1]
      /\ 1 \in 1..Len(devOut)
  BY <1>1, HeadTailProperties
<1>3. devOut' = Tail(devOut) /\ cc3000_event_handler(Head(devOut))
  BY DEF Receives, cc3000_spi_receive
<1>4. ASSUME NEW i \in 1..Len(devOut')
      PROVE  /\ i + 1 \in 1..Len(devOut) /\ devOut'[i] = devOut[i + 1]
             /\ \A j \in 1..(i - 1) : j \in 1..Len(devOut')
  BY <1>1, <1>3
<1>5. UNCHANGED <<cur, pc, devCmds>> /\ pc # "off"
  BY <1>1 DEF Receives, cc3000_spi_receive, hostVars, AnswerInv, CallerInv
<1>6. Solicited(devOut[1]) =>
         /\ pc \notin {"begun", "clocking"}
         /\ \/ IsReply(devOut[1]) /\ lastHandled = NoAnswer
            \/ IsRecvData(devOut[1]) /\ Announced(1)
  BY <1>2 DEF AnswerInv, SolicitedInv
<1>7. Announced(1) => lastHandled = [id |-> Awaited.id, op |-> HCI_CMND_RECV]
  <2>1. 1..(1 - 1) = {}
    OBVIOUS
  <2>2. QED
    BY <2>1 DEF Announced
<1>8. ~ Solicited(devOut[1]) =>
         /\ devOut[1].type = HCI_TYPE_EVENT
         /\ devOut[1].op \notin NormalEvents \cup {HCI_DATA_RECV}
  BY <1>2 DEF AnswerInv, UnsolicitedInv
<1>9. QED
  BY <1>1, <1>2, <1>3, <1>4, <1>5, <1>6, <1>7, <1>8

\* A message that answers nothing is not expected and not stored.
LEMMA ReceiveUnsolicited ==
    ASSUME DriverTypeOK, CounterInv, AnswerInv, Receives, ~ Solicited(Head(devOut))
    PROVE  /\ AnswerInv'
           /\ UNCHANGED <<desired, current, lastHandled, cur, pc>>
<1> DEFINE m == Head(devOut)
<1>1. /\ m \in Messages /\ cc3000_event_handler(m) /\ m = devOut[1]
      /\ m.type = HCI_TYPE_EVENT /\ m.id = NoId /\ m.op # 0
      /\ m.op \notin NormalEvents \cup {HCI_DATA_RECV}
      /\ cur \in AllRequests /\ Len(devOut) \in Nat
      /\ UNCHANGED <<cur, pc, devCmds>> /\ pc # "off"
  <2>1. 0 \notin Opcodes
    BY DEF Opcodes
  <2>2. QED
    BY <2>1, ReceiveFacts DEF Solicited, Messages
<1>2. ASSUME NEW i \in 1..Len(devOut')
      PROVE  /\ i + 1 \in 1..Len(devOut) /\ devOut'[i] = devOut[i + 1]
             /\ \A j \in 1..(i - 1) : j \in 1..Len(devOut')
  BY ReceiveFacts
<1>3. m.op # expect
  BY <1>1, CurFacts DEF AnswerInv, ReadyInv
<1>4. UNCHANGED <<desired, current, expect, lastHandled, retbuf>>
  BY <1>1, <1>3, HandlerEffect
<1>5. UNCHANGED <<Awaited, Answered>>
  BY <1>1, <1>4 DEF Awaited, Answered
<1>6. CallerInv'
  BY <1>1, <1>4 DEF AnswerInv, CallerInv
<1>7. CommandInv'
  BY <1>1, <1>2, <1>4 DEF AnswerInv, CommandInv, Solicited
<1>8. ReadyInv' /\ StoredInv'
  BY <1>1, <1>4, <1>5 DEF AnswerInv, ReadyInv, StoredInv, cc3000_is_ready
<1>9. UnsolicitedInv'
  BY <1>2 DEF AnswerInv, UnsolicitedInv, Solicited
<1>10. SolicitedInv'
  <2>1. ASSUME NEW i \in 1..Len(devOut'), Solicited(devOut[i + 1])
        PROVE  /\ pc \notin {"begun", "clocking"}
               /\ \/ IsReply(devOut[i + 1]) /\ lastHandled = NoAnswer
                  \/ IsRecvData(devOut[i + 1]) /\ Announced(i + 1)
    BY <1>2, <2>1 DEF AnswerInv, SolicitedInv
  <2>2. ASSUME NEW i \in 1..Len(devOut'), Announced(i + 1)
        PROVE  Announced(i)'
    <3>1. CASE \E j \in 1..((i + 1) - 1) : Solicited(devOut[j])
      <4>1. PICK j \in 1..((i + 1) - 1) : Solicited(devOut[j])
        BY <3>1
      <4>2. j # 1
        BY <1>1, <4>1
      <4>3. j - 1 \in 1..(i - 1) /\ (j - 1) + 1 = j
        BY <4>2
      <4>4. Solicited(devOut'[j - 1])
        BY <1>2, <4>1, <4>3
      <4>5. QED
        BY <4>3, <4>4 DEF Announced, Solicited
    <3>2. QED
      BY <1>1, <1>4, <1>5, <2>2, <3>1 DEF Announced
  <2>3. QED
    BY <1>1, <1>2, <1>4, <1>5, <2>1, <2>2
       DEF SolicitedInv, Solicited, IsReply, IsRecvData
<1>11. OrderInv'
  <2>1. ASSUME NEW i \in 1..Len(devOut'), NEW j \in 1..(i - 1),
               Solicited(devOut[i + 1]), Solicited(devOut[j + 1])
        PROVE  /\ IsReply(devOut[j + 1]) /\ devOut[j + 1].byte # 0
               /\ IsRecvData(devOut[i + 1])
    <3>1. j + 1 \in 1..((i + 1) - 1)
      OBVIOUS
    <3>2. QED
      BY <1>2, <2>1, <3>1 DEF AnswerInv, OrderInv
  <2>2. ASSUME NEW i \in 1..Len(devOut'), NEW j \in 1..(i - 1),
               NEW a, NEW b, a = devOut'[i], b = devOut'[j],
               Solicited(a), Solicited(b)
        PROVE  IsReply(b)' /\ b.byte # 0 /\ IsRecvData(a)'
    <3>1. a = devOut[i + 1] /\ b = devOut[j + 1]
      BY <1>2, <2>2
    <3>2. IsReply(b) /\ b.byte # 0 /\ IsRecvData(a)
      BY <2>1, <2>2, <3>1
    <3>3. QED
      BY <1>1, <1>4, <1>5, <3>2 DEF IsReply, IsRecvData
  <2>3. QED
    BY <2>2 DEF OrderInv, Solicited, IsReply, IsRecvData
<1>12. QED
  BY <1>1, <1>4, <1>6, <1>7, <1>8, <1>9, <1>10, <1>11 DEF AnswerInv

\* The reply to the request under way has been handled when it is counted, and
\* the data it announces is all that can come.
LEMMA ReceiveReply ==
    ASSUME DriverTypeOK, AnswerInv, Receives,
           Solicited(Head(devOut)), IsReply(Head(devOut)),
           lastHandled = NoAnswer, pc \notin {"begun", "clocking"}
    PROVE  /\ AnswerInv'
           /\ lastHandled' = Awaited' /\ UNCHANGED <<desired, cur, pc>>
<1> DEFINE m == Head(devOut)
<1>1. /\ m \in Messages /\ cc3000_event_handler(m) /\ m = devOut[1]
      /\ 1 \in 1..Len(devOut) /\ m.type = HCI_TYPE_EVENT /\ m.id # NoId
      /\ m.op = cur.cmd /\ m.id = desired
      /\ cur \in Requests \cup {cc3000_start_command}
      /\ cur \in AllRequests /\ Len(devOut) \in Nat
      /\ UNCHANGED <<cur, pc, devCmds>> /\ pc # "off"
  BY ReceiveFacts DEF Solicited, IsReply
<1>2. ASSUME NEW i \in 1..Len(devOut')
      PROVE  /\ i + 1 \in 1..Len(devOut) /\ devOut'[i] = devOut[i + 1]
             /\ \A j \in 1..(i - 1) : j \in 1..Len(devOut')
  BY ReceiveFacts
<1>3. /\ cur.evt = cur.cmd /\ cur.cmd \in NormalEvents
      /\ cur # RecvData /\ cur # NoRequest
  BY <1>1, CurFacts
<1>4. /\ lastHandled' = [id |-> desired, op |-> cur.cmd]
      /\ desired' = desired /\ expect' \in {0, expect}
      /\ ~ IsUnsolicited(m.op) =>
            retbuf' = [of |-> lastHandled', byte |-> m.byte]
  <2>1. lastHandled' = Answer(m)
    BY <1>1, HandlerEffect
  <2>2. QED
    BY <1>1, <1>3, <2>1, HandlerEffect DEF Answer
<1>5. Awaited.id = desired /\ Awaited' = [id |-> desired, op |-> cur.cmd]
  BY <1>1, <1>3, <1>4 DEF Awaited
<1>6. CallerInv'
  BY <1>1, <1>4 DEF AnswerInv, CallerInv
<1>7. CommandInv'
  BY <1>1 DEF AnswerInv, CommandInv, Solicited
<1>8. ReadyInv'
  BY <1>1, <1>3, <1>4, <1>5 DEF AnswerInv, ReadyInv, Answered
<1>9. StoredInv'
  BY <1>1, <1>4 DEF StoredInv
<1>10. UnsolicitedInv'
  BY <1>2 DEF AnswerInv, UnsolicitedInv, Solicited
<1>11. ASSUME NEW i \in 1..Len(devOut'), Solicited(devOut[i + 1])
       PROVE  IsRecvData(devOut[i + 1]) /\ m.byte # 0
  <2>1. 1 \in 1..((i + 1) - 1)
    OBVIOUS
  <2>2. QED
    BY <1>1, <1>2, <1>11, <2>1 DEF AnswerInv, OrderInv
<1>12. SolicitedInv'
  <2>1. ASSUME NEW i \in 1..Len(devOut'), Solicited(devOut[i + 1])
        PROVE  cur.cmd = HCI_CMND_RECV /\ Announced(i)'
    <3>1. cur.cmd = HCI_CMND_RECV /\ m.byte # 0
      BY <1>3, <1>11, <2>1 DEF IsRecvData
    <3>2. retbuf'.byte # 0
      BY <1>1, <1>4, <3>1, RecvStored
    <3>3. QED
      BY <1>4, <1>5, <3>1, <3>2 DEF Announced
  <2>2. QED
    BY <1>1, <1>2, <1>4, <1>5, <1>11, <2>1
       DEF SolicitedInv, Solicited, IsRecvData
<1>13. OrderInv'
  <2>1. ASSUME NEW i \in 1..Len(devOut'), NEW j \in 1..(i - 1),
               Solicited(devOut[i + 1]), Solicited(devOut[j + 1])
        PROVE  FALSE
    <3>1. j + 1 \in 1..((i + 1) - 1) /\ j \in 1..Len(devOut')
      BY <1>2
    <3>2. IsReply(devOut[j + 1])
      BY <1>2, <2>1, <3>1 DEF AnswerInv, OrderInv
    <3>3. IsRecvData(devOut[j + 1])
      BY <1>11, <2>1, <3>1
    <3>4. QED
      BY <3>2, <3>3, SpecialRequests DEF IsReply, IsRecvData
  <2>2. QED
    BY <1>2, <2>1 DEF OrderInv, Solicited
<1>14. QED
  BY <1>1, <1>4, <1>5, <1>6, <1>7, <1>8, <1>9, <1>10, <1>12, <1>13
     DEF AnswerInv

\* After the data of a recv nothing more comes.
LEMMA ReceiveRecvData ==
    ASSUME DriverTypeOK, AnswerInv, Receives,
           Solicited(Head(devOut)), IsRecvData(Head(devOut)),
           lastHandled = [id |-> Awaited.id, op |-> HCI_CMND_RECV],
           pc \notin {"begun", "clocking"}
    PROVE  AnswerInv' /\ Answered' /\ UNCHANGED <<desired, cur, pc>>
<1> DEFINE m == Head(devOut)
<1>1. /\ m \in Messages /\ cc3000_event_handler(m) /\ m = devOut[1]
      /\ 1 \in 1..Len(devOut) /\ m.type = HCI_TYPE_DATA /\ m.id # NoId
      /\ m.op = HCI_DATA_RECV /\ m.id = Awaited.id
      /\ cur = RecvData \/ cur.cmd = HCI_CMND_RECV
      /\ cur \in AllRequests /\ Len(devOut) \in Nat
      /\ UNCHANGED <<cur, pc, devCmds>> /\ pc # "off"
  BY ReceiveFacts DEF Solicited, IsRecvData
<1>2. ASSUME NEW i \in 1..Len(devOut')
      PROVE  i + 1 \in 1..Len(devOut) /\ devOut'[i] = devOut[i + 1]
  BY ReceiveFacts
<1>3. devCmds = <<>>
  BY SpecialRequests DEF AnswerInv, CommandInv, NoAnswer
<1>4. /\ lastHandled' = [id |-> Awaited.id, op |-> HCI_DATA_RECV]
      /\ desired' = desired /\ expect' \in {0, expect}
      /\ retbuf' = [of |-> lastHandled', byte |-> m.byte]
  <2>1. lastHandled' = Answer(m)
    BY <1>1, HandlerEffect
  <2>2. QED
    BY <1>1, <2>1, HandlerEffect DEF Answer
<1>5. Answered'
  <2>1. Awaited' = Awaited
    BY <1>1, <1>4 DEF Awaited
  <2>2. CASE cur = RecvData
    BY <1>1, <1>4, <2>1, <2>2, SpecialRequests DEF Answered, Awaited
  <2>3. CASE cur.cmd = HCI_CMND_RECV
    <3>1. Awaited.id = desired
      BY <2>3, SpecialRequests DEF Awaited
    <3>2. QED
      BY <1>1, <1>4, <2>3, <3>1 DEF Answered
  <2>4. QED
    BY <1>1, <2>2, <2>3
<1>6. NoneSolicited'
  <2>1. ASSUME NEW i \in 1..Len(devOut'), Solicited(devOut[i + 1])
        PROVE  FALSE
    <3>1. 1 \in 1..((i + 1) - 1)
      OBVIOUS
    <3>2. IsReply(m)
      BY <1>1, <1>2, <2>1, <3>1 DEF AnswerInv, OrderInv
    <3>3. QED
      BY <1>1, <3>2, SpecialRequests DEF IsReply
  <2>2. QED
    BY <1>2, <2>1 DEF NoneSolicited, Solicited
<1>7. CallerInv'
  BY <1>1, <1>4 DEF AnswerInv, CallerInv
<1>8. CommandInv' /\ SolicitedInv' /\ OrderInv'
  BY <1>1, <1>3, <1>6 DEF CommandInv, NoneSolicited, SolicitedInv, OrderInv
<1>9. ReadyInv'
  BY <1>1, <1>4, <1>5 DEF AnswerInv, ReadyInv
<1>10. StoredInv'
  BY <1>4 DEF StoredInv
<1>11. UnsolicitedInv'
  BY <1>2 DEF AnswerInv, UnsolicitedInv, Solicited
<1>12. QED
  BY <1>1, <1>4, <1>5, <1>7, <1>8, <1>9, <1>10, <1>11 DEF AnswerInv

-----------------------------------------------------------------------------
(* Seen as AsyncRequest.                                                   *)

\* The request as its callers see it, when an answer may be lost to them.
Seen == INSTANCE AsyncRequest WITH
    phase <- Phase, request <- cur, delivered <- Delivered,
    StartRequest <- cc3000_start_command, DataRequest <- RecvData,
    MayLose <- TRUE

\* What AsyncRequest sees depends on these.
LEMMA RequestFrame ==
    ASSUME UNCHANGED <<desired, current, lastHandled, cur>>,
           pc = "off" <=> pc' = "off"
    PROVE  UNCHANGED Seen!vars
<1>1. UNCHANGED <<Awaited, Answered, cc3000_is_ready>>
  BY DEF Awaited, Answered, cc3000_is_ready
<1>2. Phase' = Phase
  BY <1>1 DEF Phase
<1>3. QED
  BY <1>1, <1>2 DEF Seen!vars, Delivered

\* Nothing is delivered of a request whose answer has not been handled, and
\* what is not answered is not ready.
LEMMA PhaseFacts ==
    /\ ~ Answered => Delivered = FALSE
    /\ cur = NoRequest => Delivered = FALSE
    /\ pc = "off" => Phase = "off" /\ Delivered = FALSE
    /\ pc # "off" /\ cur = NoRequest => Phase = "idle"
    /\ pc # "off" /\ cur # NoRequest /\ cc3000_is_ready => Phase = "ready"
    /\ pc # "off" /\ cur # NoRequest /\ ~ cc3000_is_ready => Phase = "waiting"
    /\ pc # "off" /\ cur # NoRequest /\ Answered => Delivered = TRUE
BY DEF Phase, Delivered

\* The same of the next state.
LEMMA NextPhaseFacts ==
    /\ ~ Answered' => Delivered' = FALSE
    /\ cur' = NoRequest => Delivered' = FALSE
    /\ pc' = "off" => Phase' = "off" /\ Delivered' = FALSE
    /\ pc' # "off" /\ cur' = NoRequest => Phase' = "idle"
    /\ pc' # "off" /\ cur' # NoRequest /\ cc3000_is_ready' => Phase' = "ready"
    /\ pc' # "off" /\ cur' # NoRequest /\ ~ cc3000_is_ready' =>
           Phase' = "waiting"
    /\ pc' # "off" /\ cur' # NoRequest /\ Answered' => Delivered' = TRUE
BY DEF Phase, Delivered

\* Nothing has been handled of a request that has just begun.
LEMMA NotAnsweredYet ==
    ASSUME cur' \in AllRequests, cur' # NoRequest, lastHandled' = NoAnswer
    PROVE  ~ Answered'
<1>1. cur'.evt # 0
  <2>1. CASE cur' \in Requests
    BY <2>1, RequestFacts
  <2>2. CASE cur' \in {RecvData, cc3000_start_command}
    BY <2>2, SpecialRequests
  <2>3. QED
    BY <2>1, <2>2 DEF AllRequests
<1>2. QED
  BY <1>1, SpecialRequests DEF Answered, Awaited, NoAnswer

\* To receive a message delivers the answer, or is not seen.
LEMMA ReceiveRefines ==
    ASSUME DriverTypeOK, CounterInv, AnswerInv, Receives
    PROVE  Seen!Answer \/ UNCHANGED Seen!vars
<1> DEFINE m == Head(devOut)
<1>1. UNCHANGED <<cur, pc>> /\ pc # "off" /\ cur \in AllRequests
  BY ReceiveFacts
<1>2. ASSUME ~ Answered, cur # NoRequest, Answered'
      PROVE  Seen!Answer
  <2>1. ~ cc3000_is_ready
    BY <1>1, <1>2 DEF AnswerInv, ReadyInv
  <2>2. Phase = "waiting" /\ Delivered = FALSE
    BY <1>1, <1>2, <2>1, PhaseFacts
  <2>3. Phase' \in {"waiting", "ready"} /\ Delivered' = TRUE
    BY <1>1, <1>2, NextPhaseFacts
  <2>4. QED
    BY <1>1, <2>2, <2>3 DEF Seen!Answer
<1>3. CASE ~ Solicited(m)
  BY <1>1, <1>3, ReceiveUnsolicited, RequestFrame
<1>4. CASE Solicited(m) /\ IsReply(m) /\ lastHandled = NoAnswer
  <2>1. cur # NoRequest /\ cur.evt # 0
    BY <1>1, <1>4, CurFacts DEF IsReply
  <2>2. ~ Answered
    BY <1>4, <2>1, SpecialRequests DEF Answered, Awaited, NoAnswer
  <2>3. lastHandled' = Awaited'
    BY <1>4, ReceiveFacts, ReceiveReply, SpecialRequests DEF IsReply, IsRecvData
  <2>4. QED
    BY <1>2, <2>1, <2>2, <2>3 DEF Answered
<1>5. CASE /\ Solicited(m) /\ IsRecvData(m)
           /\ lastHandled = [id |-> Awaited.id, op |-> HCI_CMND_RECV]
           /\ pc \notin {"begun", "clocking"}
  <2>1. Answered' /\ UNCHANGED <<desired, cur, pc>>
    BY <1>5, ReceiveRecvData
  <2>2. m \in Messages /\ cc3000_event_handler(m) /\ m.type = HCI_TYPE_DATA
        /\ m.op = HCI_DATA_RECV
    BY <1>5, ReceiveFacts DEF IsRecvData
  <2>3. CASE cur = RecvData
    <3>1. ~ Answered /\ cur # NoRequest
      BY <1>1, <1>5, <2>3, CurFacts, SpecialRequests DEF Answered, Awaited
    <3>2. QED
      BY <1>2, <2>1, <3>1
  <2>4. CASE cur.cmd = HCI_CMND_RECV
    <3>1. /\ cur.evt = HCI_CMND_RECV /\ cur # NoRequest /\ cur # RecvData
      BY <1>1, <2>4, CurFacts, SpecialRequests
    <3>2. Answered
      BY <1>5, <3>1 DEF Answered, Awaited
    <3>3. expect # HCI_DATA_RECV
      BY <1>1, <3>1, SpecialRequests DEF AnswerInv, ReadyInv
    <3>4. UNCHANGED current
      BY <2>2, <3>3, HandlerEffect
    <3>5. UNCHANGED cc3000_is_ready
      BY <2>1, <3>4 DEF cc3000_is_ready
    <3>6. Phase' = Phase
      BY <2>1, <3>5 DEF Phase
    <3>7. Delivered' = TRUE /\ Delivered = TRUE
      BY <1>1, <2>1, <3>1, <3>2, PhaseFacts, NextPhaseFacts
    <3>8. QED
      BY <1>1, <3>6, <3>7 DEF Seen!vars
  <2>5. QED
    BY <1>5, <2>3, <2>4 DEF IsRecvData
<1>6. QED
  BY <1>3, <1>4, <1>5, ReceiveFacts

\* Of the steps of the calling thread only these are seen: powering up and
\* down, beginning a request, and collecting its result.
LEMMA HostRefines ==
    ASSUME DriverTypeOK, CounterInv, AnswerInv, CallerBegins \/ HostContinues
    PROVE  Seen!Next \/ UNCHANGED Seen!vars
<1> USE DEF handlerVars, counters, hostVars
<1>0. /\ desired \in Counter /\ current \in Counter /\ boots \in 0..MaxBoots
      /\ cur \in AllRequests
  BY DEF DriverTypeOK, HandlerTypeOK
<1>1. ASSUME CanCollect, cur' = NoRequest, pc' = pc
      PROVE  Seen!Collect
  <2>1. Phase = "ready"
    BY <1>1, PhaseFacts DEF CanCollect
  <2>2. Phase' = "idle" /\ Delivered' = FALSE
    BY <1>1, NextPhaseFacts DEF CanCollect
  <2>3. QED
    BY <1>1, <2>1, <2>2 DEF Seen!Collect
<1>2. ASSUME Gap < CounterMod - 1, IncrementDesired, UNCHANGED current,
             cur' # NoRequest, pc' # "off"
      PROVE  Phase' = "waiting"
  <2>1. desired' # current'
    BY <1>0, <1>2, GapIncrement DEF IncrementDesired
  <2>2. QED
    BY <1>2, <2>1, NextPhaseFacts DEF cc3000_is_ready
<1>3. ASSUME NEW r \in Requests, RequestBegin(r) PROVE Seen!Begin(r)
  <2>1. Phase = "idle"
    BY <1>3, PhaseFacts DEF RequestBegin
  <2>2. Gap = 0 /\ cur' = r /\ r # NoRequest /\ pc' = "begun"
        /\ IncrementDesired /\ UNCHANGED current /\ lastHandled' = NoAnswer
    BY <1>3, RequestFacts DEF RequestBegin, CounterInv
  <2>3. Phase' = "waiting"
    BY <1>2, <2>2, CounterModAssumption
  <2>4. Delivered' = FALSE
    BY <2>2, NotAnsweredYet, NextPhaseFacts DEF AllRequests
  <2>5. QED
    BY <2>1, <2>2, <2>3, <2>4 DEF Seen!Begin
<1>4. ASSUME cc3000_start PROVE Seen!PowerUp
  <2>1. Phase = "off"
    BY <1>4, PhaseFacts DEF cc3000_start
  <2>2. /\ cur' = cc3000_start_command /\ cc3000_start_command # NoRequest
        /\ pc' = "idle" /\ IncrementDesired /\ UNCHANGED current
        /\ lastHandled' = NoAnswer
    BY <1>4, SpecialRequests DEF cc3000_start
  <2>3. Gap < CounterMod - 1
    BY <1>0, GapFacts, CounterModAssumption, CounterRoomAssumption,
       BoundsAssumption
       DEF CounterInv
  <2>4. Phase' = "waiting"
    BY <1>2, <2>2, <2>3
  <2>5. Delivered' = FALSE
    BY <2>2, NotAnsweredYet, NextPhaseFacts DEF AllRequests
  <2>6. QED
    BY <2>1, <2>2, <2>4, <2>5 DEF Seen!PowerUp
<1>5. ASSUME cc3000_stop PROVE Seen!PowerDown
  <2>1. Phase # "off"
    BY <1>5 DEF cc3000_stop, Phase
  <2>2. Phase' = "off" /\ Delivered' = FALSE /\ cur' = NoRequest
    BY <1>5, NextPhaseFacts DEF cc3000_stop
  <2>3. QED
    BY <2>1, <2>2 DEF Seen!PowerDown
<1>6. ASSUME GetRecvBytes PROVE Seen!Collect \/ Seen!Continue
  <2>1. CASE ~ (retbuf.byte > 0)
    BY <1>1, <1>6, <2>1 DEF GetRecvBytes
  <2>2. CASE retbuf.byte > 0
    <3>1. /\ CanCollect /\ IncrementDesired /\ UNCHANGED current
          /\ cur' = RecvData /\ RecvData # NoRequest /\ pc' = "rxarm"
      BY <1>6, <2>2, SpecialRequests DEF GetRecvBytes
    <3>2. Gap < CounterMod - 1
      BY <1>0, <3>1, GapFacts, CounterModAssumption DEF CanCollect
    <3>3. Phase' = "waiting"
      BY <1>2, <3>1, <3>2
    <3>4. Phase = "ready"
      BY <3>1, PhaseFacts DEF CanCollect
    <3>5. cur \in ReceiveRequests
      BY <1>0, <1>6, CurFacts DEF GetRecvBytes, ReceiveRequests
    <3>6. Delivered' \in BOOLEAN
      BY DEF Delivered
    <3>7. QED
      BY <3>1, <3>3, <3>4, <3>5, <3>6 DEF Seen!Continue
  <2>3. QED
    BY <2>1, <2>2
<1>7. CASE HostContinues \/ SendLoad
  BY <1>7, RequestFrame
     DEF HostContinues, RequestStartFrame, RequestEndFrame, RequestExpect,
         GetRecvBytesExpect, SendStore, SendStartFrame, SendEndFrame, SendLoad
<1>8. CASE GetBufferSize \/ Collect
  BY <1>1, <1>8 DEF GetBufferSize, Collect, Seen!Next
<1>9. QED
  BY <1>3, <1>4, <1>5, <1>6, <1>7, <1>8 DEF CallerBegins, Seen!Next
=============================================================================
