------------------------------- MODULE Driver -------------------------------
(***************************************************************************)
(* The thread that calls the API, and the CC3000 at the other end of the   *)
(* SPI bus.  The module says nothing of who receives the messages of the   *)
(* device: InterruptDriven composes it with an interrupt handler,          *)
(* PolledLoop with the main loop of _main.c.                               *)
(*                                                                         *)
(* An API function is cut where an interrupt can come between: before the  *)
(* frame (cc3000_spi_start_send disables interrupts), while the frame is   *)
(* clocked, between its end (cc3000_spi_finish_send enables them) and      *)
(* cc3000_hci_expect.  "pc" is the place in the function that is running:  *)
(*   off       the device is powered down                                  *)
(*   idle      no API function is running                                  *)
(*   begun     desired is incremented, the frame is not started            *)
(*   clocking  CS is asserted, interrupts are disabled                     *)
(*   sent      the frame has ended, expect is not armed yet                *)
(*   rxarm     cc3000_get_recv_bytes, before its cc3000_hci_expect         *)
(*   credit    cc3000_send has loaded free_buffers, not stored it          *)
(*   taken     cc3000_send has stored the decremented free_buffers         *)
(*   data      the data frame is being clocked                             *)
(* The caller waits (cc3000_wait, or the flow handler polling              *)
(* cc3000_is_ready) for a request to be ready before it collects the       *)
(* result and starts another one.                                          *)
(***************************************************************************)
EXTENDS EventHandler, HciCommands

CONSTANTS
    Requests,       \* the requests the caller makes
    OtherEvents,    \* events the device raises that change no credit or link
    LineLingers,    \* the IRQ line may still be low just after CS is released
    OutMax,         \* bound: messages the device holds for the host
    UsedMax,        \* bound: data packets held by the device
    MaxBoots        \* bound: calls of cc3000_start

ASSUME RequestsAssumption ==
    \A r \in Requests :
       /\ r.cmd \in NormalEvents \ {HCI_CMND_SIMPLE_LINK_START}
       /\ r.evt = r.cmd
ASSUME OtherEventsAssumption ==
    /\ OtherEvents \subseteq Opcodes \ NormalEvents
    /\ OtherEvents \cap {HCI_DATA_RECV,
                          HCI_EVNT_DATA_UNSOL_FREE_BUFF,
                          HCI_EVNT_WLAN_UNSOL_CONNECT,
                          HCI_EVNT_WLAN_UNSOL_DISCONNECT,
                          HCI_EVNT_WLAN_UNSOL_DHCP} = {}
ASSUME LineLingersAssumption == LineLingers \in BOOLEAN
ASSUME BoundsAssumption ==
    /\ OutMax \in Nat /\ OutMax >= 3
    /\ UsedMax \in 0..255
    /\ MaxBoots \in Nat
\* The counters do not wrap into each other: 2^32 is more than any number of
\* restarts.
ASSUME CounterRoomAssumption == MaxBoots + 2 < CounterMod

VARIABLES
    pc,             \* where the calling thread is
    cur,            \* the request it waits for, or NoRequest
    reg,            \* free_buffers as loaded by cc3000_send
    intEnabled,     \* interrupts of the IRQ line are enabled
    isrFlag,        \* cc3000_isr_flag
    devOn,          \* WL_EN is high
    devCmds,        \* commands received and not yet answered
    devOut,         \* messages waiting to be read, oldest first
    devUsed,        \* data packets that occupy a buffer of the device
    devLink,        \* the link: "down", "up", or "ip" once it has an address
    boots           \* calls of cc3000_start

hostVars == <<pc, cur, reg>>
intVars == <<intEnabled, isrFlag>>
devVars == <<devOn, devCmds, devOut, devUsed, devLink>>
driverVars == <<handlerVars, hostVars, intVars, devVars, boots>>

Commands == [cmd : Opcodes, id : Counter]
AllRequests == Requests \cup {NoRequest, RecvData, cc3000_start_command}

DriverInit ==
    /\ HandlerInit
    /\ pc = "off" /\ cur = NoRequest /\ reg = 0
    /\ intEnabled = FALSE /\ isrFlag = FALSE
    /\ devOn = FALSE /\ devCmds = <<>> /\ devOut = <<>>
    /\ devUsed = 0 /\ devLink = "down"
    /\ boots = 0

-----------------------------------------------------------------------------
(* cc3000_platform.c                                                       *)

\* Enabling with the line low sets the flag, since the edge may be lost.  The
\* line is low when a message waits; if it lingers, also from the handshake of
\* the frame that has just ended (CS_IS_TOO_FAST is about such delays).
cc3000_interrupt_enable(waiting) ==
    /\ intEnabled' = TRUE
    /\ \E pinLow \in BOOLEAN :
          /\ waiting => pinLow
          /\ pinLow => waiting \/ LineLingers
          /\ isrFlag' = (isrFlag \/ pinLow)

cc3000_interrupt_disable == intEnabled' = FALSE /\ UNCHANGED isrFlag

-----------------------------------------------------------------------------
(* cc3000_spi.c                                                            *)

\* A defective variant: it reads on while the line is low, and only the first
\* message reaches the handler.
cc3000_spi_receive_All ==
    /\ devOut # <<>>
    /\ cc3000_event_handler(Head(devOut))
    /\ devOut' = <<>>
    /\ UNCHANGED <<devOn, devCmds, devUsed, devLink>>

\* cc3000_spi_receive, when a message waits: it is read and handed to the
\* handler before CS is released.  When none waits the length read is zero,
\* 0 is returned and nothing changes.
cc3000_spi_receive ==
    /\ devOut # <<>>
    /\ cc3000_event_handler(Head(devOut))
    /\ devOut' = Tail(devOut)
    /\ UNCHANGED <<devOn, devCmds, devUsed, devLink>>

-----------------------------------------------------------------------------
(* A request: the same four steps for every function of HciCommands.       *)

\* cc3000_desired_state++
RequestBegin(r) ==
    /\ pc = "idle" /\ cur = NoRequest
    /\ IncrementDesired
    /\ cur' = r
    /\ lastHandled' = NoAnswer
    /\ pc' = "begun"
    /\ UNCHANGED <<current, expect, retbuf, freeBuffers, netState, reg,
                   intVars, devVars, boots>>

\* A defective variant: interrupts stay enabled.
RequestStartFrameInterruptible ==
    /\ pc = "begun"
    /\ pc' = "clocking"
    /\ UNCHANGED <<handlerVars, cur, reg, intVars, devVars, boots>>

\* cc3000_hci_start_command, to the first byte clocked
RequestStartFrame ==
    /\ pc = "begun"
    /\ cc3000_interrupt_disable
    /\ pc' = "clocking"
    /\ UNCHANGED <<handlerVars, cur, reg, devVars, boots>>

\* A defective variant: interrupts stay disabled.
RequestEndFrameMuted ==
    /\ pc = "clocking"
    /\ devCmds' = Append(devCmds, [cmd |-> cur.cmd, id |-> desired])
    /\ pc' = "sent"
    /\ UNCHANGED <<handlerVars, cur, reg, intVars, devOn, devOut, devUsed,
                   devLink, boots>>

\* cc3000_hci_end_command: the device has the whole frame
RequestEndFrame ==
    /\ pc = "clocking"
    /\ devCmds' = Append(devCmds, [cmd |-> cur.cmd, id |-> desired])
    /\ cc3000_interrupt_enable(devOut # <<>>)
    /\ pc' = "sent"
    /\ UNCHANGED <<handlerVars, cur, reg, devOn, devOut, devUsed, devLink,
                   boots>>

\* the cc3000_hci_expect at the end of the function
RequestExpect ==
    /\ pc = "sent"
    /\ cc3000_hci_expect(cur.evt)
    /\ pc' = "idle"
    /\ UNCHANGED <<desired, current, retbuf, freeBuffers, netState,
                   lastHandled, cur, reg, intVars, devVars, boots>>

-----------------------------------------------------------------------------
(* Collecting the result of a request that is ready.                       *)

CanCollect == pc = "idle" /\ cur # NoRequest /\ cc3000_is_ready

\* cc3000_general_get_buffer_size takes the first byte of the return buffer.
GetBufferSize ==
    /\ CanCollect /\ cur.cmd = HCI_CMND_READ_BUFFER_SIZE
    /\ freeBuffers' = retbuf.byte
    /\ cur' = NoRequest
    /\ UNCHANGED <<counters, retbuf, netState, lastHandled, pc, reg, intVars,
                   devVars, boots>>

\* cc3000_get_recv_bytes: with bytes to come, the wait for them begins
GetRecvBytes ==
    /\ CanCollect /\ cur.cmd = HCI_CMND_RECV
    /\ IF retbuf.byte > 0
       THEN IncrementDesired /\ cur' = RecvData /\ pc' = "rxarm"
       ELSE cur' = NoRequest /\ UNCHANGED <<desired, pc>>
    /\ UNCHANGED <<current, expect, retbuf, freeBuffers, netState,
                   lastHandled, reg, intVars, devVars, boots>>

\* A defective variant: the data is not expected.
GetRecvBytesForgetsExpect ==
    /\ pc = "rxarm"
    /\ pc' = "idle"
    /\ UNCHANGED <<handlerVars, cur, reg, intVars, devVars, boots>>

GetRecvBytesExpect ==
    /\ pc = "rxarm"
    /\ cc3000_hci_expect(HCI_DATA_RECV)
    /\ pc' = "idle"
    /\ UNCHANGED <<desired, current, retbuf, freeBuffers, netState,
                   lastHandled, cur, reg, intVars, devVars, boots>>

\* The other collecting functions (cc3000_get_recv_data,
\* cc3000_get_select, cc3000_get_return_...) only read the return buffer.
Collect ==
    /\ CanCollect
    /\ cur.cmd \notin {HCI_CMND_READ_BUFFER_SIZE, HCI_CMND_RECV}
    /\ cur' = NoRequest
    /\ UNCHANGED <<handlerVars, pc, reg, intVars, devVars, boots>>

-----------------------------------------------------------------------------
(* cc3000_send.  It is refused (-2, nothing changes) without a free        *)
(* buffer; "cc3000_free_buffers--" is a load and a store, with interrupts  *)
(* enabled.                                                                *)

\* A defective variant: it is not refused.
SendLoadUnchecked ==
    /\ pc = "idle" /\ devOn
    /\ devUsed < UsedMax
    /\ reg' = freeBuffers
    /\ pc' = "credit"
    /\ UNCHANGED <<handlerVars, cur, intVars, devVars, boots>>

SendLoad ==
    /\ pc = "idle" /\ devOn
    /\ freeBuffers # 0
    /\ devUsed < UsedMax
    /\ reg' = freeBuffers
    /\ pc' = "credit"
    /\ UNCHANGED <<handlerVars, cur, intVars, devVars, boots>>

SendStore ==
    /\ pc = "credit"
    /\ freeBuffers' = reg - 1
    /\ reg' = 0                                  \* the register is dead
    /\ pc' = "taken"
    /\ UNCHANGED <<counters, retbuf, netState, lastHandled, cur, intVars,
                   devVars, boots>>

\* cc3000_hci_start_data
SendStartFrame ==
    /\ pc = "taken"
    /\ cc3000_interrupt_disable
    /\ pc' = "data"
    /\ UNCHANGED <<handlerVars, cur, reg, devVars, boots>>

\* cc3000_hci_end_data
SendEndFrame ==
    /\ pc = "data"
    /\ devUsed' = devUsed + 1
    /\ cc3000_interrupt_enable(devOut # <<>>)
    /\ pc' = "idle"
    /\ UNCHANGED <<handlerVars, cur, reg, devOn, devCmds, devOut, devLink,
                   boots>>

-----------------------------------------------------------------------------
(* Power.                                                                  *)

\* cc3000_start, with interrupts disabled until its last call: nothing can
\* come between its steps.  It resets cc3000_state; the counters, the free
\* buffers and cc3000_close_socket keep their values.
cc3000_start ==
    /\ pc = "off" /\ boots < MaxBoots
    /\ connected' = FALSE /\ dhcpComplete' = FALSE
    /\ devOn' = TRUE
    /\ devCmds' = <<[cmd |-> cc3000_start_command.cmd, id |-> Inc(desired)]>>
    /\ IncrementDesired
    /\ cc3000_hci_expect(cc3000_start_command.evt)
    /\ cc3000_interrupt_enable(FALSE)
    /\ cur' = cc3000_start_command
    /\ lastHandled' = NoAnswer
    /\ pc' = "idle"
    /\ boots' = boots + 1
    /\ UNCHANGED <<current, retbuf, freeBuffers, closeSocket, reg, devOut,
                   devUsed, devLink>>

\* A defective variant: interrupts stay enabled.
cc3000_stop_Interruptible ==
    /\ pc = "idle"
    /\ devOn' = FALSE /\ devCmds' = <<>> /\ devOut' = <<>>
    /\ devUsed' = 0 /\ devLink' = "down"
    /\ cur' = NoRequest
    /\ pc' = "off"
    /\ UNCHANGED <<handlerVars, reg, intVars, boots>>

\* cc3000_stop, also by a caller that gives up on a request.  The device
\* forgets everything.
cc3000_stop ==
    /\ pc = "idle"
    /\ cc3000_interrupt_disable
    /\ devOn' = FALSE /\ devCmds' = <<>> /\ devOut' = <<>>
    /\ devUsed' = 0 /\ devLink' = "down"
    /\ cur' = NoRequest
    /\ pc' = "off"
    /\ UNCHANGED <<handlerVars, reg, boots>>

-----------------------------------------------------------------------------
(* The device, as the host sees it.  Unsolicited messages leave room for   *)
(* an answer.                                                              *)

Unsolicited(op, byte) == Message(HCI_TYPE_EVENT, op, NoId, byte)

Reply(c, byte) == Message(HCI_TYPE_EVENT, c.cmd, c.id, byte)

\* The data that follows the answer to HCI_CMND_RECV
RecvDataMessage(c, byte) ==
    Message(HCI_TYPE_DATA, HCI_DATA_RECV, c.id, byte)

DeviceReply ==
    /\ devCmds # <<>>
    /\ Len(devOut) + 2 <= OutMax
    /\ \E byte \in Bytes :
          \/ /\ Head(devCmds).cmd # HCI_CMND_RECV \/ byte = 0
             /\ devOut' = Append(devOut, Reply(Head(devCmds), byte))
          \/ /\ Head(devCmds).cmd = HCI_CMND_RECV /\ byte # 0
             /\ \E content \in Bytes :
                   devOut' = devOut \o
                       <<Reply(Head(devCmds), byte),
                         RecvDataMessage(Head(devCmds), content)>>
    /\ devCmds' = Tail(devCmds)
    /\ UNCHANGED <<handlerVars, hostVars, intVars, devOn, devUsed, devLink,
                   boots>>

CanRaise == devOn /\ Len(devOut) + 3 <= OutMax

DeviceFreesBuffers(n) ==
    /\ CanRaise /\ n <= devUsed
    /\ devUsed' = devUsed - n
    /\ devOut' = Append(devOut, Unsolicited(HCI_EVNT_DATA_UNSOL_FREE_BUFF, n))
    /\ UNCHANGED <<handlerVars, hostVars, intVars, devOn, devCmds, devLink,
                   boots>>

LinkMoves ==
    { [from |-> "down", to |-> "up",   op |-> HCI_EVNT_WLAN_UNSOL_CONNECT],
      [from |-> "up",   to |-> "ip",   op |-> HCI_EVNT_WLAN_UNSOL_DHCP],
      [from |-> "up",   to |-> "down", op |-> HCI_EVNT_WLAN_UNSOL_DISCONNECT],
      [from |-> "ip",   to |-> "down", op |-> HCI_EVNT_WLAN_UNSOL_DISCONNECT] }

DeviceLinkMoves(move) ==
    /\ CanRaise /\ devLink = move.from
    /\ devLink' = move.to
    /\ devOut' = Append(devOut, Unsolicited(move.op, 0))
    /\ UNCHANGED <<handlerVars, hostVars, intVars, devOn, devCmds, devUsed,
                   boots>>

DeviceRaises(op) ==
    /\ CanRaise
    /\ devOut' = Append(devOut, Unsolicited(op, 0))
    /\ UNCHANGED <<handlerVars, hostVars, intVars, devOn, devCmds, devUsed,
                   devLink, boots>>

-----------------------------------------------------------------------------
(* The part of the host that is under way goes on by itself; what is left  *)
(* to the caller is when to begin.                                         *)

HostContinues ==
    \/ RequestStartFrame
    \/ RequestEndFrame
    \/ RequestExpect
    \/ GetRecvBytesExpect
    \/ SendStore
    \/ SendStartFrame
    \/ SendEndFrame

CallerBegins ==
    \/ \E r \in Requests : RequestBegin(r)
    \/ GetBufferSize
    \/ GetRecvBytes
    \/ Collect
    \/ SendLoad
    \/ cc3000_start
    \/ cc3000_stop

DeviceSteps ==
    \/ DeviceReply
    \/ \E n \in 1..UsedMax : DeviceFreesBuffers(n)
    \/ \E move \in LinkMoves : DeviceLinkMoves(move)
    \/ \E op \in OtherEvents : DeviceRaises(op)

-----------------------------------------------------------------------------
(* What should hold whoever receives the messages.                         *)

\* How many increments of desired are not matched by one of current.
Gap == IF desired >= current THEN desired - current
                             ELSE desired - current + CounterMod

\* cc3000_expect is armed only for a request that is counted and not yet
\* matched, so that current never overtakes desired whatever messages arrive;
\* and the request under way is the only one that is not matched.
NeverOvertaken ==
    /\ expect # 0 => ~ cc3000_is_ready
    /\ pc \in {"begun", "clocking", "sent", "rxarm"} =>
          expect = 0 /\ Gap = 1

\* What NeverOvertaken needs to be inductive: a caller that waits for nothing
\* has every request matched, and only a restart leaves one behind for good.
CounterInv ==
    /\ NeverOvertaken
    /\ cur = NoRequest /\ pc # "off" => Gap = 0
    /\ Gap <= boots + 1

\* The answer the caller waits for.  cc3000_get_recv_bytes increments desired
\* once more for the data of the same command.
Awaited == [id |-> IF cur = RecvData THEN Dec(desired) ELSE desired,
            op |-> cur.evt]

\* It has been handled since the request was begun.  The data of a recv can
\* come before cc3000_get_recv_bytes asks for it.
Answered ==
    \/ lastHandled = Awaited
    \/ /\ cur.cmd = HCI_CMND_RECV
       /\ lastHandled = [id |-> desired, op |-> HCI_DATA_RECV]

\* The request as AsyncRequest sees it.
Phase ==
    IF pc = "off" THEN "off"
    ELSE IF cur = NoRequest THEN "idle"
    ELSE IF cc3000_is_ready THEN "ready" ELSE "waiting"
Delivered == Phase \in {"waiting", "ready"} /\ Answered
ReceiveRequests == {r \in Requests : r.cmd = HCI_CMND_RECV}

\* cc3000_is_ready never reports a request complete before its own answer has
\* been handled, whatever unsolicited or stale messages come, and after any
\* sequence of restarts.
NoFalseReady == CanCollect => Answered

\* When a request is ready, the return buffer the collecting function reads
\* holds the answer to this request and no other; for a recv the data may have
\* replaced it.  (Answers with the bit of unsolicited events are not stored.)
FreshReturn ==
    CanCollect /\ ~ IsUnsolicited(cur.evt)
        => Answered /\ retbuf.of = lastHandled

\* A request whose answer has been handled is ready: cc3000_wait returns.
AnsweredIsReady ==
    pc = "idle" /\ cur # NoRequest /\ lastHandled = Awaited => cc3000_is_ready

\* The same of cc3000_start alone, whose command is armed before anything can
\* answer it.
StartAnsweredIsReady == cur = cc3000_start_command => AnsweredIsReady

\* What cc3000_get_recv_bytes reads is the answer to HCI_CMND_RECV.
RecvBytesFromAnswer ==
    CanCollect /\ cur.cmd = HCI_CMND_RECV => retbuf.of = Awaited

\* The buffers that messages say are free again.
Freed(m) == IF m.op = HCI_EVNT_DATA_UNSOL_FREE_BUFF THEN m.byte ELSE 0

OnTheWay(msgs) ==
    LET sum[i \in 0..Len(msgs)] ==
            IF i = 0 THEN 0 ELSE sum[i - 1] + Freed(msgs[i])
    IN  sum[Len(msgs)]

\* The buffers the host may use, that the device occupies, or that are on
\* their way from one to the other.
Credit == freeBuffers + devUsed + OnTheWay(devOut)
              + (IF pc \in {"taken", "data"} THEN 1 ELSE 0)

\* Only cc3000_general_get_buffer_size may raise the number of buffers the
\* host believes it has: no interleaving of cc3000_send with the handler lets
\* the host use a buffer twice.
CreditsNeverCreated ==
    [][~ GetBufferSize => Credit' <= Credit]_driverVars

\* No interleaving of cc3000_send with the handler forgets a buffer, except
\* that a restart of the device empties them all.
CreditsNeverLost ==
    [][~ GetBufferSize /\ ~ cc3000_stop => Credit' >= Credit]_driverVars

\* cc3000_state.connected is the state of the link once the messages under
\* way are handled: none of them is missed or applied out of order.
ConnectedFollowsLink ==
    LET Connect(i) == devOut[i].op = HCI_EVNT_WLAN_UNSOL_CONNECT
        NoDisconnectFrom(i) ==
            \A j \in i..Len(devOut) :
                devOut[j].op # HCI_EVNT_WLAN_UNSOL_DISCONNECT
        connectedAfter ==
            \/ connected /\ NoDisconnectFrom(1)
            \/ \E i \in 1..Len(devOut) : Connect(i) /\ NoDisconnectFrom(i)
    IN  devOn => connectedAfter = (devLink # "down")

\* No address goes unnoticed: the event that says the device has one is under
\* way, or it has been handled since the last start.  (The converse fails: a
\* disconnection leaves cc3000_state.dhcp_complete set.)
AddressNoticed ==
    devOn /\ devLink = "ip" =>
        \/ dhcpComplete
        \/ \E i \in 1..Len(devOut) : devOut[i].op = HCI_EVNT_WLAN_UNSOL_DHCP

-----------------------------------------------------------------------------
\* What NoFalseReady, FreshReturn and ImplementsRequest need to be inductive:
\* where the answer of the request under way is.  It is in one place at a time:
\* not sent for yet, a command of the device, a message that waits, or handled.
Solicited(m) == m.id # NoId

IsReply(m) ==
    /\ cur \in Requests \cup {cc3000_start_command}
    /\ m.type = HCI_TYPE_EVENT /\ m.op = cur.cmd /\ m.id = desired

IsRecvData(m) ==
    /\ cur = RecvData \/ cur.cmd = HCI_CMND_RECV
    /\ m.type = HCI_TYPE_DATA /\ m.op = HCI_DATA_RECV /\ m.id = Awaited.id

\* The reply that announces data has been handled, or waits in front of it.
Announced(i) ==
    \/ /\ lastHandled = [id |-> Awaited.id, op |-> HCI_CMND_RECV]
       /\ cur # RecvData => retbuf.byte # 0
    \/ \E j \in 1..(i - 1) : Solicited(devOut[j])

\* The state of the calling thread: off, everything is forgotten.
CallerInv ==
    /\ pc = "off" => cur = NoRequest /\ devCmds = <<>> /\ devOut = <<>>
    /\ pc \in {"begun", "clocking"} => lastHandled = NoAnswer
    /\ pc = "rxarm" => cur = RecvData

\* The device has at most the command of the request under way, and then no
\* answer to it exists.
CommandInv ==
    devCmds # <<>> =>
        /\ devCmds = <<[cmd |-> cur.cmd, id |-> desired]>>
        /\ cur \in Requests \cup {cc3000_start_command}
        /\ pc \notin {"begun", "clocking"}
        /\ lastHandled = NoAnswer
        /\ \A i \in 1..Len(devOut) : ~ Solicited(devOut[i])

\* The opcode of an unsolicited message is never expected nor stored.
UnsolicitedInv ==
    \A i \in 1..Len(devOut) :
        ~ Solicited(devOut[i]) =>
            /\ devOut[i].type = HCI_TYPE_EVENT
            /\ devOut[i].op \notin NormalEvents \cup {HCI_DATA_RECV}

\* The others answer the request under way.
SolicitedInv ==
    \A i \in 1..Len(devOut) :
        Solicited(devOut[i]) =>
            /\ pc \notin {"begun", "clocking"}
            /\ \/ IsReply(devOut[i]) /\ lastHandled = NoAnswer
               \/ IsRecvData(devOut[i]) /\ Announced(i)

\* There are at most two, a reply that announces data and the data.
OrderInv ==
    \A i \in 1..Len(devOut) : \A j \in 1..(i - 1) :
        Solicited(devOut[i]) /\ Solicited(devOut[j]) =>
            IsReply(devOut[j]) /\ devOut[j].byte # 0 /\ IsRecvData(devOut[i])

\* Only the opcode of the request under way is expected, and it is ready only
\* when its answer has been handled.
ReadyInv ==
    pc # "off" =>
        /\ expect # 0 => cur # NoRequest /\ expect = cur.evt
        /\ cur # NoRequest /\ cc3000_is_ready => Answered

\* An answer that the handler stores is in the return buffer.
StoredInv ==
    \/ lastHandled = NoAnswer
    \/ IsUnsolicited(lastHandled.op)
    \/ retbuf.of = lastHandled

AnswerInv ==
    /\ CallerInv /\ CommandInv
    /\ UnsolicitedInv /\ SolicitedInv /\ OrderInv
    /\ ReadyInv /\ StoredInv

-----------------------------------------------------------------------------
DriverTypeOK ==
    /\ HandlerTypeOK
    /\ pc \in {"off", "idle", "begun", "clocking", "sent", "rxarm",
               "credit", "taken", "data"}
    /\ cur \in AllRequests
    /\ pc \in {"begun", "clocking", "sent"} => cur \in Requests
    /\ reg \in UInt8
    /\ pc = "credit" => reg # 0
    /\ intEnabled \in BOOLEAN
    /\ isrFlag \in BOOLEAN
    /\ devOn \in BOOLEAN
    /\ devCmds \in Seq(Commands)
    /\ devOut \in Seq(Messages)
    /\ devUsed \in 0..UsedMax
    /\ pc \in {"credit", "taken", "data"} => devUsed < UsedMax
    /\ devLink \in {"down", "up", "ip"}
    /\ boots \in 0..MaxBoots
=============================================================================
