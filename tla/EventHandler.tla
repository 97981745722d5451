---------------------------- MODULE EventHandler ----------------------------
(***************************************************************************)
(* cc3000_event_handler.c: the globals the handler of incoming messages    *)
(* shares with the API functions, and what it does with one message.       *)
(*                                                                         *)
(* A request is complete when the two counters agree (cc3000_is_ready):    *)
(* the API function increments cc3000_desired_state and arms               *)
(* cc3000_expect, the handler increments cc3000_current_state and clears   *)
(* cc3000_expect when a message with the expected opcode arrives.          *)
(*                                                                         *)
(* A message is a record [type, op, id, byte].  Of its payload the model   *)
(* keeps one byte, the one a collecting function reads (the number of      *)
(* buffers, the number of bytes received, the buffers freed).  "id" is not *)
(* in the code: it is the value of cc3000_desired_state when the command   *)
(* was sent that the message answers (for the data of a recv too), so that *)
(* a property can tell an answer from a stale one; NoId marks the messages *)
(* that answer no command.                                                 *)
(***************************************************************************)
EXTENDS HciOpcodes, Sequences

CONSTANTS
    CounterMod,     \* the counters wrap at this value (2^32 in the code)
    Bytes           \* the payload bytes told apart

ASSUME CounterModAssumption == CounterMod \in Nat /\ CounterMod >= 2
ASSUME BytesAssumption == Bytes \subseteq 0..255 /\ 0 \in Bytes

VARIABLES
    desired,        \* cc3000_desired_state
    current,        \* cc3000_current_state
    expect,         \* cc3000_expect; 0 when nothing is expected
    retbuf,         \* cc3000_return_buffer, and the answer it comes from
    freeBuffers,    \* cc3000_free_buffers, a uint8
    connected,      \* cc3000_state.connected
    dhcpComplete,   \* cc3000_state.dhcp_complete
    closeSocket,    \* cc3000_close_socket
    lastHandled     \* auxiliary: the last answer handled for this request

counters == <<desired, current, expect>>
netState == <<connected, dhcpComplete, closeSocket>>
handlerVars == <<desired, current, expect, retbuf, freeBuffers,
                 connected, dhcpComplete, closeSocket, lastHandled>>

Counter == 0..(CounterMod - 1)
UInt8   == 0..255
UInt16  == 0..65535

\* Not a counter value, and larger than any: marks "answers no command".
NoId == CounterMod

\* The increment of an unsigned counter.
Inc(x) == IF x = CounterMod - 1 THEN 0 ELSE x + 1
Dec(x) == IF x = 0 THEN CounterMod - 1 ELSE x - 1

\* No message and no command has opcode 0: 0 in expect means "nothing".
Opcodes == 1..65535
Answers == [id : Counter \cup {NoId}, op : UInt16]
Payload == [of : Answers, byte : UInt8]

\* Which command a message answers, and with what.
Answer(m) == [id |-> m.id, op |-> m.op]
NoAnswer == [id |-> NoId, op |-> 0]

Message(type, op, id, byte) ==
    [type |-> type, op |-> op, id |-> id, byte |-> byte]
Messages ==
    [type : UInt8, op : Opcodes, id : Counter \cup {NoId}, byte : UInt8]

-----------------------------------------------------------------------------
(* The initial values of the globals: all zero.                            *)

HandlerInit ==
    /\ desired = 0
    /\ current = 0
    /\ expect = 0
    /\ retbuf = [of |-> NoAnswer, byte |-> 0]
    /\ freeBuffers = 0
    /\ connected = FALSE
    /\ dhcpComplete = FALSE
    /\ closeSocket = FALSE
    /\ lastHandled = NoAnswer

\* cc3000_is_ready, which cc3000_wait polls
cc3000_is_ready == desired = current

-----------------------------------------------------------------------------
(* The handler.                                                            *)

\* Defective variants of NoteExpected: cc3000_expect is not cleared; any message
\* counts while one is expected; the expected one is not counted.
NoteExpectedKept(m) ==
    /\ current' = IF m.op = expect THEN Inc(current) ELSE current
    /\ UNCHANGED expect
NoteExpectedAny(m) ==
    IF expect # 0
    THEN current' = Inc(current) /\ expect' = 0
    ELSE UNCHANGED <<current, expect>>
NoteExpectedUncounted(m) ==
    /\ expect' = IF m.op = expect THEN 0 ELSE expect
    /\ UNCHANGED current

\* "did we expect the returned opcode?"
NoteExpected(m) ==
    IF m.op = expect
    THEN current' = Inc(current) /\ expect' = 0
    ELSE UNCHANGED <<current, expect>>

\* cc3000_set_return overwrites the return buffer.
cc3000_set_return(m) == retbuf' = [of |-> Answer(m), byte |-> m.byte]

\* Defective variants of UnsolicitedEvent: one entry too many is added
\* ("count <= buffer_count"); the event is copied to the return buffer.
UnsolicitedEventOneMore(m) ==
    /\ IsUnsolicited(m.op)
    /\ freeBuffers' = IF m.op = HCI_EVNT_DATA_UNSOL_FREE_BUFF
                      THEN (freeBuffers + m.byte + 1) % 256
                      ELSE freeBuffers
    /\ UNCHANGED <<retbuf, netState>>
UnsolicitedEventStored(m) ==
    /\ IsUnsolicited(m.op)
    /\ freeBuffers' = IF m.op = HCI_EVNT_DATA_UNSOL_FREE_BUFF
                      THEN (freeBuffers + m.byte) % 256
                      ELSE freeBuffers
    /\ cc3000_set_return(m)
    /\ UNCHANGED netState

\* The branch of unsolicited events: only the buffers freed are counted.
\* The code adds them one by one to a uint8; the message carries their sum.
UnsolicitedEvent(m) ==
    /\ IsUnsolicited(m.op)
    /\ freeBuffers' = IF m.op = HCI_EVNT_DATA_UNSOL_FREE_BUFF
                      THEN (freeBuffers + m.byte) % 256
                      ELSE freeBuffers
    /\ UNCHANGED <<retbuf, netState>>

\* A defective variant of WlanEvent: the event that brings the address is not
\* among the cases.
WlanEventNoDhcp(m) ==
    /\ IsWlanEvent(m.op)
    /\ connected' = \/ m.op = HCI_EVNT_WLAN_UNSOL_CONNECT
                    \/ m.op # HCI_EVNT_WLAN_UNSOL_DISCONNECT /\ connected
    /\ closeSocket' = (closeSocket \/ m.op = HCI_EVNT_BSD_TCP_CLOSE_WAIT)
    /\ UNCHANGED <<retbuf, freeBuffers, dhcpComplete>>

\* The branch of WLAN events.  A disconnection leaves dhcp_complete alone.
WlanEvent(m) ==
    /\ IsWlanEvent(m.op)
    /\ connected' = \/ m.op = HCI_EVNT_WLAN_UNSOL_CONNECT
                    \/ m.op # HCI_EVNT_WLAN_UNSOL_DISCONNECT /\ connected
    /\ dhcpComplete' = (dhcpComplete \/ m.op = HCI_EVNT_WLAN_UNSOL_DHCP)
    /\ closeSocket' = (closeSocket \/ m.op = HCI_EVNT_BSD_TCP_CLOSE_WAIT)
    /\ UNCHANGED <<retbuf, freeBuffers>>

\* A defective variant of NormalEvent: the answer to a recv is not listed.
NormalEventNoRecv(m) ==
    /\ ~ IsUnsolicited(m.op) /\ ~ IsWlanEvent(m.op)
    /\ IF m.op \in NormalEvents \ {HCI_CMND_RECV} THEN cc3000_set_return(m)
                                                 ELSE UNCHANGED retbuf
    /\ UNCHANGED <<freeBuffers, netState>>

\* The branch of normal events: the listed ones are copied.
NormalEvent(m) ==
    /\ ~ IsUnsolicited(m.op) /\ ~ IsWlanEvent(m.op)
    /\ IF m.op \in NormalEvents THEN cc3000_set_return(m)
                                ELSE UNCHANGED retbuf
    /\ UNCHANGED <<freeBuffers, netState>>

EventMessage(m) ==
    /\ m.type = HCI_TYPE_EVENT
    /\ NoteExpected(m)
    /\ UnsolicitedEvent(m) \/ WlanEvent(m) \/ NormalEvent(m)

DataMessage(m) ==
    /\ m.type = HCI_TYPE_DATA
    /\ NoteExpected(m)
    /\ IF m.op = HCI_DATA_RECV THEN cc3000_set_return(m)
                               ELSE UNCHANGED retbuf
    /\ UNCHANGED <<freeBuffers, netState>>

\* Any other type is dropped.
OtherMessage(m) ==
    /\ m.type \notin {HCI_TYPE_EVENT, HCI_TYPE_DATA}
    /\ UNCHANGED <<current, expect, retbuf, freeBuffers, netState>>

cc3000_event_handler(m) ==
    /\ EventMessage(m) \/ DataMessage(m) \/ OtherMessage(m)
    /\ lastHandled' = IF m.id = NoId THEN lastHandled ELSE Answer(m)
    /\ UNCHANGED desired

-----------------------------------------------------------------------------
(* What the API functions do to the same globals.                          *)

\* cc3000_desired_state++
IncrementDesired == desired' = Inc(desired)

\* cc3000_hci_expect
cc3000_hci_expect(command) == expect' = command

HandlerTypeOK ==
    /\ desired \in Counter
    /\ current \in Counter
    /\ expect \in UInt16
    /\ retbuf \in Payload
    /\ freeBuffers \in UInt8
    /\ connected \in BOOLEAN
    /\ dhcpComplete \in BOOLEAN
    /\ closeSocket \in BOOLEAN
    /\ lastHandled \in Answers
=============================================================================
