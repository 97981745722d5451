---------------------------- MODULE ReceivePath ----------------------------
(***************************************************************************)
(* What becomes of the bytes of a message: cc3000_spi_receive reads them   *)
(* into cc3000_spi_rx_buffer, the event handler copies a part of that to   *)
(* cc3000_return_buffer with cc3000_set_return, and the collecting         *)
(* functions read that buffer at fixed offsets.  None of them knows how    *)
(* much of a buffer is of the last message: what is behind it is left from *)
(* an earlier one.                                                         *)
(*                                                                         *)
(* Of a byte the model keeps where it is from: a buffer holds, for every   *)
(* position, the position the byte had in the last message received (or    *)
(* stored), or Stale.  A message is a record [type, op, args, n]: args is  *)
(* the length of its arguments; n is, for HCI_DATA_RECV, the number of     *)
(* data bytes behind them, and for the answer to HCI_CMND_RECV the number  *)
(* of bytes it announces.  What a copy writes behind the end of a buffer   *)
(* is outside the model.                                                   *)
(***************************************************************************)
EXTENDS SpiFraming, Integers

CONSTANTS
    Events,         \* the other messages of the device
    RecvSizes,      \* how many bytes a recv returns
    RecvArgs        \* the length of the arguments in front of them

\* The type, the opcode and the argument length come first.
HCI_ARGS_OFFSET == 5
\* The socket, the number of bytes and the flags
RECV_EVENT_ARGS == 12

EventMessage(op, argsLength) ==
    [type |-> HCI_TYPE_EVENT, op |-> op, args |-> argsLength, n |-> 0]
RecvReply(size) ==
    [type |-> HCI_TYPE_EVENT, op |-> HCI_CMND_RECV, args |-> RECV_EVENT_ARGS,
     n |-> size]
RecvMessage(argsLength, size) ==
    [type |-> HCI_TYPE_DATA, op |-> HCI_DATA_RECV, args |-> argsLength,
     n |-> size]
NoMessage == [type |-> 0, op |-> 0, args |-> 0, n |-> 0]

\* The length on the bus
MessageLength(m) ==
    HCI_ARGS_OFFSET + m.args + (IF m.type = HCI_TYPE_DATA THEN m.n ELSE 0)

\* The answers to select and accept have the arguments the code reads; what is
\* read of a message that is too long still holds its header.
ASSUME MessagesAssumption ==
    /\ \A m \in Events :
          /\ m.type = HCI_TYPE_EVENT /\ m.n = 0 /\ m.op # HCI_CMND_RECV
          /\ m.args \in Nat /\ m.args <= 245
          /\ m.op \in {HCI_CMND_BSD_SELECT, HCI_CMND_ACCEPT} => m.args >= 16
    /\ \A size \in RecvSizes : size \in Nat /\ size <= 1460
    /\ \A argsLength \in RecvArgs :
          argsLength \in Nat /\ 3 <= argsLength /\ argsLength <= 255
    /\ \A size \in RecvSizes, argsLength \in RecvArgs :
          MessageLength(RecvMessage(argsLength, size)) % 256 \notin 1..4

VARIABLES
    rx,             \* cc3000_spi_rx_buffer
    ret,            \* cc3000_return_buffer
    inRx,           \* the message rx holds
    stored,         \* the message ret holds
    pending,        \* the bytes announced whose data has not been sent yet
    numBytes        \* what cc3000_get_recv_bytes returned, or NotAsked

pathVars == <<rx, ret, inRx, stored, pending, numBytes>>
vars == <<framingVars, pathVars>>

Positions == 0..(CC300_SPI_RX_BUFFER_SIZE - 1)     \* of both buffers
Stale == -1
NotAsked == -1
Buffers == [Positions -> Positions \cup {Stale}]
EmptyBuffer == [i \in Positions |-> Stale]

Init ==
    /\ FramingInit
    /\ rx = EmptyBuffer /\ ret = EmptyBuffer
    /\ inRx = NoMessage /\ stored = NoMessage
    /\ pending = 0 /\ numBytes = NotAsked

\* A byte behind the end of a buffer is no byte of a message.
Byte(buffer, i) == IF i \in Positions THEN buffer[i] ELSE Stale

-----------------------------------------------------------------------------
(* The event handler.                                                      *)

\* Of the source buffer from offset on, size bytes (a uint8)
cc3000_set_return(data, offset, size) ==
    ret' = [i \in Positions |->
               IF i < size % 256 THEN Byte(data, offset + i) ELSE Stale]

\* A defective variant: the arguments are copied from the last byte of the
\* header on.
StoreEventShifted(data, m) ==
    /\ ~ IsUnsolicited(m.op) /\ ~ IsWlanEvent(m.op) /\ m.op \in NormalEvents
    /\ cc3000_set_return(data, HCI_ARGS_OFFSET - 1, m.args)
    /\ stored' = m

\* the arguments of a normal event
StoreEvent(data, m) ==
    /\ ~ IsUnsolicited(m.op) /\ ~ IsWlanEvent(m.op) /\ m.op \in NormalEvents
    /\ cc3000_set_return(data, HCI_ARGS_OFFSET, m.args)
    /\ stored' = m

\* A defective variant: the payload length alone.
PayloadLength(m) == m.args + m.n

\* The payload length counts the arguments, and their length is added again:
\* the copy begins three bytes before the arguments.
DataSize(m) == m.args + m.n + m.args

cc3000_event_handler(data, m) ==
    \/ m.type = HCI_TYPE_EVENT /\ StoreEvent(data, m)
    \/ /\ m.type = HCI_TYPE_EVENT
       /\ \/ IsUnsolicited(m.op) \/ IsWlanEvent(m.op)
          \/ m.op \notin NormalEvents
       /\ UNCHANGED <<ret, stored>>
    \/ /\ m.type = HCI_TYPE_DATA
       /\ cc3000_set_return(data, 2, DataSize(m))
       /\ stored' = m

-----------------------------------------------------------------------------
(* Receiving.                                                              *)

\* cc3000_spi_receive: the bytes taken, and the handler if there are any.
Receive(m) ==
    /\ cc3000_spi_receive(MessageLength(m))
    /\ IF received'.result = 0
       THEN UNCHANGED <<rx, inRx, ret, stored>>
       ELSE /\ rx' = [i \in Positions |->
                         IF i < received'.taken THEN i ELSE Stale]
            /\ inRx' = m
            /\ cc3000_event_handler(rx', m)

\* The answer to any other request, and what the device sends by itself
ReceiveEvent(m) ==
    /\ pending = 0 \/ IsUnsolicited(m.op) \/ IsWlanEvent(m.op)
    /\ Receive(m)
    /\ UNCHANGED <<pending, numBytes>>

ReceiveReply(size) ==
    /\ pending = 0
    /\ Receive(RecvReply(size))
    /\ pending' = size
    /\ numBytes' = NotAsked

\* The data comes after the caller has asked for it, as in the main loop.
ReceiveData(argsLength) ==
    /\ pending # 0 /\ numBytes # NotAsked
    /\ Receive(RecvMessage(argsLength, pending))
    /\ pending' = 0
    /\ UNCHANGED numBytes

\* "process the recieved data": the main loop hands the buffer to the handler
\* once more, with the message of an earlier turn if nothing was received.
HandleAgain ==
    /\ stage = "idle" /\ inRx # NoMessage
    /\ cc3000_event_handler(rx, inRx)
    /\ UNCHANGED <<framingVars, rx, inRx, pending, numBytes>>

-----------------------------------------------------------------------------
(* Collecting.  The functions only read; the value of a byte is told by    *)
(* where it is from.                                                       *)

cc3000_get_return_uint8(offset) == Byte(ret, offset)

cc3000_get_return_uint32(offset) ==
    [i \in 1..4 |-> Byte(ret, offset + i - 1)]

cc3000_get_return_int32(offset) == cc3000_get_return_uint32(offset)

cc3000_get_return_stream(offset, size) ==
    [i \in 1..size |-> Byte(ret, offset + i - 1)]

\* the status and three sets of sockets
cc3000_get_select ==
    [ status |-> cc3000_get_return_int32(0),
      read   |-> cc3000_get_return_uint32(4),
      write  |-> cc3000_get_return_uint32(8),
      except |-> cc3000_get_return_uint32(12) ]

\* the socket, and the address of the peer from a copy of the first 16 bytes
cc3000_get_accecpt ==
    LET evt_ret == cc3000_get_return_stream(0, 16)
    IN  [ sd   |-> cc3000_get_return_int32(4),
          addr |-> [i \in 1..8 |-> evt_ret[8 + i]] ]

\* The low byte of the number of bytes; it is a uint8.
cc3000_get_recv_bytes ==
    /\ stage = "idle" /\ stored.op = HCI_CMND_RECV /\ numBytes = NotAsked
    /\ numBytes' = IF cc3000_get_return_uint8(4) = HCI_ARGS_OFFSET + 4
                   THEN stored.n % 256
                   ELSE 0
    /\ UNCHANGED <<framingVars, rx, ret, inRx, stored, pending>>

\* The byte at 0 is the argument length if it is the byte at 2 of a data
\* message.
cc3000_get_recv_data(len) ==
    LET args_length == IF cc3000_get_return_uint8(0) = 2 THEN stored.args ELSE 0
    IN  cc3000_get_return_stream(args_length + 3, len)

Next ==
    \/ pending = 0 /\ SendSteps /\ UNCHANGED pathVars
    \/ \E m \in Events : ReceiveEvent(m)
    \/ \E size \in RecvSizes : ReceiveReply(size)
    \/ \E argsLength \in RecvArgs : ReceiveData(argsLength)
    \/ HandleAgain
    \/ cc3000_get_recv_bytes

Spec == Init /\ [][Next]_vars

-----------------------------------------------------------------------------
(* Properties.                                                             *)

TypeOK ==
    /\ FramingTypeOK
    /\ rx \in Buffers /\ ret \in Buffers
    /\ pending \in {0} \cup RecvSizes
    /\ numBytes \in Nat \cup {NotAsked} /\ numBytes <= 255

\* The arguments of the message, count bytes from the offset on
Arguments(offset, count) ==
    [i \in 1..count |-> HCI_ARGS_OFFSET + offset + i - 1]

\* What a collecting function reads are the arguments of the last answer that
\* was stored, each at its place: no byte of the header, of an earlier message
\* or of one that came since, as far as the answer has arguments.
ArgumentsRead ==
    stored.type = HCI_TYPE_EVENT =>
        /\ cc3000_get_return_stream(0, stored.args)
               = Arguments(0, stored.args)
        /\ \A offset \in 0..(stored.args - 4) :
              cc3000_get_return_int32(offset) = Arguments(offset, 4)
        /\ stored.op = HCI_CMND_BSD_SELECT =>
              cc3000_get_select =
                  [ status |-> Arguments(0, 4), read   |-> Arguments(4, 4),
                    write  |-> Arguments(8, 4), except |-> Arguments(12, 4) ]
        /\ stored.op = HCI_CMND_ACCEPT =>
              cc3000_get_accecpt =
                  [ sd |-> Arguments(4, 4), addr |-> Arguments(8, 8) ]

\* The copy of a data message stays inside both buffers.
CopyFits(m) == 2 + DataSize(m) <= CC300_SPI_RX_BUFFER_SIZE

\* A caller that receives, asks for the number of bytes and collects so many
\* gets the data of its recv, all of it and in order, unless the copy runs out
\* of the buffers: with the 16 bytes of arguments, up to 216 bytes.
RecvDataWhole ==
    stored.type = HCI_TYPE_DATA /\ CopyFits(stored) =>
        cc3000_get_recv_data(numBytes)
            = [i \in 1..stored.n |-> HCI_ARGS_OFFSET + stored.args + i - 1]
=============================================================================
