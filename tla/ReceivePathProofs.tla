------------------------- MODULE ReceivePathProofs -------------------------
(***************************************************************************)
(* The frames of SpiFraming and the buffers of ReceivePath, for every      *)
(* length the named assumptions allow: what is sent is what is announced,  *)
(* and what is collected is what was received.                             *)
(***************************************************************************)
EXTENDS ReceivePath, TLAPS

-----------------------------------------------------------------------------
(* Lengths on the bus.                                                     *)

\* What is left of a frame, at each of its stages
FrameInv ==
    /\ stage = "opened" => clocked + toStream + padding_byte_required = announced
    /\ stage = "streamed" => clocked + padding_byte_required = announced
    /\ stage # "idle" =>
          (CC3000_SPI_HEADER_SIZE + announced) % 2 = 0 /\ toStream = args
    /\ FrameIsWhole

\* A frame with its padding byte is even, and its length fits.
LEMMA PaddingFacts ==
    ASSUME NEW n \in Nat, n <= 65100
    PROVE  /\ PaddingRequired(n) \in {0, 1}
           /\ LengthAnnounced(n) = n + PaddingRequired(n)
           /\ (CC3000_SPI_HEADER_SIZE + LengthAnnounced(n)) % 2 = 0
  <1>1. PaddingRequired(n) \in {0, 1}
    BY DEF PaddingRequired, CC3000_SPI_HEADER_SIZE
  <1>2. LengthAnnounced(n) = n + PaddingRequired(n)
    BY <1>1 DEF LengthAnnounced
  <1>3. (5 + (n + ((5 + n) % 2))) % 2 = 0
    OBVIOUS
  <1> QED
    BY <1>1, <1>2, <1>3 DEF PaddingRequired, CC3000_SPI_HEADER_SIZE

\* Every command announces what it sends.
LEMMA CommandFacts ==
    ASSUME NEW c \in Commands \cup {cc3000_general_req_buffer_size,
                                    cc3000_start_command}
    PROVE  c.args \in Nat /\ c.args <= 255 /\ c.sent = c.args
  BY CommandsAssumption
  DEF cc3000_general_req_buffer_size, cc3000_start_command, cc3000_hci_command

\* Nothing is sent yet.
LEMMA InitFrame == FramingInit => SelectOK /\ LengthsOK /\ FrameInv
  <1>1. FramingInit => SelectOK
    BY Zenon DEF FramingInit, SelectOK
  <1>2. FramingInit => LengthsOK /\ FrameInv
    BY SMT DEF FramingInit, LengthsOK, FrameInv, FrameIsWhole
  <1> QED  BY <1>1, <1>2, Zenon

\* The lines of CS and the stage of the frame change together.
LEMMA SelectStep ==
    ASSUME SelectOK, SendSteps
    PROVE  SelectOK'
  <1>1. ASSUME stage' = "opened", cs' = TRUE PROVE SelectOK'
    BY <1>1, Zenon DEF SelectOK
  <1>2. ASSUME NEW c, cc3000_hci_start_command(c) PROVE SelectOK'
    <2>1. stage' = "opened" /\ cs' = TRUE
      BY <1>2, SMT
      DEF cc3000_hci_start_command, StartFrame, cc3000_spi_start_send
    <2> QED  BY <1>1, <2>1, Zenon
  <1>3. ASSUME NEW length, cc3000_hci_start_data(length) PROVE SelectOK'
    <2>1. stage' = "opened" /\ cs' = TRUE
      BY <1>3, SMT DEF cc3000_hci_start_data, StartFrame, cc3000_spi_start_send
    <2> QED  BY <1>1, <2>1, Zenon
  <1>4. ASSUME stage' = "ended", cs' = FALSE PROVE SelectOK'
    BY <1>4, Zenon DEF SelectOK
  <1>5. ASSUME NEW c, cc3000_hci_send_command(c) PROVE SelectOK'
    <2>1. stage' = "ended" /\ cs' = FALSE
      BY <1>5, SMT DEF cc3000_hci_send_command
    <2> QED  BY <1>4, <2>1, Zenon
  <1>6. ASSUME NEW n, NEW length, cc3000_hci_send_data(n, length)
        PROVE  SelectOK'
    <2>1. stage' = "ended" /\ cs' = FALSE
      BY <1>6, SMT DEF cc3000_hci_send_data
    <2> QED  BY <1>4, <2>1, Zenon
  <1>7. CASE StreamArguments
    <2>1. stage = "opened" /\ stage' = "streamed" /\ cs' = cs
      BY <1>7, Zenon DEF StreamArguments
    <2>2. cs = TRUE
      BY <2>1, Zenon DEF SelectOK
    <2> QED  BY <2>1, <2>2, Zenon DEF SelectOK
  <1>8. CASE EndFrame
    BY <1>4, <1>8, Zenon DEF EndFrame, cc3000_spi_finish_send
  <1>9. CASE Return
    <2>1. stage = "ended" /\ stage' = "idle" /\ cs' = cs
      BY <1>9, Zenon DEF Return
    <2>2. cs = FALSE
      BY <2>1, Zenon DEF SelectOK
    <2> QED  BY <2>1, <2>2, Zenon DEF SelectOK
  <1> QED
    BY <1>2, <1>3, <1>5, <1>6, <1>7, <1>8, <1>9, Zenon DEF SendSteps

\* A frame that is opened announces what is to come.
LEMMA Opened ==
    ASSUME NEW n \in Nat, n <= 65100, NEW header \in Nat, NEW sent \in Nat,
           n = header + sent,
           announced' = LengthAnnounced(n),
           padding_byte_required' = PaddingRequired(n),
           clocked' = header, args' = sent, toStream' = sent, stage' = "opened"
    PROVE  LengthsOK' /\ FrameInv'
  BY PaddingFacts, SMT DEF LengthsOK, FrameInv, FrameIsWhole

\* So does one that goes out in a single call.
LEMMA Ended ==
    ASSUME LengthsOK, NEW n \in Nat, n <= 65100, NEW sent \in Nat, sent <= n,
           announced' = LengthAnnounced(n),
           UNCHANGED padding_byte_required,
           clocked' = n + PaddingRequired(n),
           args' = sent, toStream' = sent, stage' = "ended"
    PROVE  LengthsOK' /\ FrameInv'
  BY PaddingFacts, SMT DEF LengthsOK, FrameInv, FrameIsWhole

\* Every call that sends keeps the account of the frame.
LEMMA FrameStep ==
    ASSUME LengthsOK, FrameInv, SendSteps
    PROVE  LengthsOK' /\ FrameInv'
  <1>1. ASSUME NEW c \in Commands, cc3000_hci_start_command(c)
        PROVE  LengthsOK' /\ FrameInv'
    <2>1. c.args \in Nat /\ c.args <= 255 /\ c.sent = c.args
      BY CommandFacts, SMT
    <2>2. PICK n \in Nat : n <= 65100 /\ n = 4 + c.args
      BY <2>1, SMT
    <2>3. /\ announced' = LengthAnnounced(n)
          /\ padding_byte_required' = PaddingRequired(n)
          /\ clocked' = 4 /\ args' = c.args /\ toStream' = c.args
          /\ stage' = "opened"
      BY <1>1, <2>1, <2>2, SMT
      DEF cc3000_hci_start_command, StartFrame, cc3000_spi_start_send,
          HCI_COMMAND_HEADER_LENGTH
    <2> QED  BY <2>1, <2>2, <2>3, Opened, SMT
  <1>2. ASSUME NEW c \in {cc3000_general_req_buffer_size, cc3000_start_command},
               cc3000_hci_send_command(c)
        PROVE  LengthsOK' /\ FrameInv'
    <2>1. c.args \in Nat /\ c.args <= 255 /\ c.sent = c.args
      BY CommandFacts, SMT
    <2>2. PICK n \in Nat : n <= 65100 /\ n = 4 + c.args
      BY <2>1, SMT
    <2>3. /\ announced' = LengthAnnounced(n)
          /\ UNCHANGED padding_byte_required
          /\ clocked' = n + PaddingRequired(n)
          /\ args' = c.args /\ toStream' = c.args
          /\ stage' = "ended"
      BY <1>2, <2>1, <2>2, SMT
      DEF cc3000_hci_send_command, HCI_COMMAND_HEADER_LENGTH
    <2> QED  BY <2>1, <2>2, <2>3, Ended, SMT
  <1>3. ASSUME NEW length \in SendLengths,
               \/ cc3000_hci_start_data(length)
               \/ cc3000_hci_send_data(SEND_ARGS_LENGTH, length)
        PROVE  LengthsOK' /\ FrameInv'
    <2>1. length \in Nat /\ length <= 65000
      BY LengthsAssumption
    <2>2. PICK n \in Nat : n <= 65100 /\ n = 21 + length
      BY <2>1, SMT
    <2>3. (16 + length) % 65536 = 16 + length /\ (5 + (16 + length)) % 65536 = n
      BY <2>1, <2>2, SMT
    <2>4. CASE cc3000_hci_start_data(length)
      <3>1. /\ announced' = LengthAnnounced(n)
            /\ padding_byte_required' = PaddingRequired(n)
            /\ clocked' = 5 /\ args' = 16 + length /\ toStream' = 16 + length
            /\ stage' = "opened"
        BY <2>4, <2>1, <2>3, SMT
        DEF cc3000_hci_start_data, StartFrame, cc3000_spi_start_send,
            HCI_DATA_HEADER_LENGTH, SEND_ARGS_LENGTH, cc3000_hci_send_uint32,
            cc3000_hci_send_uint8
      <3>2. 16 + length \in Nat /\ n = 5 + (16 + length)
        BY <2>1, <2>2, SMT
      <3> QED  BY <2>2, <3>1, <3>2, Opened, SMT
    <2>5. CASE cc3000_hci_send_data(SEND_ARGS_LENGTH, length)
      <3>1. /\ announced' = LengthAnnounced(n)
            /\ UNCHANGED padding_byte_required
            /\ clocked' = 5 + 16 + length + PaddingRequired(n)
            /\ args' = 16 + length /\ toStream' = 16 + length
            /\ stage' = "ended"
        BY <2>5, <2>3, SMT
        DEF cc3000_hci_send_data, HCI_DATA_HEADER_LENGTH, SEND_ARGS_LENGTH
      <3>2. 16 + length \in Nat /\ 16 + length <= n
            /\ clocked' = n + PaddingRequired(n)
        BY <2>1, <2>2, <3>1, PaddingFacts, SMT
      <3> QED  BY <2>2, <3>1, <3>2, Ended, SMT
    <2> QED  BY <1>3, <2>4, <2>5, Zenon
  <1>4. CASE StreamArguments
    BY <1>4, SMT DEF StreamArguments, LengthsOK, FrameInv, FrameIsWhole
  <1>5. CASE EndFrame
    BY <1>5, SMT
    DEF EndFrame, cc3000_spi_finish_send, LengthsOK, FrameInv, FrameIsWhole
  <1>6. CASE Return
    BY <1>6, SMT DEF Return, LengthsOK, FrameInv, FrameIsWhole
  <1> QED  BY <1>1, <1>2, <1>3, <1>4, <1>5, <1>6, Zenon DEF SendSteps

-----------------------------------------------------------------------------
(* Messages and buffers.                                                   *)

PathMessages ==
    {NoMessage} \cup Events
        \cup { RecvReply(size) : size \in RecvSizes }
        \cup { RecvMessage(argsLength, size) :
                  argsLength \in RecvArgs, size \in RecvSizes \ {0} }

\* A message that is received to its last byte and whose copy fits
Whole(m) ==
    m.type = HCI_TYPE_EVENT \/ (m.type = HCI_TYPE_DATA /\ CopyFits(m))

\* What cc3000_spi_rx_buffer and cc3000_return_buffer hold of such a message
RxHolds(buffer, m) ==
    Whole(m) => \A i \in Nat : i < MessageLength(m) => buffer[i] = i
RetHolds(buffer, m) ==
    /\ m.type = HCI_TYPE_EVENT =>
          \A i \in Nat : i < m.args => buffer[i] = 5 + i
    /\ m.type = HCI_TYPE_DATA /\ CopyFits(m) =>
          \A i \in Nat : i < m.args + m.n + 3 => buffer[i] = 2 + i

IsEvent(op) == IsUnsolicited(op) \/ IsWlanEvent(op)

\* The types and opcodes that must differ do.
LEMMA TypeValues ==
    /\ HCI_TYPE_EVENT # HCI_TYPE_DATA
    /\ NoMessage.type # HCI_TYPE_EVENT /\ NoMessage.type # HCI_TYPE_DATA
    /\ NoMessage.op # HCI_CMND_RECV /\ HCI_DATA_RECV # HCI_CMND_RECV
    /\ HCI_CMND_RECV \notin {HCI_CMND_BSD_SELECT, HCI_CMND_ACCEPT}
  BY SMT
  DEF HCI_TYPE_EVENT, HCI_TYPE_DATA, NoMessage, HCI_CMND_RECV, HCI_DATA_RECV,
      HCI_DATA_BASE, HCI_CMND_SOCKET_BASE, HCI_CMND_BSD_SELECT, HCI_CMND_ACCEPT

\* The answer to a recv is stored.
LEMMA RecvStored == ~ IsEvent(HCI_CMND_RECV) /\ HCI_CMND_RECV \in NormalEvents
  <1>1. /\ HCI_CMND_RECV \div HCI_EVNT_UNSOL_BASE = 0
        /\ HCI_CMND_RECV \div HCI_EVNT_WLAN_UNSOL_BASE = 0
    BY SMT DEF HCI_CMND_RECV, HCI_CMND_SOCKET_BASE, HCI_EVNT_UNSOL_BASE,
               HCI_EVNT_WLAN_UNSOL_BASE
  <1>2. 0 % 2 = 0
    BY SMT
  <1>3. ~ IsEvent(HCI_CMND_RECV)
    BY <1>1, <1>2, SMT DEF IsEvent, IsUnsolicited, IsWlanEvent, HasBit
  <1>4. HCI_CMND_RECV \in NormalEvents
    BY SMT DEF NormalEvents
  <1> QED  BY <1>3, <1>4, SMT

\* The answer to a recv
LEMMA ReplyFacts ==
    ASSUME NEW size \in RecvSizes
    PROVE  /\ RecvReply(size) \in PathMessages
           /\ RecvReply(size).type = HCI_TYPE_EVENT
           /\ RecvReply(size).op = HCI_CMND_RECV
           /\ RecvReply(size).n = size
           /\ RecvReply(size).args = 12 /\ size \in Nat /\ size <= 1460
  <1>1. RecvReply(size) \in PathMessages
    BY SMT DEF PathMessages
  <1>2. size \in Nat /\ size <= 1460
    BY MessagesAssumption, SMT
  <1> QED  BY <1>1, <1>2, SMT DEF RecvReply, RECV_EVENT_ARGS

\* The data of a recv
LEMMA DataFacts ==
    ASSUME NEW a \in RecvArgs, NEW size \in RecvSizes \ {0}
    PROVE  /\ RecvMessage(a, size) \in PathMessages
           /\ RecvMessage(a, size).type = HCI_TYPE_DATA
           /\ RecvMessage(a, size).op = HCI_DATA_RECV
           /\ RecvMessage(a, size).n = size /\ RecvMessage(a, size).args = a
           /\ a \in Nat /\ 3 <= a /\ a <= 255
           /\ size \in Nat /\ size <= 1460
  <1>1. RecvMessage(a, size) \in PathMessages
    BY SMT DEF PathMessages
  <1>2. /\ a \in Nat /\ 3 <= a /\ a <= 255
        /\ size \in Nat /\ size <= 1460
    BY MessagesAssumption, SMT
  <1> QED  BY <1>1, <1>2, SMT DEF RecvMessage

\* Any other message of the device
LEMMA EventFacts ==
    ASSUME NEW m \in Events
    PROVE  /\ m \in PathMessages /\ m.type = HCI_TYPE_EVENT
           /\ m.op # HCI_CMND_RECV
           /\ m.args \in Nat /\ m.args <= 245 /\ m.n = 0
           /\ m.op \in {HCI_CMND_BSD_SELECT, HCI_CMND_ACCEPT} => m.args >= 16
  BY MessagesAssumption, SMT DEF PathMessages

\* The lengths of the messages, by their types
LEMMA MessageFacts ==
    ASSUME NEW m \in PathMessages, m # NoMessage
    PROVE  /\ m.type \in {HCI_TYPE_EVENT, HCI_TYPE_DATA}
           /\ m.args \in Nat /\ m.args <= 255 /\ m.n \in Nat /\ m.n <= 1460
           /\ m.type = HCI_TYPE_EVENT =>
                 /\ MessageLength(m) = 5 + m.args /\ m.args <= 245
                 /\ m.op \in {HCI_CMND_BSD_SELECT, HCI_CMND_ACCEPT} =>
                       m.args >= 16
                 /\ m.op = HCI_CMND_RECV => m.args = 12
           /\ m.type = HCI_TYPE_DATA =>
                 /\ MessageLength(m) = 5 + m.args + m.n /\ 3 <= m.args
                 /\ m.op # HCI_CMND_RECV
  <1> USE TypeValues
  <1>1. CASE m \in Events
    <2>1. MessageLength(m) = 5 + m.args
      BY <1>1, EventFacts, SMT DEF MessageLength, HCI_ARGS_OFFSET
    <2> QED  BY <1>1, <2>1, EventFacts, SMT
  <1>2. ASSUME NEW size \in RecvSizes, m = RecvReply(size)
        PROVE  /\ m.type = HCI_TYPE_EVENT /\ m.op = HCI_CMND_RECV
               /\ m.args = 12 /\ m.n \in Nat /\ m.n <= 1460
               /\ MessageLength(m) = 5 + m.args
    BY <1>2, ReplyFacts, SMT DEF MessageLength, HCI_ARGS_OFFSET
  <1>3. ASSUME NEW a \in RecvArgs, NEW size \in RecvSizes \ {0},
               m = RecvMessage(a, size)
        PROVE  /\ m.type = HCI_TYPE_DATA /\ m.op # HCI_CMND_RECV
               /\ m.args \in Nat /\ 3 <= m.args /\ m.args <= 255
               /\ m.n \in Nat /\ m.n <= 1460
               /\ MessageLength(m) = 5 + m.args + m.n
    BY <1>3, DataFacts, SMT DEF MessageLength, HCI_ARGS_OFFSET
  <1>4. \/ m \in Events \/ \E size \in RecvSizes : m = RecvReply(size)
        \/ \E a \in RecvArgs, size \in RecvSizes \ {0} : m = RecvMessage(a, size)
    BY SMT DEF PathMessages
  <1> QED  BY <1>1, <1>2, <1>3, <1>4, SMT

\* The buffers have 250 positions.
LEMMA PositionFacts ==
    /\ \A i : i \in Positions <=> i \in Int /\ 0 <= i /\ i <= 249
    /\ \A buffer, i : i \in Positions => Byte(buffer, i) = buffer[i]
    /\ \A buffer \in Buffers : \A i : Byte(buffer, i) \in Positions \cup {Stale}
  <1>1. \A i : i \in Positions <=> i \in Int /\ 0 <= i /\ i <= 249
    BY SMT DEF Positions, CC300_SPI_RX_BUFFER_SIZE
  <1> QED  BY <1>1, SMT DEF Byte, Buffers

\* What cc3000_set_return copies, as far as it is inside the buffers
LEMMA SetReturn ==
    ASSUME NEW data \in Buffers, NEW offset \in Nat, NEW size \in Nat,
           cc3000_set_return(data, offset, size)
    PROVE  /\ ret' \in Buffers
           /\ size <= 255 =>
                 \A i \in Nat : i < size /\ offset + i <= 249 =>
                    ret'[i] = data[offset + i]
  <1>1. ret' = [i \in Positions |->
                  IF i < size % 256 THEN Byte(data, offset + i) ELSE Stale]
    BY SMT DEF cc3000_set_return
  <1>2. ret' \in Buffers
    BY <1>1, PositionFacts, SMT DEF Buffers
  <1>3. ASSUME size <= 255, NEW i \in Nat, i < size, offset + i <= 249
        PROVE  ret'[i] = data[offset + i]
    <2>1. size % 256 = size
      BY <1>3, SMT
    <2>2. i \in Positions /\ offset + i \in Positions
      BY <1>3, PositionFacts, SMT
    <2> QED  BY <1>1, <1>3, <2>1, <2>2, PositionFacts, SMT
  <1> QED  BY <1>2, <1>3, SMT

\* The handler stores a message at its place, or leaves what is stored.
LEMMA Handler ==
    ASSUME NEW data \in Buffers, NEW m \in PathMessages, m # NoMessage,
           RxHolds(data, m), cc3000_event_handler(data, m)
    PROVE  \/ /\ ret' \in Buffers /\ stored' = m /\ RetHolds(ret', m)
              /\ m.type = HCI_TYPE_EVENT => ~ IsEvent(m.op)
           \/ /\ UNCHANGED <<ret, stored>> /\ m.type = HCI_TYPE_EVENT
              /\ m.op # HCI_CMND_RECV
  <1> USE TypeValues
  <1>1. CASE m.type = HCI_TYPE_EVENT /\ StoreEvent(data, m)
    <2>1. cc3000_set_return(data, 5, m.args) /\ stored' = m /\ ~ IsEvent(m.op)
      BY <1>1, SMT DEF StoreEvent, HCI_ARGS_OFFSET, IsEvent
    <2>2. /\ m.args \in Nat /\ m.args <= 245 /\ MessageLength(m) = 5 + m.args
      BY <1>1, MessageFacts, SMT
    <2>3. /\ ret' \in Buffers
          /\ \A i \in Nat : i < m.args /\ 5 + i <= 249 => ret'[i] = data[5 + i]
      BY <2>1, <2>2, SetReturn, SMT
    <2>4. \A i \in Nat : i < 5 + m.args => data[i] = i
      BY <1>1, <2>2, SMT DEF RxHolds, Whole
    <2>5. ASSUME NEW i \in Nat, i < m.args PROVE ret'[i] = 5 + i
      <3>1. 5 + i \in Nat /\ 5 + i < 5 + m.args /\ 5 + i <= 249
        BY <2>2, <2>5, SMT
      <3>2. data[5 + i] = 5 + i
        BY <2>4, <3>1
      <3>3. ret'[i] = data[5 + i]
        BY <2>3, <2>5, <3>1, SMT
      <3> QED  BY <3>2, <3>3
    <2> QED  BY <1>1, <2>1, <2>3, <2>5, SMT DEF RetHolds
  <1>2. CASE /\ m.type = HCI_TYPE_EVENT
             /\ IsEvent(m.op) \/ m.op \notin NormalEvents
             /\ UNCHANGED <<ret, stored>>
    BY <1>2, RecvStored, SMT
  <1>3. CASE /\ m.type = HCI_TYPE_DATA
             /\ cc3000_set_return(data, 2, DataSize(m))
             /\ stored' = m
    <2>1. /\ m.args \in Nat /\ 3 <= m.args /\ m.n \in Nat
          /\ MessageLength(m) = 5 + m.args + m.n
      BY <1>3, MessageFacts, SMT
    <2>2. DataSize(m) \in Nat /\ DataSize(m) = m.args + m.n + m.args
      BY <2>1, SMT DEF DataSize
    <2>3. /\ ret' \in Buffers
          /\ DataSize(m) <= 255 =>
               \A i \in Nat : i < DataSize(m) /\ 2 + i <= 249 =>
                  ret'[i] = data[2 + i]
      BY <1>3, <2>2, SetReturn, SMT
    <2>4. ASSUME CopyFits(m), NEW i \in Nat, i < m.args + m.n + 3
          PROVE  ret'[i] = 2 + i
      <3>1. 2 + (m.args + m.n + m.args) <= 250
        BY <2>2, <2>4, SMT DEF CopyFits, CC300_SPI_RX_BUFFER_SIZE
      <3>2. /\ 2 + i \in Nat /\ 2 + i < 5 + m.args + m.n /\ 2 + i <= 249
            /\ i < DataSize(m) /\ DataSize(m) <= 255
        BY <2>1, <2>2, <2>4, <3>1, SMT
      <3>3. data[2 + i] = 2 + i
        BY <1>3, <2>1, <2>4, <3>2, SMT DEF RxHolds, Whole
      <3>4. ret'[i] = data[2 + i]
        BY <2>3, <3>2, SMT
      <3> QED  BY <3>3, <3>4
    <2> QED  BY <1>3, <2>3, <2>4, SMT DEF RetHolds
  <1> QED
    BY <1>1, <1>2, <1>3, SMT DEF cc3000_event_handler, IsEvent

\* A message that is received to its last byte
LEMMA ReceiveFacts ==
    ASSUME NEW m \in PathMessages, m # NoMessage, Receive(m)
    PROVE  /\ UNCHANGED <<stage, cs, padding_byte_required, announced, clocked,
                          args, toStream>>
           /\ MessageIsWhole'
           /\ \/ m.type = HCI_TYPE_DATA /\ UNCHANGED <<rx, inRx, ret, stored>>
              \/ /\ rx' \in Buffers /\ inRx' = m /\ RxHolds(rx', m)
                 /\ cc3000_event_handler(rx', m)
  <1> USE TypeValues
  <1> DEFINE length == MessageLength(m)
  <1>1. cc3000_spi_receive(length)
    BY SMT DEF Receive
  <1>2. /\ length \in Nat /\ length >= 5
        /\ Whole(m) => length <= 250
        /\ m.type = HCI_TYPE_EVENT => Whole(m)
    BY MessageFacts, SMT DEF Whole, CopyFits, DataSize, CC300_SPI_RX_BUFFER_SIZE
  <1>3. UNCHANGED <<stage, cs, padding_byte_required, announced, clocked, args,
                    toStream>>
    BY <1>1, Zenon DEF cc3000_spi_receive
  <1>4. PICK spi_length \in Nat : spi_length = length % 256 /\ spi_length <= 255
    BY <1>2, SMT
  <1>5. \/ /\ spi_length > 250 \/ spi_length = 0
           /\ received' = [length |-> length, taken |-> 0, result |-> 0]
        \/ /\ spi_length <= 250
           /\ received' = [length |-> length, taken |-> spi_length, result |-> 1]
    BY <1>1, <1>4, SMT
    DEF cc3000_spi_receive, SpiLength, CC300_SPI_RX_BUFFER_SIZE
  <1>6. length <= 250 => spi_length = length
    BY <1>2, <1>4, SMT
  <1>7. MessageIsWhole'
    BY <1>2, <1>4, <1>5, <1>6, SMT
    DEF MessageIsWhole, CC300_SPI_RX_BUFFER_SIZE
  <1>8. CASE received'.result = 0
    <2>1. UNCHANGED <<rx, inRx, ret, stored>>
      BY <1>8, SMT DEF Receive
    <2>2. ~ (length <= 250)
      BY <1>2, <1>5, <1>6, <1>8, SMT
    <2>3. m.type = HCI_TYPE_DATA
      BY <1>2, <2>2, MessageFacts, SMT
    <2> QED  BY <1>3, <1>7, <2>1, <2>3, SMT
  <1>9. CASE received'.result # 0
    <2>1. received'.taken = spi_length /\ spi_length <= 250
      BY <1>5, <1>9, SMT
    <2>2. /\ rx' = [i \in Positions |-> IF i < spi_length THEN i ELSE Stale]
          /\ inRx' = m /\ cc3000_event_handler(rx', m)
      BY <1>9, <2>1, SMT DEF Receive
    <2>3. rx' \in Buffers
      BY <2>2, PositionFacts, SMT DEF Buffers
    <2>4. ASSUME Whole(m), NEW i \in Nat, i < length PROVE rx'[i] = i
      <3>1. i \in Positions /\ i < spi_length
        BY <1>2, <1>6, <2>4, PositionFacts, SMT
      <3> QED  BY <2>2, <3>1, SMT
    <2>5. RxHolds(rx', m)
      BY <2>4, SMT DEF RxHolds
    <2> QED  BY <1>3, <1>7, <2>2, <2>3, <2>5, SMT
  <1> QED  BY <1>8, <1>9

-----------------------------------------------------------------------------
(* The invariants.                                                         *)

BufferInv ==
    /\ rx \in Buffers /\ ret \in Buffers
    /\ inRx \in PathMessages /\ stored \in PathMessages
    /\ RxHolds(rx, inRx) /\ RetHolds(ret, stored)

\* The answer to a recv stays stored until its data comes, whatever else is
\* received, and the caller has been told the length of the data that is stored.
RecvInv ==
    /\ numBytes \in Nat \cup {NotAsked} /\ numBytes <= 255
    /\ pending \in {0} \cup RecvSizes
    /\ inRx.type = HCI_TYPE_DATA => numBytes = inRx.n % 256
    /\ stored.type = HCI_TYPE_DATA => numBytes = stored.n % 256
    /\ pending # 0 =>
          /\ stored = RecvReply(pending)
          /\ inRx.type = HCI_TYPE_EVENT
          /\ inRx = RecvReply(pending) \/ IsEvent(inRx.op)
          /\ numBytes = NotAsked \/ numBytes = pending % 256

PathInv ==
    /\ SelectOK /\ LengthsOK /\ FrameInv /\ MessageIsWhole
    /\ BufferInv /\ RecvInv

\* Nothing is sent or received, and the framing is as it was.
LEMMA FramingUnchanged ==
    ASSUME SelectOK, LengthsOK, FrameInv,
           UNCHANGED <<stage, cs, padding_byte_required, announced, clocked,
                       args, toStream>>
    PROVE  SelectOK' /\ LengthsOK' /\ FrameInv'
  <1>1. SelectOK'
    BY Zenon DEF SelectOK
  <1>2. LengthsOK' /\ FrameInv'
    BY SMT DEF LengthsOK, FrameInv, FrameIsWhole
  <1> QED  BY <1>1, <1>2

\* The buffers after a message
LEMMA BufferStep ==
    ASSUME BufferInv, NEW m \in PathMessages, m # NoMessage, Receive(m)
    PROVE  /\ BufferInv'
           /\ \/ m.type = HCI_TYPE_DATA /\ UNCHANGED <<inRx, stored>>
              \/ /\ inRx' = m /\ stored' = m
                 /\ m.type = HCI_TYPE_EVENT => ~ IsEvent(m.op)
              \/ /\ inRx' = m /\ UNCHANGED stored
                 /\ m.type = HCI_TYPE_EVENT /\ m.op # HCI_CMND_RECV
  <1>1. CASE m.type = HCI_TYPE_DATA /\ UNCHANGED <<rx, inRx, ret, stored>>
    BY <1>1, SMT DEF BufferInv, RxHolds, RetHolds
  <1>2. CASE /\ rx' \in Buffers /\ inRx' = m /\ RxHolds(rx', m)
             /\ cc3000_event_handler(rx', m)
    <2>1. PICK data \in Buffers : data = rx'
      BY <1>2
    <2>2. RxHolds(data, m) /\ cc3000_event_handler(data, m)
      BY <1>2, <2>1
    <2>3. \/ /\ ret' \in Buffers /\ stored' = m /\ RetHolds(ret', m)
             /\ m.type = HCI_TYPE_EVENT => ~ IsEvent(m.op)
          \/ /\ UNCHANGED <<ret, stored>> /\ m.type = HCI_TYPE_EVENT
             /\ m.op # HCI_CMND_RECV
      BY <2>2, Handler
    <2>4. ret' \in Buffers /\ stored' \in PathMessages
      BY <2>3, SMT DEF BufferInv
    <2>5. RetHolds(ret', stored')
      BY <2>3, SMT DEF BufferInv
    <2>6. BufferInv'
      BY <1>2, <2>4, <2>5, SMT DEF BufferInv
    <2> QED  BY <1>2, <2>3, <2>6, SMT
  <1> QED  BY <1>1, <1>2, ReceiveFacts

\* No number of bytes is taken for NotAsked.
LEMMA NotAskedFacts ==
    ASSUME NEW n \in Nat
    PROVE  n % 256 \in Nat /\ n % 256 <= 255 /\ n % 256 # NotAsked
  BY SMT DEF NotAsked

\* What the device sends besides the answer to a recv and its data
LEMMA EventStep ==
    ASSUME BufferInv, RecvInv, NEW m \in Events, ReceiveEvent(m)
    PROVE  BufferInv' /\ RecvInv'
  <1> USE TypeValues
  <1>1. m \in PathMessages /\ m.type = HCI_TYPE_EVENT /\ m.op # HCI_CMND_RECV
        /\ m # NoMessage
    BY EventFacts, SMT
  <1>2. /\ pending = 0 \/ IsEvent(m.op)
        /\ Receive(m) /\ UNCHANGED <<pending, numBytes>>
    BY SMT DEF ReceiveEvent, IsEvent
  <1>3. /\ BufferInv'
        /\ inRx' = m
        /\ (stored' = m /\ ~ IsEvent(m.op)) \/ UNCHANGED stored
    BY <1>1, <1>2, BufferStep, SMT
  <1>4. RecvInv'
    BY <1>1, <1>2, <1>3, SMT DEF RecvInv
  <1> QED  BY <1>3, <1>4

\* The answer to a recv
LEMMA ReplyStep ==
    ASSUME BufferInv, RecvInv, NEW size \in RecvSizes, ReceiveReply(size)
    PROVE  BufferInv' /\ RecvInv'
  <1> USE TypeValues
  <1>1. PICK m \in PathMessages : m = RecvReply(size)
    BY ReplyFacts
  <1>2. /\ m.type = HCI_TYPE_EVENT /\ m.op = HCI_CMND_RECV /\ m.n = size
        /\ m # NoMessage
    BY <1>1, ReplyFacts, SMT
  <1>3. Receive(m) /\ pending' = size /\ numBytes' = NotAsked
    BY <1>1, SMT DEF ReceiveReply
  <1>4. BufferInv' /\ inRx' = m /\ stored' = m
    BY <1>2, <1>3, BufferStep, SMT
  <1>5. RecvInv'
    BY <1>1, <1>2, <1>3, <1>4, SMT DEF RecvInv, NotAsked
  <1> QED  BY <1>4, <1>5

\* The data of a recv
LEMMA DataStep ==
    ASSUME BufferInv, RecvInv, NEW a \in RecvArgs, ReceiveData(a)
    PROVE  BufferInv' /\ RecvInv'
  <1> USE TypeValues
  <1>1. pending \in RecvSizes \ {0} /\ numBytes = pending % 256
    BY SMT DEF RecvInv, ReceiveData
  <1>2. PICK size \in RecvSizes \ {0} : size = pending
    BY <1>1
  <1>3. PICK m \in PathMessages : m = RecvMessage(a, size)
    BY DataFacts
  <1>4. m.type = HCI_TYPE_DATA /\ m.n = size /\ m # NoMessage
    BY <1>3, DataFacts, SMT
  <1>5. Receive(m) /\ pending' = 0 /\ numBytes' = numBytes
    BY <1>2, <1>3, SMT DEF ReceiveData
  <1>6. /\ BufferInv'
        /\ UNCHANGED <<inRx, stored>> \/ (inRx' = m /\ stored' = m)
    BY <1>4, <1>5, BufferStep, SMT
  <1>7. RecvInv'
    BY <1>1, <1>2, <1>4, <1>5, <1>6, SMT DEF RecvInv
  <1> QED  BY <1>6, <1>7

\* The handler is given the same message again.
LEMMA AgainStep ==
    ASSUME BufferInv, RecvInv, HandleAgain
    PROVE  BufferInv' /\ RecvInv'
  <1> USE TypeValues
  <1>1. PICK m \in PathMessages : m = inRx
    BY SMT DEF BufferInv
  <1>2. PICK data \in Buffers : data = rx
    BY SMT DEF BufferInv
  <1>3. /\ m # NoMessage /\ cc3000_event_handler(data, m)
        /\ UNCHANGED <<rx, inRx, pending, numBytes>>
    BY <1>1, <1>2, SMT DEF HandleAgain
  <1>4. RxHolds(data, m)
    BY <1>1, <1>2, SMT DEF BufferInv
  <1>5. \/ /\ ret' \in Buffers /\ stored' = m /\ RetHolds(ret', m)
           /\ m.type = HCI_TYPE_EVENT => ~ IsEvent(m.op)
        \/ UNCHANGED <<ret, stored>>
    BY <1>3, <1>4, Handler
  <1>6. ret' \in Buffers /\ stored' \in PathMessages /\ RetHolds(ret', stored')
    BY <1>5, SMT DEF BufferInv
  <1>7. BufferInv'
    BY <1>3, <1>6, SMT DEF BufferInv
  <1>8. RecvInv'
    BY <1>1, <1>3, <1>5, SMT DEF RecvInv
  <1> QED  BY <1>7, <1>8

\* The caller asks how many bytes its recv returned.
LEMMA NumBytesStep ==
    ASSUME BufferInv, RecvInv, cc3000_get_recv_bytes
    PROVE  BufferInv' /\ RecvInv'
  <1> USE TypeValues
  <1>1. PICK m \in PathMessages : m = stored
    BY SMT DEF BufferInv
  <1>2. m # NoMessage /\ m.op = HCI_CMND_RECV /\ numBytes = NotAsked
    BY <1>1, SMT DEF cc3000_get_recv_bytes
  <1>3. m.n \in Nat /\ m.args = 12 /\ m.type = HCI_TYPE_EVENT
    BY <1>2, MessageFacts, SMT
  <1>4. ret[4] = 9
    BY <1>1, <1>3, SMT DEF BufferInv, RetHolds
  <1>5. cc3000_get_return_uint8(4) = 9
    BY <1>4, PositionFacts, SMT DEF cc3000_get_return_uint8
  <1>6. /\ numBytes' = m.n % 256
        /\ UNCHANGED <<rx, ret, inRx, stored, pending>>
    BY <1>1, <1>5, SMT DEF cc3000_get_recv_bytes, HCI_ARGS_OFFSET
  <1>7. BufferInv'
    BY <1>6, SMT DEF BufferInv, RxHolds, RetHolds
  <1>8. inRx.type # HCI_TYPE_DATA /\ stored.type # HCI_TYPE_DATA
    <2>1. ASSUME NEW n \in PathMessages, n.type = HCI_TYPE_DATA,
                 numBytes = n.n % 256
          PROVE  FALSE
      BY <1>2, <2>1, MessageFacts, NotAskedFacts, SMT
    <2> QED  BY <2>1, SMT DEF BufferInv, RecvInv
  <1>9. pending # 0 => m.n = pending
    BY <1>1, ReplyFacts, SMT DEF RecvInv
  <1>10. RecvInv'
    BY <1>3, <1>6, <1>8, <1>9, NotAskedFacts, SMT DEF RecvInv
  <1> QED  BY <1>7, <1>10

-----------------------------------------------------------------------------
(* The specification.                                                      *)

\* At the start both buffers are empty.
LEMMA InitPath == Init => PathInv
  <1> SUFFICES ASSUME Init PROVE PathInv
    OBVIOUS
  <1> USE TypeValues
  <1>1. SelectOK /\ LengthsOK /\ FrameInv
    BY InitFrame DEF Init
  <1>2. MessageIsWhole
    BY SMT DEF Init, FramingInit, MessageIsWhole, NothingReceived,
               CC300_SPI_RX_BUFFER_SIZE
  <1>3. EmptyBuffer \in Buffers
    BY SMT DEF EmptyBuffer, Buffers
  <1>4. BufferInv
    BY <1>3, SMT
    DEF Init, BufferInv, PathMessages, RxHolds, RetHolds, Whole
  <1>5. RecvInv
    BY SMT DEF Init, RecvInv, NotAsked
  <1> QED  BY <1>1, <1>2, <1>4, <1>5 DEF PathInv

\* One step of the program
LEMMA StepPath == PathInv /\ [Next]_vars => PathInv'
  <1> SUFFICES ASSUME PathInv, [Next]_vars PROVE PathInv'
    OBVIOUS
  <1> USE DEF PathInv
  <1>1. CASE SendSteps /\ UNCHANGED pathVars
    <2>1. SelectOK'
      BY <1>1, SelectStep
    <2>2. LengthsOK' /\ FrameInv'
      BY <1>1, FrameStep
    <2>3. UNCHANGED received
      BY <1>1, SMT
      DEF SendSteps, cc3000_hci_start_command, cc3000_hci_send_command,
          cc3000_hci_start_data, cc3000_hci_send_data, StartFrame,
          StreamArguments, EndFrame, Return
    <2>4. MessageIsWhole'
      BY <2>3, SMT DEF MessageIsWhole
    <2>5. BufferInv' /\ RecvInv'
      BY <1>1, SMT DEF pathVars, BufferInv, RxHolds, RetHolds, RecvInv
    <2> QED  BY <2>1, <2>2, <2>4, <2>5
  <1>2. ASSUME NEW m \in PathMessages, m # NoMessage, Receive(m)
        PROVE  SelectOK' /\ LengthsOK' /\ FrameInv' /\ MessageIsWhole'
    BY <1>2, ReceiveFacts, FramingUnchanged
  <1>3. ASSUME NEW m \in Events, ReceiveEvent(m) PROVE PathInv'
    <2>1. m \in PathMessages /\ m # NoMessage /\ Receive(m)
      BY <1>3, EventFacts, TypeValues, SMT DEF ReceiveEvent
    <2> QED  BY <1>2, <1>3, <2>1, EventStep
  <1>4. ASSUME NEW size \in RecvSizes, ReceiveReply(size) PROVE PathInv'
    <2>1. PICK m \in PathMessages : m = RecvReply(size)
      BY ReplyFacts
    <2>2. m # NoMessage
      BY <2>1, ReplyFacts, TypeValues, SMT
    <2>3. Receive(m)
      BY <1>4, <2>1, SMT DEF ReceiveReply
    <2> QED  BY <1>2, <1>4, <2>2, <2>3, ReplyStep
  <1>5. ASSUME NEW a \in RecvArgs, ReceiveData(a) PROVE PathInv'
    <2>1. PICK size \in RecvSizes \ {0} : size = pending
      BY <1>5, SMT DEF ReceiveData, RecvInv
    <2>2. PICK m \in PathMessages : m = RecvMessage(a, size)
      BY DataFacts
    <2>3. m # NoMessage
      BY <2>2, DataFacts, TypeValues, SMT
    <2>4. Receive(m)
      BY <1>5, <2>1, <2>2, SMT DEF ReceiveData
    <2> QED  BY <1>2, <1>5, <2>3, <2>4, DataStep
  <1>6. ASSUME UNCHANGED framingVars
        PROVE  SelectOK' /\ LengthsOK' /\ FrameInv' /\ MessageIsWhole'
    <2>1. UNCHANGED <<stage, cs, padding_byte_required, announced, clocked,
                      args, toStream>>
      BY <1>6, Zenon DEF framingVars
    <2>2. UNCHANGED received
      BY <1>6, Zenon DEF framingVars
    <2>3. MessageIsWhole'
      BY <2>2, SMT DEF MessageIsWhole
    <2> QED  BY <2>1, <2>3, FramingUnchanged
  <1>7. CASE HandleAgain
    BY <1>6, <1>7, AgainStep DEF HandleAgain
  <1>8. CASE cc3000_get_recv_bytes
    BY <1>6, <1>8, NumBytesStep DEF cc3000_get_recv_bytes
  <1>9. CASE UNCHANGED vars
    <2>1. UNCHANGED framingVars /\ UNCHANGED pathVars
      BY <1>9, Zenon DEF vars
    <2>2. BufferInv' /\ RecvInv'
      BY <2>1, SMT DEF pathVars, BufferInv, RxHolds, RetHolds, RecvInv
    <2> QED  BY <1>6, <2>1, <2>2
  <1> QED
    BY <1>1, <1>3, <1>4, <1>5, <1>7, <1>8, <1>9, Zenon DEF Next

\* The invariant of the specification
LEMMA PathInvCorrect == Spec => []PathInv
  BY InitPath, StepPath, PTL DEF Spec

\* The state of the framing and of the buffers is well-formed: CS is asserted
\* exactly while a frame is open, the padding byte is one or none, and the
\* number of bytes a caller is told is a uint8.
THEOREM TypeCorrect == Spec => []TypeOK
  <1>1. PathInv => TypeOK
    BY SMT DEF PathInv, TypeOK, FramingTypeOK, BufferInv, RecvInv
  <1> QED  BY <1>1, PathInvCorrect, PTL

\* Every function of the API sends what it announces, for every command and
\* every length: cc3000_hci.c and cc3000_spi.c agree on the padding byte.
THEOREM FrameIsWholeCorrect == Spec => []FrameIsWhole
  <1>1. PathInv => FrameIsWhole
    BY DEF PathInv, FrameInv
  <1> QED  BY <1>1, PathInvCorrect, PTL

\* A message that fits the receive buffer is read to its last byte.
THEOREM MessageIsWholeCorrect == Spec => []MessageIsWhole
  <1>1. PathInv => MessageIsWhole
    BY DEF PathInv
  <1> QED  BY <1>1, PathInvCorrect, PTL

\* The collecting functions read the arguments of the answer that was stored,
\* each at its place, whatever was received since.
THEOREM ArgumentsReadCorrect == Spec => []ArgumentsRead
  <1>1. ASSUME PathInv PROVE ArgumentsRead
    <2> SUFFICES ASSUME stored.type = HCI_TYPE_EVENT PROVE ArgumentsRead
      BY SMT DEF ArgumentsRead
    <2>1. PICK m \in PathMessages : m = stored
      BY <1>1, SMT DEF PathInv, BufferInv
    <2>2. /\ m.args \in Nat /\ m.args <= 245
          /\ m.op \in {HCI_CMND_BSD_SELECT, HCI_CMND_ACCEPT} => m.args >= 16
      BY <2>1, MessageFacts, TypeValues, SMT
    <2>3. \A i \in Nat : i < m.args => ret[i] = 5 + i
      BY <1>1, <2>1, SMT DEF PathInv, BufferInv, RetHolds
    <2>4. \A i \in Nat : i < m.args => Byte(ret, i) = 5 + i
      BY <2>2, <2>3, PositionFacts, SMT
    <2>5. ASSUME NEW offset \in Nat, NEW count \in Nat,
                 offset + count <= m.args
          PROVE  cc3000_get_return_stream(offset, count)
                     = Arguments(offset, count)
      <3>1. ASSUME NEW i \in 1..count
            PROVE  Byte(ret, offset + i - 1) = 5 + offset + i - 1
        <4>1. offset + i - 1 \in Nat /\ offset + i - 1 < m.args
          BY <2>2, <2>5, SMT
        <4> QED  BY <2>4, <4>1, SMT
      <3> QED
        BY <3>1, SMT
        DEF cc3000_get_return_stream, Arguments, HCI_ARGS_OFFSET
    <2>6. ASSUME NEW offset \in Nat, offset + 4 <= m.args
          PROVE  /\ cc3000_get_return_uint32(offset) = Arguments(offset, 4)
                 /\ cc3000_get_return_int32(offset) = Arguments(offset, 4)
      <3>1. cc3000_get_return_stream(offset, 4) = Arguments(offset, 4)
        BY <2>5, <2>6, SMT
      <3> QED
        BY <3>1, SMT
        DEF cc3000_get_return_stream, cc3000_get_return_uint32,
            cc3000_get_return_int32
    <2>7. cc3000_get_return_stream(0, stored.args) = Arguments(0, stored.args)
      BY <2>1, <2>2, <2>5, SMT
    <2>8. \A offset \in 0..(stored.args - 4) :
             cc3000_get_return_int32(offset) = Arguments(offset, 4)
      BY <2>1, <2>2, <2>6, SMT
    <2>9. stored.op = HCI_CMND_BSD_SELECT =>
             cc3000_get_select =
                 [ status |-> Arguments(0, 4), read   |-> Arguments(4, 4),
                   write  |-> Arguments(8, 4), except |-> Arguments(12, 4) ]
      <3> SUFFICES ASSUME m.args >= 16
                   PROVE  cc3000_get_select =
                            [ status |-> Arguments(0, 4),
                              read   |-> Arguments(4, 4),
                              write  |-> Arguments(8, 4),
                              except |-> Arguments(12, 4) ]
        BY <2>1, <2>2, SMT
      <3>1. /\ cc3000_get_return_int32(0) = Arguments(0, 4)
            /\ cc3000_get_return_uint32(4) = Arguments(4, 4)
            /\ cc3000_get_return_uint32(8) = Arguments(8, 4)
            /\ cc3000_get_return_uint32(12) = Arguments(12, 4)
        BY <2>2, <2>6, SMT
      <3> QED  BY <3>1, Zenon DEF cc3000_get_select
    <2>10. stored.op = HCI_CMND_ACCEPT =>
              cc3000_get_accecpt =
                  [ sd |-> Arguments(4, 4), addr |-> Arguments(8, 8) ]
      <3> SUFFICES ASSUME m.args >= 16
                   PROVE  cc3000_get_accecpt =
                            [ sd |-> Arguments(4, 4), addr |-> Arguments(8, 8) ]
        BY <2>1, <2>2, SMT
      <3>1. cc3000_get_return_int32(4) = Arguments(4, 4)
        BY <2>2, <2>6, SMT
      <3>2. cc3000_get_return_stream(0, 16) = Arguments(0, 16)
        BY <2>2, <2>5, SMT
      <3>3. [i \in 1..8 |-> Arguments(0, 16)[8 + i]] = Arguments(8, 8)
        BY SMT DEF Arguments, HCI_ARGS_OFFSET
      <3> QED  BY <3>1, <3>2, <3>3, Zenon DEF cc3000_get_accecpt
    <2> QED  BY <2>7, <2>8, <2>9, <2>10, Zenon DEF ArgumentsRead
  <1> QED  BY <1>1, PathInvCorrect, PTL

\* The data of a recv is collected whole and in order, for every length that
\* leaves room for the copy.
THEOREM RecvDataWholeCorrect == Spec => []RecvDataWhole
  <1>1. ASSUME PathInv PROVE RecvDataWhole
    <2> SUFFICES ASSUME stored.type = HCI_TYPE_DATA, CopyFits(stored)
                 PROVE  RecvDataWhole
      BY SMT DEF RecvDataWhole
    <2>1. PICK m \in PathMessages : m = stored
      BY <1>1, SMT DEF PathInv, BufferInv
    <2>2. m.args \in Nat /\ 3 <= m.args /\ m.n \in Nat
      BY <2>1, MessageFacts, TypeValues, SMT
    <2>3. 2 + m.args + m.n + m.args <= 250
      BY <2>1, <2>2, SMT DEF CopyFits, DataSize, CC300_SPI_RX_BUFFER_SIZE
    <2>4. \A i \in Nat : i < m.args + m.n + 3 => ret[i] = 2 + i
      BY <1>1, <2>1, SMT DEF PathInv, BufferInv, RetHolds
    <2>5. numBytes = m.n
      <3>1. numBytes = m.n % 256
        BY <1>1, <2>1, SMT DEF PathInv, RecvInv
      <3> QED  BY <2>2, <2>3, <3>1, SMT
    <2>6. \A i \in Nat : i < m.args + m.n + 3 => Byte(ret, i) = 2 + i
      BY <2>2, <2>3, <2>4, PositionFacts, SMT
    <2>7. cc3000_get_return_uint8(0) = 2
      BY <2>2, <2>6, SMT DEF cc3000_get_return_uint8
    <2>8. ASSUME NEW i \in 1..m.n
          PROVE  Byte(ret, m.args + 3 + i - 1) = 5 + m.args + i - 1
      <3>1. m.args + 3 + i - 1 \in Nat /\ m.args + 3 + i - 1 < m.args + m.n + 3
        BY <2>2, SMT
      <3> QED  BY <2>2, <2>6, <3>1, SMT
    <2>9. cc3000_get_recv_data(m.n)
            = [i \in 1..m.n |-> Byte(ret, m.args + 3 + i - 1)]
      BY <2>1, <2>7, SMT DEF cc3000_get_recv_data, cc3000_get_return_stream
    <2>10. cc3000_get_recv_data(m.n) = [i \in 1..m.n |-> 5 + m.args + i - 1]
      BY <2>8, <2>9, SMT
    <2> QED  BY <2>1, <2>5, <2>10, SMT DEF RecvDataWhole, HCI_ARGS_OFFSET
  <1> QED  BY <1>1, PathInvCorrect, PTL
=============================================================================
