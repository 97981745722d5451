----------------------------- MODULE SpiFraming -----------------------------
(***************************************************************************)
(* cc3000_spi.c and the frame functions of cc3000_hci.c: the lengths that  *)
(* go over the bus.  A frame to the device begins with the length of what  *)
(* follows, made even with a padding byte; the command or data inside it   *)
(* announces the length of its arguments again.  The bytes themselves are  *)
(* left out, their number is kept.  ReceivePath adds what becomes of a     *)
(* message that is received.                                               *)
(***************************************************************************)
EXTENDS HciCommands

CONSTANTS
    Commands,       \* the commands sent, as defined in HciCommands
    SendLengths     \* the lengths cc3000_send is called with

\* cc3000_setsockopt announces bytes it does not send unless the option has two
\* or four: such a call is not made.
ASSUME CommandsAssumption ==
    \A c \in Commands : c.args \in Nat /\ c.args <= 255 /\ c.sent = c.args
\* The whole frame fits the uint16 of its length.
ASSUME LengthsAssumption ==
    \A length \in SendLengths : length \in Nat /\ length <= 65000

VARIABLES
    stage,                  \* "idle", "opened", "streamed" or "ended"
    cs,                     \* CS is asserted
    padding_byte_required,  \* the global of cc3000_hci.c
    announced,              \* the length in the header of the SPI frame
    clocked,                \* the bytes clocked after that header
    args,                   \* the argument length in the HCI header
    toStream,               \* the argument bytes the API function streams
    received                \* the last cc3000_spi_receive

framingVars == <<stage, cs, padding_byte_required, announced, clocked, args,
                 toStream, received>>

CC3000_SPI_HEADER_SIZE == 5
CC300_SPI_RX_BUFFER_SIZE == 250
HCI_COMMAND_HEADER_LENGTH == 4
HCI_DATA_HEADER_LENGTH == 5

NothingReceived == [length |-> 0, taken |-> 0, result |-> 0]

FramingInit ==
    /\ stage = "idle" /\ cs = FALSE
    /\ padding_byte_required = 0
    /\ announced = 0 /\ clocked = 0 /\ args = 0 /\ toStream = 0
    /\ received = NothingReceived

-----------------------------------------------------------------------------
(* Sending.  The lengths are uint16.                                       *)

PaddingRequired(hci_length) == (CC3000_SPI_HEADER_SIZE + hci_length) % 2

\* A defective variant: the padding byte is not counted.
LengthWithoutPadding(hci_length) == hci_length % 65536

LengthAnnounced(hci_length) ==
    (hci_length + PaddingRequired(hci_length)) % 65536

cc3000_spi_start_send(hci_length) ==
    /\ cs' = TRUE
    /\ announced' = LengthAnnounced(hci_length)

\* after the HCI header, "header" bytes are clocked
StartFrame(hci_length, header, arguments, sent) ==
    /\ stage = "idle"
    /\ cc3000_spi_start_send(hci_length)
    /\ clocked' = header
    /\ args' = arguments
    /\ toStream' = sent
    /\ stage' = "opened"
    /\ UNCHANGED received

cc3000_hci_start_command(command) ==
    LET hci_length == HCI_COMMAND_HEADER_LENGTH + command.args
    IN  /\ StartFrame(hci_length, HCI_COMMAND_HEADER_LENGTH, command.args,
                      command.sent)
        /\ padding_byte_required' = PaddingRequired(hci_length)

\* cc3000_send: 16 bytes of arguments, then the data
SEND_ARGS_LENGTH == 16
cc3000_hci_start_data(data_length) ==
    LET payload_length == (SEND_ARGS_LENGTH + data_length) % 65536
        hci_length == (HCI_DATA_HEADER_LENGTH + payload_length) % 65536
    IN  /\ StartFrame(hci_length, HCI_DATA_HEADER_LENGTH, payload_length,
                      cc3000_hci_send_uint32(4) +
                          cc3000_hci_send_uint8(data_length))
        /\ padding_byte_required' = PaddingRequired(hci_length)

\* the stream functions the API function calls
StreamArguments ==
    /\ stage = "opened"
    /\ clocked' = clocked + toStream
    /\ stage' = "streamed"
    /\ UNCHANGED <<cs, padding_byte_required, announced, args, toStream,
                   received>>

\* A defective variant: CS stays asserted.
FinishSendSelected(padding) ==
    /\ clocked' = clocked + padding
    /\ UNCHANGED cs

cc3000_spi_finish_send(padding) ==
    /\ clocked' = clocked + padding
    /\ cs' = FALSE

\* cc3000_hci_end_command and cc3000_hci_end_data
EndFrame ==
    /\ stage = "streamed"
    /\ cc3000_spi_finish_send(padding_byte_required)
    /\ stage' = "ended"
    /\ UNCHANGED <<padding_byte_required, announced, args, toStream, received>>

\* cc3000_hci_send_command: the frame in one call, with a padding byte of its
\* own; cc3000_start clocks out its only frame the same way.
cc3000_hci_send_command(command) ==
    LET hci_length == HCI_COMMAND_HEADER_LENGTH + command.args
    IN  /\ stage = "idle" /\ cs' = FALSE
        /\ announced' = LengthAnnounced(hci_length)
        /\ clocked' = HCI_COMMAND_HEADER_LENGTH + command.sent
                          + PaddingRequired(hci_length)
        /\ args' = command.args
        /\ toStream' = command.sent
        /\ stage' = "ended"
        /\ UNCHANGED <<padding_byte_required, received>>

\* cc3000_hci_send_data: the same for data, with arguments and data in one call.
\* No function of the API uses it.
cc3000_hci_send_data(args_length, data_length) ==
    LET payload_length == (args_length + data_length) % 65536
        hci_length == (HCI_DATA_HEADER_LENGTH + payload_length) % 65536
    IN  /\ stage = "idle" /\ cs' = FALSE
        /\ announced' = LengthAnnounced(hci_length)
        /\ clocked' = HCI_DATA_HEADER_LENGTH + args_length + data_length
                          + PaddingRequired(hci_length)
        /\ args' = payload_length
        /\ toStream' = args_length + data_length
        /\ stage' = "ended"
        /\ UNCHANGED <<padding_byte_required, received>>

\* The API function returns.
Return ==
    /\ stage = "ended"
    /\ stage' = "idle"
    /\ announced' = 0 /\ clocked' = 0 /\ args' = 0 /\ toStream' = 0
    /\ UNCHANGED <<cs, padding_byte_required, received>>

-----------------------------------------------------------------------------
(* Receiving.                                                              *)

\* "spi_length" is a uint8: the high byte of the length is shifted out.
SpiLength(length) == length % 256

\* A defective variant: a message that fills the buffer is refused.
SpiReceiveOneLess(length) ==
    /\ stage = "idle"
    /\ LET spi_length == SpiLength(length)
       IN  IF spi_length >= CC300_SPI_RX_BUFFER_SIZE \/ spi_length = 0
           THEN received' = [length |-> length, taken |-> 0, result |-> 0]
           ELSE received' = [length |-> length, taken |-> spi_length,
                             result |-> 1]
    /\ UNCHANGED <<stage, cs, padding_byte_required, announced, clocked, args,
                   toStream>>

\* Refused, with CS released and 0 returned, when it does not fit.
cc3000_spi_receive(length) ==
    /\ stage = "idle"
    /\ LET spi_length == SpiLength(length)
       IN  IF spi_length > CC300_SPI_RX_BUFFER_SIZE \/ spi_length = 0
           THEN received' = [length |-> length, taken |-> 0, result |-> 0]
           ELSE received' = [length |-> length, taken |-> spi_length,
                             result |-> 1]
    /\ UNCHANGED <<stage, cs, padding_byte_required, announced, clocked, args,
                   toStream>>

SendSteps ==
    \/ \E command \in Commands : cc3000_hci_start_command(command)
    \/ \E command \in {cc3000_general_req_buffer_size, cc3000_start_command} :
          cc3000_hci_send_command(command)
    \/ \E length \in SendLengths : cc3000_hci_start_data(length)
    \/ \E length \in SendLengths :
          cc3000_hci_send_data(SEND_ARGS_LENGTH, length)
    \/ StreamArguments
    \/ EndFrame
    \/ Return

-----------------------------------------------------------------------------
(* Properties.                                                             *)

\* CS is asserted exactly while a frame is open.
SelectOK ==
    /\ stage \in {"idle", "opened", "streamed", "ended"}
    /\ cs \in BOOLEAN /\ (cs <=> stage \in {"opened", "streamed"})

\* The padding byte is 0 or 1, and the lengths fit their types.
LengthsOK ==
    /\ padding_byte_required \in {0, 1}
    /\ announced \in Nat /\ announced <= 65535
    /\ args \in Nat /\ args <= 65535
    /\ clocked \in Nat /\ toStream \in Nat

FramingTypeOK == SelectOK /\ LengthsOK

\* Every function of the API sends what it announces: when its frame ends, the
\* device has been clocked exactly the bytes of the SPI header, which are even
\* in number with that header, and exactly the arguments of the HCI header.
FrameIsWhole ==
    stage = "ended" =>
        /\ clocked = announced
        /\ (CC3000_SPI_HEADER_SIZE + announced) % 2 = 0
        /\ toStream = args

\* A message that fits the receive buffer is read to its last byte.
MessageIsWhole ==
    received.length \in 1..CC300_SPI_RX_BUFFER_SIZE =>
        received.result = 1 /\ received.taken = received.length

\* A message that does not fit the receive buffer is refused.
OversizeRefused ==
    received.length > CC300_SPI_RX_BUFFER_SIZE => received.result = 0
=============================================================================
