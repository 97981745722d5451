# A TLA+ model of cc3000-async

cc3000-async is a host driver, in C, for the CC3000 wireless module: a thread
calls an API, the API clocks commands over an SPI bus, and answers and events
come back when the module pulls its IRQ line. "async" is the point of the
driver: an API function only sends; it counts the request, names the opcode of
the answer it expects, and returns. Whoever receives messages hands them to one
event handler, and the caller polls whether the two counters agree.

The hard part is not any one function but what happens between them: messages
arrive between two lines of an API function, in any order relative to what the
caller does, and across restarts of the module. That is what is modelled here.

## Inventory

| Component | Source | State | Operations | Correct when |
|---|---|---|---|---|
| event handler | `cc3000_event_handler.c` | `cc3000_desired_state`, `cc3000_current_state`, return buffer, `cc3000_close_socket` | `cc3000_event_handler`, `cc3000_is_ready`, `cc3000_wait`, `cc3000_set_return`, the `get_return` functions | a request is ready exactly when its answer was handled; the return buffer then holds that answer |
| HCI layer | `cc3000_hci.c` | `cc3000_expect`, `padding_byte_required` | start, stream and end of command and data frames, `cc3000_hci_expect` | what a frame announces is what it carries |
| SPI layer | `cc3000_spi.c` | `cc3000_spi_rx_buffer` | `cc3000_spi_start_send`, `cc3000_spi_finish_send`, `cc3000_spi_receive` | one user of the bus at a time; even frames; messages read whole or refused |
| platform | `cc3000_platform.c` | `cc3000_isr_flag` | interrupt enable and disable, pins, SPI bytes (empty stubs) | no edge of the IRQ line is lost |
| power, buffers | `cc3000_general.c` | `cc3000_state`, `cc3000_free_buffers`, `cc3000_buffer_length` | `cc3000_start`, `cc3000_stop`, the buffer size | a restart leaves the host and the module in agreement |
| socket API | `cc3000_socket.c` | `socket_active_status` | requests, `cc3000_send`, `cc3000_get_recv_bytes`, `cc3000_get_accecpt`, `cc3000_socket_close`, ... | no buffer used twice or forgotten; received data is what was asked for; a socket held for active exists |
| WLAN and netapp API | `cc3000_wlan.c`, `cc3000_netapp.c` | none of their own | requests; scan results | as the HCI layer |
| main loop | `_main.c` | `one_time_call` | poll, receive, handle, flow handler | every message handled once, every request completes |
| interrupt handler, flow handler | not in the repository | - | call `cc3000_spi_receive`; call the API | - |

They interact through globals only. The counters, `cc3000_expect`, the return
buffer and `cc3000_free_buffers` are written both by API functions and by the
event handler, without locks; the one protection is that interrupts are
disabled from the start of a frame to its end.

What is hard: an answer that comes before it is expected, a credit update that
is not atomic, data that overtakes the call that asks for it, a restart with a
request outstanding, messages handled twice by the loop, opcodes that look like
unsolicited events, lengths cut to eight bits, waits without timeouts. Each is
listed in `PROJECT.json` under "hazards" at its line.

## Modules

| Module | Models |
|---|---|
| `HciOpcodes` | opcodes and message types with their values, since the handler tells messages apart by bits of the opcode |
| `HciCommands` | every request function of the API as a record: opcode, announced and streamed argument bytes, expected opcode |
| `AsyncRequest` | abstract: what a caller may rely on, one request at a time, begun, answered once, ready, collected |
| `EventHandler` | the shared globals and `cc3000_event_handler`, branch by branch, as action predicates |
| `Driver` | the calling thread cut at the points an interrupt can come between, power, `cc3000_send`, and the CC3000 as an environment; properties that hold or fail whoever receives |
| `InterruptDriven` | `Driver` with an interrupt handler that may run whenever interrupts are enabled; implements `AsyncRequest` |
| `PolledLoop` | `Driver` under the single-threaded loop of `_main.c`; implements `AsyncRequest` |
| `Sockets` | `socket_active_status` next to the sockets the CC3000 has, over `AsyncRequest` |
| `SpiFraming` | the lengths on the bus, sending and receiving |
| `ReceivePath` | `SpiFraming` with the two buffers a received message goes through, and the functions that read them at fixed offsets |
| `DriverProofs`, `AnswerProofs`, `LinkProofs` | lemmas about `Driver`, whoever receives the messages: types and counters; the answer and the refinement; the link |
| `InterruptDrivenProofs`, `CreditProofs` | theorems about `InterruptDriven`; the buffers of `cc3000_send` |
| `PolledLoopProofs` | theorems about `PolledLoop` |
| `SocketsProofs`, `ReceivePathProofs` | theorems about `Sockets`, `ReceivePath` |
| `MCInterruptDriven`, `MCPolledLoop`, `MCSockets`, `MCReceivePath` | instances for TLC |

`Driver` has one program counter for the caller. A request function is four
steps, `RequestBegin` (`cc3000_desired_state++`), `RequestStartFrame`
(interrupts off), `RequestEndFrame` (the module has the command, interrupts
on), `RequestExpect` (`cc3000_hci_expect`); all request functions are alike
here and differ in the record of `HciCommands` they use. `cc3000_send` is
four steps too, with the decrement of the credit cut into its load and its
store. `cc3000_start` is one step: interrupts are off until its last call.
The module (`DeviceReply`, `DeviceFreesBuffers`, `DeviceLinkMoves`,
`DeviceRaises`) answers commands in order, sends the data of a recv right after
its answer, frees buffers it holds, and moves the link; it is modelled from how
the code uses it. Its messages wait in a queue until the host reads them.

Two interpretations are made because the code they concern is not here:

- The interrupt handler calls `cc3000_spi_receive` and nothing else. It is the
  only function that reads a message, it calls the event handler itself, and
  `cc3000_wait` has an empty loop that could not end otherwise.
- The flow handler, and any caller, waits until a request is ready and collects
  its result before it begins another request, as the comment on
  `cc3000_is_ready` describes. It may give up by powering the module down, and
  it may send data at any time. In `PolledLoop` it has collected what is ready
  when it returns to the loop (`FlowReturns`); nothing in the repository
  enforces this.

`lastHandled` and the `id` and `of` fields are not in the code. They record which
command a message answers, so that a property can tell an answer from a stale
one. `lastHandled` is reset when a request begins. No action's guard reads them.

### The abstract request

`AsyncRequest` is the contract of the API without counters, opcodes or frames:
a request is off, idle, waiting or ready; its answer is delivered once; it can
only become ready in the step that delivers it; and the next one begins when it
has been collected. With `MayLose` the delivery may leave the request waiting.

The refinement mapping is in `Driver`: `Phase` is read off the program counter,
the request under way and `cc3000_is_ready`; `Delivered` says that the handler has
had the awaited message. The four steps of a request function map to `Begin` and
three stutters, the handler to `Answer` or a stutter, `GetRecvBytes` with bytes to
come to `Continue`. `InterruptDriven` implements it with `MayLose = TRUE` (an
answer handled before `cc3000_hci_expect` is lost, see IsrLostReply) and
`PolledLoop` with `MayLose = FALSE`; there the contract's liveness,
`Completes`, is the property `EveryRequestCompletes` of the same run. `Sockets`
is written against this contract, so that its interleavings are those of
requests and not of every byte.

### Sockets

The bits of `socket_active_status` change in `cc3000_get_accecpt` and at the very
end of `cc3000_socket_close`, after the frame and after `cc3000_hci_expect`.
`returning` is the interval in which the close has been sent and the function has
not returned: the module may have closed the socket, and even answered, before the
bit is cleared. `forgotten` is auxiliary: the sockets the module lost without a
close, by a restart or by the inactivity timeout that `cc3000_netapp.c` sets. The
host is told of neither, and its bits stay set: `ActiveMeansOpen` excepts these
sockets by name and says nothing about them; both cases are listed as hazards.
`made` and `handed` are what the caller holds.

### The receive path

A buffer of `ReceivePath` holds, at each position, the position its byte had in
the last message, or `Stale`: enough to tell an argument from a byte of the
header, of an earlier message, or of nothing. The handler copies the arguments of
an event from offset 5. For data it copies from offset 2 and adds the argument
length to a payload length that already contains it, so the copy is longer than
the message: behind 16 bytes of arguments, up to 216 bytes of data stay inside the
250 of both buffers. `RecvDataWhole` is stated for the lengths for which that
holds (`CopyFits`); for longer ones the sum runs out of the buffers or is cut to
eight bits, and no text of the repository says which lengths are meant to work.

## Runs

| Run | Expect | Asks |
|---|---|---|
| IsrSafety | pass | `ImplementsRequest`, `NeverOvertaken`, `NoFalseReady`, `FreshReturn`, `ConnectedFollowsLink`, `AddressNoticed`, `CreditsNeverCreated`, `BusExclusive`, `TypeOK` with interrupts anywhere, one restart, two events waiting, counters modulo 5 |
| IsrLiveness | pass | `ArmedCompletes`: once armed before its answer is handled, a request becomes ready |
| Polled | pass | in the loop the driver implements the request that loses nothing (`ImplementsRequest`, `AnsweredIsReady`, `EveryRequestCompletes`), none is early although messages are handled twice (`NoFalseReady`), what is collected is the answer (`FreshReturn`, `RecvBytesFromAnswer`); `NeverOvertaken`, `ConnectedFollowsLink`, `AddressNoticed` as above; one start |
| Framing | pass | every API function sends what it announces; messages that fit are read whole; the collecting functions read the arguments (`ArgumentsRead`) and the data of a recv (`RecvDataWhole`) at the offsets they use |
| Sockets | pass | `ActiveMeansOpen`, `AcceptedIsActive`: with answers lost, sockets lost and restarts at any point, an active socket exists or was lost without a word, and an accepted connection stays active |
| IsrLostReply | violation | an answer handled before `cc3000_hci_expect` is lost (`cc3000_hci.c:262`) |
| IsrRecvOvertaken | violation | data of a recv replaces the answer (`cc3000_socket.c:463`) |
| IsrRestart | violation | after a restart with a request outstanding nothing is ever ready (`cc3000_general.c:88`) |
| IsrCreditLost | violation | an event inside `cc3000_free_buffers--` is lost (`cc3000_socket.c:389`) |
| PolledCredit | violation | the loop adds freed buffers twice (`_main.c:47`) |
| PolledFalseReady | violation | over restarts, the loop takes the answer to an earlier start for the answer to this one (`_main.c:47`) |
| FramingOversize | violation | long messages are cut, not refused (`cc3000_spi.c:111`) |

Read together: with interrupts, the protocol errs on one side only. The host may
wait for ever or lose buffers, but it never takes a stale message for an answer
and never creates a buffer. In the loop it is the other way round: no answer is
lost, but handling a message again creates buffers and, over restarts, makes a
request ready that the module has not answered.

`AddressNoticed` is one direction only: an address the module has is known or
announced. The other fails, since a disconnection leaves `dhcp_complete` set
(`cc3000_event_handler.c:120`), although `_main.c` reads it as "connected and got
an IP" (lines 54-56). Connect, address, disconnect: three events in a row show it,
so it is listed as a hazard and no run is spent on it. The same goes for the answer to
`READ_BUFFER_SIZE`, which is never stored because of the bits of its opcode
(`cc3000_event_handler.c:90`).

`NoFalseReady` in the loop is checked, in Polled, with `LineLingers = FALSE` and one
start: the IRQ line is low after a frame or a receive only if a message waits. With
`TRUE`, when the line may still be low because CS has only just been released, the
flag makes the loop handle an old message that matches a request just armed, and TLC
refutes it in 23 steps. That depends on how fast the line rises, of which the
repository says nothing. PolledFalseReady needs no such assumption: a stop finds the
flag set by an event that came while `cc3000_send` clocked its frame, the next start
keeps it and the receive buffer, the loop runs on the flag alone,
`cc3000_spi_receive` reads the length 0 from a module with nothing to send and
returns 0, and the handler is given the old buffer. If that still holds the answer
to an earlier start, `cc3000_is_ready` returns 1 for a start the module has not
answered, which `cc3000_event_handler.c:263` ("returns 1 when the expected message
was received") denies. IsrSafety takes `LineLingers = TRUE` (nothing there reads the
flag).

### Bounds

- `OutMax` messages in the module. 4 in IsrSafety and Polled, so that two events can
  wait together, and behind an answer: `ConnectedFollowsLink` is about the order in
  which a connect and a disconnect are applied. 3 elsewhere: one event, and an
  answer with its data behind it. An answer and its data are sent together
  (`DeviceReply`), so no event comes between them. The theorems hold for a queue of
  any length.
- `UsedMax = 1` packet in the module (0 where credits do not matter): one send can
  race one freed buffer.
- `Bytes = {0, 1}`: a count is zero or not. Lengths are in `ReceivePath`.
- `MaxBoots`: 1, 2 or 3. A restart needs two; IsrSafety and IsrRestart take 2.
  `Sockets` does not bound restarts. Polled takes 1. With 2, `AnsweredIsReady` fails
  in the loop as in IsrRestart, and `ConnectedFollowsLink` fails because the loop
  may hand over a connect event of before the restart: a hazard without a run.
  PolledFalseReady takes 3: the flag is left set by a `cc3000_send`, which needs the
  buffers read after a first start, and the answer left in the buffer is that of a
  second one, since reading them replaced the first.
- `CounterMod` 4, 5 or 6: the least the assumption `MaxBoots + 2 < CounterMod` allows,
  so the counters wrap in every run. The number of requests is not bounded.
- Requests: the handler tells three kinds apart, an answer that is stored (`socket`),
  one that is not (`READ_BUFFER_SIZE`), and a recv. The interrupt-driven runs take all
  three, but IsrSafety, with the longer queue, only `READ_BUFFER_SIZE` and recv: a
  recv whose answer announces no data is a request whose answer is stored. Polled
  takes `socket` and recv. `READ_BUFFER_SIZE` is left out there because the loop counts
  every freed buffer twice, which takes the credit through all 256 values; without
  it the credit stays 0 and `cc3000_send` never runs, so Polled says nothing about
  credits. `cc3000_send` in the loop runs in PolledCredit and PolledFalseReady.
- `DeviceSds = {0, 1, 7}`: a listening socket and two connections, with the first
  and the last number `M_IS_VALID_SD` accepts.
- In `MCReceivePath`, argument and data lengths at the boundaries of each parameter
  and of both parities; recv lengths around 216, where the copy just fits, and up to
  229, which fills the receive buffer; answers with 0, 3, 4, 16 and 20 bytes.

Deadlock is not checked in the interrupt-driven, PolledCredit and PolledFalseReady
runs, where a caller may stop after it has powered the module down for the last time.

### Fairness

Weak fairness of the thread inside an API function, weak fairness of the module's
answer to a command it has, strong fairness of the interrupt handler (interrupts
are enabled and disabled around every frame, and a pending interrupt has priority
over the thread). The caller is never obliged to begin anything. In `PolledLoop`:
weak fairness of the loop, which has no other way to stop, and of the answers.

## Proofs

Each for every value of the constants that satisfies the named assumptions; TLC
evaluates those assumptions for the instances above. Two hypotheses of theorems go
further than the assumptions of the modules, `ByteRoom` and `OneStart`; what they
mean and why they are needed is said where they are used. `InterruptDriven` and
`PolledLoop` differ only in who receives and when, so most of the work is lemmas
about `Driver`, which ask of the receiver no more than `Receives`: it takes the
first message that waits and hands it to `cc3000_event_handler`.

### Lemmas about the driver

- `DriverProofs`: types, and the two counters. An opcode is armed only while a
  request is unmatched, and inside a request function exactly one is. That is not
  inductive: nothing in it says that a caller waiting for nothing has every request
  matched, which `RequestBegin` needs, nor that restarts leave the counters a
  bounded distance apart, without which the distance could wrap to zero.
  `CounterInv` adds both, in terms of `Gap`, the distance of the counters modulo
  their width. `HandlerStep` says what the event handler does to the counters
  whatever the message; the rest is arithmetic on `Gap`. `CounterRoomAssumption`
  (fewer restarts than the counter has values) is used exactly there.
- `AnswerProofs`: `AnswerInv` says where the answer of the request under way is, in
  one place at a time: not sent for, a command of the module, a message that waits,
  or handled. Its parts: the module has at most that command, and no message for it
  while it has (`CommandInv`); a message that answers anything answers the request
  under way, or is the data its answer announced, behind it (`SolicitedInv`,
  `OrderInv`); the opcode of any other is neither expected nor stored
  (`UnsolicitedInv`, from the values of the opcodes); what is expected is the opcode
  of the request (`ReadyInv`); what was handled last is in the buffer (`StoredInv`).
  The refinement has one lemma per side, `ReceiveRefines` and `HostRefines`.
- `LinkProofs`: `ConnectedAfter` says what the handler will make of the messages
  that wait; `AppendLink` and `TailLink` say that a message which comes last is
  applied last and the one taken is applied first. `WireInv` says what messages may
  wait, because the handler tells them apart by opcode: no answer may have the
  opcode of a link event. A module that is off has no link, which a start relies on.

### With interrupts

`InterruptDrivenProofs`, from `TypeOK`, `CounterInv`, `AnswerInv` and the
invariants of the link, with no hypothesis on the constants beyond the assumptions:
`TypeCorrect`, `NeverOvertakenCorrect`, `NoFalseReadyCorrect`, `FreshReturnCorrect`,
`BusExclusiveCorrect`, `ImplementsRequestCorrect`, `ConnectedFollowsLinkCorrect`,
`AddressNoticedCorrect`. `TypeOK` is inductive by itself. It includes that
interrupts are disabled exactly while the module is off or a frame is clocked, from
which `BusExclusive` follows.

`CreditProofs`: `CreditsNeverCreatedCorrect`, from `CreditInv`.

- The credit contains a sum over the queue, defined by a recursive function. The
  library's induction theorems cannot be used here, and are not needed: a set of
  natural numbers that is not empty has a least element (`LeastElement`, from
  `WFMin`), and a least counterexample does what an induction step would.
  `SumsExist` and `SumsDiffer` say in this way that the sums exist and how those of
  two sequences differ; `AppendOnTheWay` and `TailOnTheWay` that a message adds
  what it frees when it is appended and takes it away when it is removed.
- `CreditInv`: the credit never exceeds 255, so that no addition of the handler
  wraps; `cc3000_send` has loaded no more than the variable holds, so that its store
  forgets what was added meanwhile but adds nothing; and what a message frees is
  bounded, as is the number in the return buffer, from which
  `cc3000_general_get_buffer_size` raises the credit.
- `ByteRoom`: the number of buffers the module reports leaves room in a byte for
  the packets in use or under way when it does. Without it the property is false:
  for `Bytes = {0, 255}` TLC finds the addition wrapping between the load and the
  store, after which the store puts back what the wrap took. The module has a
  handful of buffers.

### In the main loop

`PolledLoopProofs`. `TypeCorrect`, `NeverOvertakenCorrect` and
`AddressNoticedCorrect` hold without a hypothesis: what the handler does to the
counters and to the address does not depend on whether it has seen the message
before. All other properties of the run do depend on it, and are proved from
`SafetyInv`, which adds `LoopInv` to the invariants above: `NoFalseReadyCorrect`,
`FreshReturnCorrect`, `AnsweredIsReadyCorrect`, `RecvBytesFromAnswerCorrect`,
`ConnectedFollowsLinkCorrect`, and `ImplementsRequestCorrect` for the request that
loses nothing. The parts of `LoopInv`:

- `TurnInv`: the loop receives and processes only between calls, and never while a
  result waits to be collected. This is why an answer cannot come before
  `cc3000_hci_expect`, and the data of a recv not before it is asked for.
- `ArmedInv`: so a request that is sent is expected until it is ready, and it is
  ready as soon as its answer was handled.
- `AgainInv`, with `BufferInv`: to handle the message in the receive buffer a second
  time matches nothing, since `cc3000_expect` was cleared or names another opcode,
  and stores the bytes that are stored already. It does free its buffers twice,
  which is PolledCredit.
- `FlagInv` and `FirstStartInv`: the loop never processes an older message while the
  module is on, because the flag is set only when a message waits, and the only
  start finds the flag clear and the counters equal.

`OneStart` (`MaxBoots = 1`, `~ LineLingers`) is the hypothesis of these, and it is
that of the run. Each half is needed, and TLC shows why: over a restart the flag
survives and wakes the loop for an old message (PolledFalseReady), and a request
that was outstanding leaves the counters apart, so that `AnsweredIsReady` fails;
with a line that lingers the flag alone wakes the loop while the module is on.

`ImplementsRequest` needs one fact more than it does with interrupts,
`DeliveredIsReady`: since nothing is lost, an answer that was delivered left the
request ready, so that the abstract request may be the one that cannot lose.

### Sockets and the receive path

`SocketsProofs`, from `SocketInv`: `TypeCorrect`, `ActiveMeansOpenCorrect`,
`AcceptedIsActiveCorrect`, for any set of socket numbers below eight. The bits
alone are not inductive: that `cc3000_get_accecpt` clears only bits nobody uses
needs that what the caller accepts on is never a connection it was handed
(`HandleInv`), and that it sets only bits of sockets the module has needs that the
result of an accept stays open or forgotten until it is collected (`RequestInv`).

`ReceivePathProofs`, from `PathInv`:

- `FrameIsWholeCorrect`: for every command that streams what it announces
  (`CommandsAssumption`) and every length that fits the `uint16`
  (`LengthsAssumption`). `FrameInv` is the account of a frame at each stage.
- `MessageIsWholeCorrect`, `TypeCorrect`.
- `ArgumentsReadCorrect`, `RecvDataWholeCorrect`: for every set of messages within
  `MessagesAssumption`. `BufferInv` says what each buffer holds of its message, and
  `RecvInv` that the answer to a recv stays stored until its data comes and that
  the number of bytes the caller was told is that of the data stored. That the
  handler runs twice on one message is harmless here because of `BufferInv`: it
  stores the same bytes again.

### Model-checked only

Every invariant, action property and refinement of a passing run is stated by a
theorem. What stays with TLC is liveness under fairness, which the provers have no
rules for (`ArmedCompletes`, `EveryRequestCompletes`), and the counterexamples of
the violation runs.

## Not modelled

- What lies behind the bytes a copy has room for: for a recv that does not satisfy
  `CopyFits` the code reads and writes behind its buffers, and no property speaks
  of the result.
- `cc3000_wlan_get_scan_result`: it decodes an uninitialised array, because
  `cc3000_return_buffer_size` is never assigned (`cc3000_event_handler.c:440`).
  `cc3000_get_return_int8`, which nothing calls.
- Values written and never read: `init_status`, `wlan_status`,
  `cc3000_buffer_length`, the IP address. `cc3000_close_socket` is modelled, but no
  code reads it.
- `cc3000_setsockopt` with an option length other than 2 or 4. Nothing forbids it
  (`cc3000_socket.h:290` names no values): the function announces that many bytes and
  streams none of them. Only the two lengths it streams are among the commands of
  `MCReceivePath`; the rest is listed as a hazard.
- Calls outside their documented use: an unknown security type for
  `cc3000_wlan_add_profile`, a second request before the first is ready.
- The clamping of the timer values in `cc3000_netapp.c`, delays, debug output, the
  stubs of the platform; the spin loops on the IRQ line, which are part of the step
  they delay.

## What is left

Every component that keeps state is modelled. What could be added:

1. The loop over restarts: which of its properties hold if `cc3000_stop` is called
   only between requests and with the flag clear, as a theorem in place of
   `OneStart`.
2. A composition of `Sockets` with `Driver` in place of `AsyncRequest`, to check
   that nothing between the steps of a request matters to the bits.
3. An account of the 250 bytes behind each buffer, once the code says what should
   happen there.
