# Flipforge Bridge in TLA+

Flipforge Bridge is firmware for the ESP32-S2 Wi-Fi board of the Flipper Zero. It
carries the Flipper's RPC byte stream between one authenticated TCP client and the
Flipper's Expansion UART. This directory specifies its tasks, its protocols and its
provisioning, checks them with TLC on small instances and proves every safety property
that the passing runs check with TLAPS, for all instances.
Source paths are relative to `src/main/` unless they start with `docs/`.

## 1. The system

| Component | State | Operations | Called by, shares with |
|---|---|---|---|
| Expansion state machine (`expansion_state_machine.c`) | state, reconnect count | init, apply | the transport, under `state_mutex` |
| Expansion transport (`expansion_transport.c`) | machine, negotiated rate, event bits LOST, READY, RECONNECT, STOP, pending request, RPC stream buffer | supervisor, RX and heartbeat tasks; begin, send, end, receive RPC; request reconnect | server and proxy call it; its three tasks share the event group, two mutexes, a binary semaphore and the buffer |
| RPC proxy (`rpc_proxy.c`) | STOP and DONE bits | run (TCP to UART), writer task (UART to TCP) | client task; shares the socket with its writer |
| TCP server (`bridge_server.c`) | `client_active` | accept, claim, reject, client task, commands | transport, session, proxy |
| Session (`bridge_session.c`) | state, nonces, session id, decoder buffer | Hello, authenticate, begin, close; encode, decode | client task |
| Frame codec (`expansion_protocol.c`) | decoder buffer | encode, push a byte | transport |
| I/O helpers (`bridge_io.c`) | none | write all, can accept | transport, proxy, server |
| Credentials (`bridge_credentials.c`) | two NVS entries | load or create | boot |
| Pairing (`pairing_service.c`) | window deadline, button, line typed | PAIR | its task, started by boot; reads the USB console |
| Boot (`bridge_main.c`) | credentials until the server has them | start each part, restart on an error | everything |
| Wi-Fi, USB console, LED, metrics | flags and counters | start, count | boot |

What is hard here:

- **Five tasks on one link.** The supervisor tears the link down and builds it up
  while a client call may still wait for an answer, the RX task may be between
  storing a status and giving the semaphore, and the writer may be draining the
  buffer.
- **Requests and answers carry no number.** `send_wait_status` pairs a STATUS with
  the request pending at that moment. Answers can be late, missing or unsolicited.
- **Sessions follow each other on one buffer and one machine.** Leftovers of a
  session, in the buffer or in the machine's state, would reach the next client.
- **One client slot**, released on four paths, and an RPC session on the Flipper that
  every error path of the client task has to end.
- **Loss must propagate** from the UART to a client task blocked in `recv`, which only
  the writer can wake.
- **Clocks that hold each other up.** Heartbeats wait while a request is pending, the
  task that sends them looks every 25 ms only, and both ends drop a link after 250 ms.
- **Two byte streams without a resynchronisation point.** TCP cuts messages anywhere and
  the raw bytes begin in the middle of a receive; a damaged UART byte moves the place at
  which the decoder looks for a checksum.
- **The power may be lost** between the two writes and the commit of the credentials.

`PROJECT.json` lists each hazard at its line with the properties that watch it.

## 2. Modules

| Module | Content |
|---|---|
| `ExpansionStateMachine` | the machine as operators on its value |
| `ExpansionLink` | the transport as its user knows it: an abstract specification |
| `ExpansionTransport` | the transport, the proxy's writer and the order of the client's calls; the Flipper as environment; the refinement mapping to `ExpansionLink` |
| `BridgeServer` | server task, client tasks, sessions, raw mode; reaches the transport through the actions of `ExpansionLink`, which it extends; the peers as environment |
| `LinkTiming` | the clocks of an established link |
| `ExpansionCodec` | the frame encoder, checksum and decoder, a line that may damage a byte |
| `ManagementStream` | the bytes of one TCP connection: receive, decode, answer, raw chunks |
| `Provisioning` | boot, credentials in NVS, pairing window |
| `ExpansionTransportProofs`, `ExpansionAgreementProofs`, `ExpansionStreamProofs` (each extends the one before it), `BridgeServerProofs`, `LinkTimingProofs`, `ExpansionCodecProofs`, `ManagementStreamProofs`, `ProvisioningProofs` | the theorems |
| `MCExpansionTransport`, `MCRetryBudget`, `MCBridgeServer`, `MCCodecs`, `MCProvisioning` | instances for TLC; `MCRetryBudget` adds a count of attempts nobody asked for, `MCCodecs` runs the two codecs, which share nothing, as alternatives |

How they fit together: `ExpansionTransport` implements `ExpansionLink` (checked and
proved), and `BridgeServer` moves the link only by actions of `ExpansionLink`. What is
shown of the server therefore rests on no property of the transport that the transport
does not have. `LinkTiming`, `ExpansionCodec` and `ManagementStream` are each a closer
look at something that the first two keep abstract: their timeouts, their frames, and their
messages.

### ExpansionTransport

Grain: one action is what a task does between two points at which another task can
observe it: a `state_mutex` section, an event-group, semaphore or stream-buffer call,
or one whole `send_frame` under `tx_mutex`. Each variable is a field of
`ExpansionTransport`, a task's program counter and its live locals, or a history
variable (`session`, `confirmed`, `delivered`).

- *Supervisor*: `SupStartup`, then the loop `SupWake` (the wait at the limit),
  `SupRetry` (clears LOST and READY), `Est*` (the steps of `establish_expansion`, each
  with its early return), `SupFailed`; or `SupSpawn`, `SupSpawnHeartbeat` (either
  `xTaskCreate` may fail), `SupLost`, `SupStopIo`, `SupTimeout`.
- *RX task*: `RxStatus` looks at `awaiting_status`, and `RxGive` gives the semaphore in
  a step of its own; `RxData` stores or refuses, `RxAck` acknowledges. `RxReject` is any
  read that fails or does not decode, or DATA outside RpcReady. `RxLoops` is the loop
  condition: it is evaluated before every byte and a frame has several, so a task that
  finds LOST set on its way back reads no further frame; `RxStop` is the task that finds
  it set while it waits for one.
- *Heartbeat task*: `HbSend`, `HbTimeout`, `HbStop`.
- *Client task*: `BeginRpc`, `SendRpc(n)`, `EndRpc` enter a call; `CallApply`, `CallArm`,
  `CallSend`, `CallWait`, `CallCollect`, `CallConclude`, `CallReset` are its steps.
- *Writer task*: `WriterForward`, `WriterEmpty` and `WriterCheck` (`receive_rpc` reads
  the state after the buffer was empty), `WriterStop`.
- *Flipper* (external): what a frame may do to it and what it answers. It may leave at
  any moment, refuse a request, and reject a rate. Frames it sends queue in `uart_rx`;
  damaged bytes are any read that fails.

Time is abstracted (`LinkTiming` has the clocks): a timed wait may end at any moment, so every race of a timeout with
its answer is there. One timing fact is used, in `SupRetry`: the retry delay of at least
250 ms is long enough for a client that was about to send a frame to have sent it. Its
wait for the answer is not bounded this way and may overlap the next establishment.
Payload is abstracted to a session number and a position, which is what
gaps, repetitions and leftovers can be told by. `request_mutex` is left out: one client
task at a time uses it (`SingleClient` of `BridgeServer`).

The mapping to `ExpansionLink`: `LinkState` is the machine's state as a caller of
`expansion_transport_state` and of the RPC calls can tell it, `UserState` is where the
client task is in its calls. Establishing, negotiating and backing off are all "down".

### BridgeServer

A client task is modelled for every connection, so that the slot has something to
exclude. The unit on the wire is one management message or the raw bytes of one read;
`recv` may return several units. A code is a seal on the two nonces: the
holder of the secret makes the one of its session, anybody may repeat one that was sent.
`link` and `user` are those of `ExpansionLink`; the link is lost and established at any
moment. `HandleBegin` sets the session to Proxying before the answer is sent, as the code
does; `BeginUnanswered` is the failure in between.

### LinkTiming

Clocks are ages that `Tick` advances, by 5 ms in the run. A ready task runs within
`Latency`, and sending a frame takes no time of its own. `Look` is one round of the heartbeat task: it
gives the link up, decides to send, or sleeps. The frame goes out in a step of its own,
`SendHeartbeat`, on what was read before. A request passes "begun", "waiting" and
"answered"; one that still waits when the link is lost survives into the next link, as in
the code. The Flipper may answer at any time or never; `late` remembers that a frame of
this link was left unanswered for longer than `AnswerTime`.

### ExpansionCodec

Frames are sequences of bytes with the real sizes of their fields. The sender encodes a
frame if `expansion_protocol_encode` accepts it; the line may turn one byte of it into
another; the reader pushes one byte at a time and stops at the first error, as
`expansion_rx_task` does. `Xor` is a parameter, so that the proofs need no bit
operations. `NoticeableDamage` leaves out two kinds of damage that this frame format
cannot detect: a type byte turned into another type, and a DATA length turned into
another legal one. Both move the checksum's place, and the checksum found there may match
by chance.

### ManagementStream

One connection after authentication. The client writes any of `Writings`, whole messages
or not; `recv` returns any prefix of what has arrived, up to the buffer; the decoder takes
one byte at a time; `send` takes any part of an answer or fails. After BeginRPCProxy the
rest of the buffer and all later bytes go to `send_rpc` in chunks. The 14-byte header is
abstracted to magic, command, status and size, in the order in which the decoder needs them.

### Provisioning

`app_main` is one action per part started; `bridge_credentials_load_or_create` is `Load`,
or `Draw`, two `SetEntry` and `Commit`. An error of any start restarts the chip, and so
does a loss of power between any two steps. A write that is not committed may or may not
survive a restart, each entry by itself: the code relies on nothing more of NVS. Credentials are the number
of their draw. The pairing task samples the button once per pass and reads the console
until it is empty; the clock may advance in between.

## 3. Properties and runs

States are distinct states found by TLC.

| Run | Instance | What it shows |
|---|---|---|
| `transport_stream` | limit 1, one rate, buffer of 1 frame, 2 DATA frames and 1 chunk per session, 3 sessions; 1.51 M | `SessionStreamIntact`, `AcknowledgedIsKept`, `SingleUartReader`, `TypeOK` |
| `transport_requests` | limit 2, two rates, 2 chunks, 2 sessions; 717 k | `EstablishmentOwnsMachine`, `ConfirmedMeansReceived`, `RpcReadyIsAgreed`, `ReadyIsAgreed`, `NotStranded`, `BaudIsAgreed`; the refinement `ImplementsLink` |
| `transport_recovery` | limit 2, 1 session, 1 DATA frame, fair; 104 k | `LossClosesProxy`, `LossIsRetried`, `RetryIsHonoured` |
| `transport_calls` | limit 2, 1 session, 1 chunk, fair; 115 k | `CallsReturn`, and `LinkKeepsPromises`: the progress that the abstract link promises |
| `bridge_access` | 2 connections, 1 of them paired, all message kinds, 4 units each; 248 k | `SingleClient`, `SlotIsOwned`, `GrantedIsPaired`, `RpcHasItsClient`, `SessionOnlyAdvances`, `ServerTypeOK` |
| `bridge_slot` | 1 connection, 6 units, up to 3 unread, fair; 409 k | `RawStreamIntact`, `SlotIsFreed` |
| `codecs` | 9 frames of all types, data of at most 3 bytes, 2 in flight, damage to 4 or 255; 3 writings out of 6, payloads of at most 2, receives of at most 5, chunks of 2; 174 k | `DecoderFits`, `OnFrameBoundaries`, `FramesAreFaithful`; `ParserFits`, `EveryByteCounts`, `AnswersAreWhole` |
| `provisioning` | 3 faults, 1 erasure, windows of 2 passes, a hold of 2, 5 passes, a line of 3 characters, fair; 888 k | `PairedStaysPaired`, `CredentialsAreWhole`, `OneDisclosurePerWindow`, `CommandFits`, `BootRecovers` |
| `link_timing` | the firmware's own times in units of 5 ms, latency 5 ms, answers within 100 ms; 312 k | `SilenceIsShort`, `OnlyLateLinksTimeOut`, `LossIsNoticed` |

Why the bounds are enough. Two sessions are what it takes to meet the leftovers of one
in another, and a third follows one that inherited some; a link can be lost and re-established between and inside
them as often as the limit allows (a success resets the count, so there is no bound on
the number of links). A buffer of one frame is full after the first; two DATA frames show
a gap or a swap. Two chunks show a `send_rpc` that goes on after the state has changed.
Two rates show a rejection followed by an acceptance. Two connections show competition,
with one that lacks the secret. Four units are Hello, Authenticate,
BeginRPCProxy and one more; six allow three pipelined raw units. A receive of five cells
holds the end of one message and a whole header, so that messages are cut and joined at
every place; the writings hold a payload that looks like a header, a request that is too
large and bytes of no message. The frames reach both ends of every field's range and one
value beyond. Three faults give four boots, one of which may erase the flash, enough for one that is
interrupted while it stores, one that repairs it and one that reads it back. `link_timing`
has no bound: its ages are bounded by the system itself, and the run covers every
reachable timing on the grid.

Every property has a mutant (the operators commented `Mutant`): a plausible mistake in
the definition that follows it, under which TLC refutes the property.

### Fairness

Weak fairness of the bridge's tasks: FreeRTOS schedules each again, and every blocking
call they make has a timeout or is woken by another task. Nothing is assumed of the
Flipper, the peers or the link. Of the client task, only steps that follow
without the peer are fair: the steps inside a call, the entry into the proxy, `end_rpc`,
and the return from `recv` once the writer has shut the socket down. In `BridgeServer` a
`recv` in management mode ends (30 s idle timeout); one in raw mode may fail at any time
but is sure to end only if something arrived, the peer closed or the socket was shut
(`RecvBlocks`). The writer may give up at any time, when `send` fails or times out, but is
sure to do so only when `receive_rpc` finds no session. `SlotIsFreed` therefore excepts an
open connection in raw mode whose socket is not shut and whose link is up. That `begin_rpc` and `end_rpc` return there is what
`LinkKeepsPromises` shows under the transport's own fairness. In `Provisioning` only
`app_main`'s steps are fair; the faults are finite by their bound, which is the meaning
of "once the faults stop" in `BootRecovers`.

### Disagreements with the documents

Three runs expect a violation.

- `retry_budget`: `RECONNECT` is a latch. A request made before the limit (a
  BeginRPCProxy while the link is down) is consumed by the wait at the limit, so more
  than three attempts follow the last request without the wait. `docs/HARDWARE_TEST_PLAN.md:20`
  promises at most three.
- `transport_dead_time`: Ready is published before the 25 ms dead time and the rate
  switch. A BeginRPCProxy in that window sends START RPC at the old rate. The request
  then times out and costs the link; no other property is affected.
- `bridge_busy`: the slot is released after the STOP exchange that follows the shutdown
  of the socket, so a client that reconnects at once gets Busy although it is alone.

Observed while modelling, not stated as properties:

- A command outside 1..7 is meant to be answered with InvalidState or Unauthorized
  (`bridge_server.c:195`, `:111`), but `bridge_message_encode` refuses to echo it, so the
  connection is dropped without an answer.
- A call may still succeed after LOST is set, on an answer that the RX task had read
  before. The session or chunk it reports is real, and the supervisor then ends the
  session.
- DATA that arrives between START's answer and `transport_apply(RpcStarted)` costs the
  link (`unexpected_frame`).
- `reconnect_attempts` of the machine never passes 1 inside the transport, because every
  attempt starts with `expansion_state_machine_init`; the supervisor's own count is the
  effective limit, and BackoffElapsed is never applied.

## 4. Proofs

Each proof module extends its component and uses only its named assumptions on
constants: positive limits, a non-empty list of rates, natural bounds, paired
connections among the connections, message kinds of the list in `KindsAssumption`, buffer
sizes that hold the smallest message, frames as `ExpansionFrame` can hold them, an
exclusive or that either operand undoes, and the timing inequalities below.

**ExpansionTransportProofs**

- `TypesAreKept`, hence `TypeCorrect` (`TypeOK`). `TypeOK` is not inductive: `attempts`
  stays within the limit only because it is below it wherever a failure can be counted
  (`CountInv`), and the chunk counters stay bounded only because `confirmed + left` does
  while a chunk is under way (`CallInv`). `TypeInv` is the three together. The proof has
  one lemma per task.
- `UartHasOneReader` (`SingleUartReader`) is inductive by itself: I/O tasks are created in
  two places, and `SupStopIo`, which ends them, is the only way out of `linked`.
- `OwnershipIsKept`: `MachineInv` strengthens `EstablishmentOwnsMachine` with the head of
  the supervisor's loop, where the machine is Disconnected or Backoff; `SessionInv` says
  which call or proxy owns the machine's RPC state as long as LOST is not set. The two
  need each other: LOST is cleared at the loop's head, where only `MachineInv` says that
  no RPC state is left to own; and a late RpcStarted or RpcStopped is rejected under
  `establish_expansion` only because the machine is where `MachineInv` says.
  `EstablishmentIsUndisturbed` (`EstablishmentOwnsMachine`) and `NoSessionIsStranded`
  (`NotStranded`) follow.
- `TransportImplementsLink` (`ImplementsLink`): the initial state maps to `LinkInit` and
  every step to a step of the abstract link or to none. The simulation needs `MachineInv`
  and `SessionInv`, to know that a late answer finds the machine where the mapping says,
  and `PlaceInv`, which ties each call to the phase of the proxy it is made in.

**ExpansionAgreementProofs**: what the bridge believes about the Flipper is true. The
frames carry no number, so the question is whose answer a STATUS is.

- `CallerIsKept` (`CallerInv`): which call or session each RPC state of the machine
  belongs to, that a request is sent in the state its event led to, and that the semaphore
  holds no token of an earlier link when it is.
- `NegotiationIsKept` (`NegotiationInv`), hence `RatesAgree` (`BaudIsAgreed`): at each
  place of the supervisor, how far the Flipper has come and which STATUS frames can be on
  the line. The hard case is a client that has not noticed the loss of the previous link
  and sends a chunk into the negotiation: its refusal, too, is a STATUS, and `GreetingInv`
  says why none but a Flipper that took the rate answers None.
- `AnswersAreKept` (`AnswerInv`). `UnderWayInv`: at most one STATUS is under way while no
  loss is signalled, and only for a request that is pending. `AnsweredInv`: what remains
  true after a loss, where the semaphore may hold a token that came too late. `FreshInv`:
  a session starts and a chunk is sent with no None under way. `EarnedInv`: a None in sight
  of START means that the Flipper opened this session, and one in sight of a chunk that it
  received it. `ReadyAgrees` (`ReadyIsAgreed`), `SessionsAgree` (`RpcReadyIsAgreed`) and
  `ConfirmationsHold` (`ConfirmedMeansReceived`) follow, without a condition on LOST:
  what makes this so is the loop condition of the RX task (`RxLoops`).

**ExpansionStreamProofs**: the other direction.

- `AccountIsKept` (`AccountInv`): the Flipper has at most one DATA frame that is not
  acknowledged.
- `DataIsKept` (`DataInv`): that frame is on the line or in the RX task's hands, never
  both (`SingleInv`), and no DATA is behind the answer to STOP (`EndedInv`), so the reset
  of the buffer in `end_rpc` is the last of the session.
- `StreamIsKept` (`StreamInv`): a session starts with an empty buffer (`EmptyInv`); what
  it has forwarded and what is buffered is in order (`OrderInv`) and as much as was
  acknowledged, or one frame more while the acknowledgement is being sent (`KeptInv`). The
  count is needed for the order: it is what makes the next frame stored the next in
  number. `StreamArrivesIntact` (`SessionStreamIntact`) and `AcknowledgedIsNeverLost`
  (`AcknowledgedIsKept`) follow.

**BridgeServerProofs**

- `SlotExcludes` (`SingleClient`) and `SlotDoesNotLeak` (`SlotIsOwned`): inductive as
  `SlotInv`, with the fact that no client task exists while the server task is about to
  create one or to give up.
- `ServerTypeCorrect` (`ServerTypeOK`).
- `PrivilegeIsEarned` (`GrantedIsPaired`): `NonceInv` says that a session's nonce was drawn
  for it alone, that no code seals a nonce not yet drawn, and that a code over a live
  session's nonce exists only if its peer is paired; `PrivilegeInv` that a session past
  authentication belongs to a paired connection. `AuthInv` is both.

- `SessionsAdvance` (`SessionOnlyAdvances`), an action property, from the same invariant.
- `RawStreamArrivesIntact` (`RawStreamIntact`): the units of a connection pass through the
  socket, the client task's buffer and `send_rpc`; `StreamInv` says that in these three
  places they are numbered without a gap, up to the last one sent, and at which places of
  the client task which of them is empty.
- `NoSessionWithoutClient` (`RpcHasItsClient`): a session on the Flipper, or
  a request for one or for its end, has the client task it belongs to, whatever
  `ExpansionLink` lets the transport do.

**LinkTimingProofs**. `HeartbeatsAreInTime` (`SilenceIsShort`), `NoFalseAlarm`
(`OnlyLateLinksTimeOut`) and `AlarmIsInTime` (`LossIsNoticed`), for all times with

    Heartbeat + Interval + 3 Latency <= Timeout
    AckTimeout + Interval + 5 Latency <= Timeout
    AnswerTime + Heartbeat + Interval + 3 Latency <= Timeout
    2 AnswerTime + Interval + 5 Latency <= Timeout

With the firmware's 250, 200, 100 and 25 ms, the second leaves 5 ms for the latency: the
ack timeout, not the heartbeat period, is the tight one. `TimingInv` bounds each age by
where its task is: `ScheduleInv` and `SilenceInv` for sending, `PromptInv`,
`ReceptionInv`, `NoticeInv` and `LostInv` for receiving.

**ExpansionCodecProofs**

- `DecoderNeverFills` (`DecoderFits`): the decoder's buffer is never full between two
  pushes, whatever length the peer announces, for the frames `FrameSpec` sends and the
  damage it does them. `AnyBytesFit` says the same of `NoisySpec`, where any bytes may come
  in between, so that the reader may have lost the boundaries. `FramesRoundTrip`: the decoder's reading of
  an encoded frame is that frame, for every frame type.
- `OneByteIsNoticed`: the checksum of a sequence of any length changes with any one byte
  of it. The checksum is a fold, and what a fold or `FlattenSeq` computes is an induction
  over data, for which the library's rules cannot be used: they take a predicate as
  parameter. The induction is made on a set in its place: `UpTo` says that a set which
  holds 0 and the successor of each of its numbers below n holds all numbers up to n,
  because the set of those missing would have a least element (`LeastNatural`, from the
  well-foundedness of the naturals).
- `BoundariesAreKept` (`OnFrameBoundaries`): `BoundaryInv` adds that every frame under way
  is its encoding or that encoding with one noticeable change, and that what the decoder
  holds is a proper beginning of the first of them. A damaged frame announces either the
  length it has or none at all, so the decoder stops at or before its last byte.
- `FramesArriveFaithfully` (`FramesAreFaithful`), an action property: at the last byte of
  a frame the decoder holds exactly the frame's bytes; one changed byte, the checksum's own
  included, makes the two checksums differ.

**ManagementStreamProofs**. `NoByteIsLost` (`EveryByteCounts`: what was decoded, what is
in the decoder, the buffer and the socket, and what went to the Flipper, is in this order
what the client wrote), `NoAnswerIsTorn` (`AnswersAreWhole`), `ParserNeverFills`
(`ParserFits`). `StreamInv` adds to them the types, that `expected` follows from the
header in the decoder (`ParserInv`), and which of them may hold bytes at each place of
the client task (`PlaceInv`).

**ProvisioningProofs**. `PairingSurvives` (`PairedStaysPaired`) and `NeverHalfProvisioned`
(`CredentialsAreWhole`) from `KeptInv`, which says at each step of the boot how flash,
uncommitted writes and the copies relate; `WindowsAreSpent` (`OneDisclosurePerWindow`)
from `WindowInv`, by which an open window was counted and is not yet used; `LinesFit`
(`CommandFits`) from `LineInv`.

Only model-checked: liveness under fairness, which is outside TLAPS's reach
(`LossClosesProxy`, `LossIsRetried`, `RetryIsHonoured`, `CallsReturn`, `LinkKeepsPromises`,
`SlotIsFreed`, `BootRecovers`), and the three disagreements, which are counterexamples.

## 5. Not modelled

- `expansion_transport_destroy` and the STOP bit: the firmware destroys a transport only
  when `create` fails, before any task exists.
- A task deleted by `stop_io_tasks` while it holds a mutex: it takes a UART driver that
  hangs in `uart_wait_tx_done` for longer than the 250 ms `stop_io_tasks` waits.
- The test of a task's handle and the task's deletion in `stop_io_tasks` as two steps. They
  matter only for a task that outlives those 250 ms.
- Damage that the frame format cannot show (see `ExpansionCodec`): what is then reported
  as a frame is not what was sent, and only `AnyBytesFit` covers it.
- A lasting NVS read error (`bridge_credentials.c:45-51`): `load_or_create` returns it on
  every boot and the bridge restarts for ever. In `Provisioning` an error of the boot is a
  fault that passes, and `BootRecovers` speaks of a flash that can be read.
- The version and flags of a management message in `ManagementStream`: a refused one is
  answered like a refused status, without a payload. In `BridgeServer` it is
  `HandleRefused`.
- The overflow of `json[512]` (`bridge_server.c:133`, `:156`): the buffer
  is more than twice the longest text the two formats produce.
- A raw session whose peer vanished without FIN: the code waits without a limit, and
  TCP keep-alive belongs to lwIP. `SlotIsFreed` excepts it.
- The HMAC (mbedTLS): a code is an unforgeable seal on the two nonces.
- The setup of the listening socket, the JSON payloads, the Wi-Fi configuration beyond
  the password, the USB console, the LED and the metrics: calls into ESP-IDF, text,
  counters and logs that no control logic reads.

## 6. Plan

Done: every component with control logic of its own, the refinement of the abstract link,
and a theorem for every safety property of the passing runs. What remains worth doing:

1. theorems that would carry part of the liveness arguments, such as that each step of a
   call, and each step of the supervisor after a loss, brings it nearer to its end;
2. the management message decoder's reading of an encoded message for the whole range of
   its fields, as `FramesRoundTrip` does it for frames.
