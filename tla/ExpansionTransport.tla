-------------------------- MODULE ExpansionTransport --------------------------
(***************************************************************************)
(* The Expansion transport of main/expansion_transport.c and the order in  *)
(* which main/rpc_proxy.c and main/bridge_server.c call it.                *)
(*                                                                         *)
(* Five tasks run concurrently: the supervisor (establishes the link and   *)
(* restarts it), the RX task and the heartbeat task (alive while the link  *)
(* is up), the client task (begin_rpc, send_rpc, end_rpc, one call at a    *)
(* time) and the proxy's writer task (receive_rpc).  One action is what a  *)
(* task does between two points where another task can observe it: a       *)
(* state_mutex section, an event-group, semaphore or stream-buffer call,   *)
(* or a whole send_frame under tx_mutex.                                   *)
(*                                                                         *)
(* Time is abstracted: a timed wait may end at any moment.  The Flipper on *)
(* the other end of the UART is external; it answers a frame when the      *)
(* frame has been written, and its answers queue in uart_rx.               *)
(***************************************************************************)
EXTENDS ExpansionStateMachine, Sequences

CONSTANTS
    BaudRates,        \* bridge_preferred_baud_rates, in the order they are tried
    InitialBaud,      \* BRIDGE_EXPANSION_INITIAL_BAUD
    RpcRxCapacity,    \* BRIDGE_RPC_RX_BUFFER_BYTES, in DATA frames
    MaxFlipperData,   \* bound: DATA frames the Flipper sends in one RPC session
    MaxChunks,        \* bound: DATA frames the client sends in one RPC session
    MaxSessions       \* bound: calls of begin_rpc that pass the Ready check

ASSUME BaudAssumption ==
    BaudRates \in Seq(STRING) /\ BaudRates # <<>> /\ InitialBaud \in STRING
ASSUME BoundsAssumption ==
    /\ RpcRxCapacity \in Nat \ {0}
    /\ MaxFlipperData \in Nat /\ MaxChunks \in Nat /\ MaxSessions \in Nat

VARIABLES
    machine,          \* transport->machine
    negotiated_baud,  \* transport->negotiated_baud, "0" when there is none
    events,           \* the bits of transport->events that are set
    awaiting_status,  \* transport->awaiting_status
    last_status,      \* transport->last_status
    status_semaphore, \* whether the binary semaphore holds its token
    rpc_rx,           \* the stream buffer, one item per DATA frame
    uart_baud,        \* the rate the bridge's UART is set to
    uart_rx,          \* frames on their way to, or received by, the bridge's UART
    sup,              \* where the supervisor is
    attempts,         \* the supervisor's local count of failures in a row
    baud_index,       \* the loop index of establish_expansion
    rx,               \* where the RX task is, "none" when there is no task
    hb,               \* where the heartbeat task is, "none" when there is no task
    call,             \* where the client task is inside a transport call
    op,               \* the request that call makes: "start", "data" or "stop"
    reply,            \* what send_wait_status returned: a status or "error"
    left,             \* chunks the current send_rpc has still to send
    proxy,            \* the client task's place in the life of an RPC session
    writer,           \* where the proxy's writer task is
    flipper,          \* the other end of the UART
    session,          \* history: number of the latest begin_rpc
    confirmed,        \* history: chunks of this session send_rpc got None for
    delivered         \* history: items of this session written to the TCP client

supVars     == <<sup, attempts, baud_index>>
linkVars    == <<machine, negotiated_baud, events>>
requestVars == <<awaiting_status, last_status, status_semaphore>>
callVars    == <<call, op, reply, left>>
proxyVars   == <<proxy, session, confirmed>>
writerVars  == <<writer, delivered>>
lineVars    == <<uart_rx, flipper>>
vars == <<supVars, linkVars, requestVars, callVars, proxyVars, writerVars,
          lineVars, rpc_rx, uart_baud, rx, hb>>

-----------------------------------------------------------------------------
(* Values                                                                  *)

Statuses == {"None", "Unknown", "BaudRate"}
Items    == [session : 0..MaxSessions, n : 0..MaxFlipperData]

HeartbeatFrame == [type |-> "heartbeat"]
StatusFrame(s) == [type |-> "status", status |-> s]
DataFrame(i)   == [type |-> "data", item |-> i]
Frames == {HeartbeatFrame} \cup {StatusFrame(s) : s \in Statuses}
            \cup {DataFrame(i) : i \in Items}

Flippers == [mode : {"away", "greeted", "connected", "rpc"}, baud : STRING,
             session : 0..MaxSessions, sent : 0..MaxFlipperData,
             acked : 0..MaxFlipperData, received : Nat]

Establishing == {"start", "uart", "await_hb", "send_baud", "await_baud",
                 "dead_time"}

\* From uart_set_pin in establish_expansion until release_expansion_pins.
PinsAttached == sup \in {"await_hb", "send_baud", "await_baud", "dead_time",
                         "spawn", "spawn_hb", "linked", "stop_io", "timeout"}

-----------------------------------------------------------------------------
(* The Flipper: what a frame written to the UART may do to it, and what it  *)
(* answers.  An outcome is the Flipper afterwards and the frames it sends.  *)

Absent == [mode |-> "away", baud |-> InitialBaud, session |-> 0,
           sent |-> 0, acked |-> 0, received |-> 0]

Gone == [flipper EXCEPT !.mode = "away", !.baud = InitialBaud]

Outcome(f, answer) == [flipper |-> f, answer |-> answer]
Answers(f, status) == Outcome(f, <<StatusFrame(status)>>)

\* A frame the Flipper cannot read ends its session; one it can read but does
\* not expect may be answered first.
Heard(expected, outcomes) ==
    IF ~PinsAttached \/ flipper.mode = "away" THEN {Outcome(flipper, <<>>)}
    ELSE IF flipper.baud # uart_baud THEN {Outcome(Gone, <<>>)}
    ELSE IF expected THEN outcomes
    ELSE {Outcome(Gone, <<>>), Answers(Gone, "Unknown")}

OnPulse ==
    IF flipper.mode = "away"
      THEN {Outcome(flipper, <<>>),
            Outcome([Absent EXCEPT !.mode = "greeted"], <<HeartbeatFrame>>)}
      ELSE {Outcome(flipper, <<>>), Outcome(Gone, <<>>)}

OnBaud(b) ==
    Heard(flipper.mode = "greeted",
          {Answers([flipper EXCEPT !.mode = "connected", !.baud = b], "None"),
           Answers(flipper, "BaudRate")})

InSession == [mode |-> "rpc", baud |-> flipper.baud, session |-> session,
              sent |-> 0, acked |-> 0, received |-> 0]

OnControl(command) ==
    IF command = "start"
      THEN Heard(flipper.mode = "connected",
                 {Answers(InSession, "None"),
                  Answers(flipper, "Unknown")})
      ELSE Heard(flipper.mode = "rpc",
                 {Answers([flipper EXCEPT !.mode = "connected"], "None")})

OnData ==
    Heard(flipper.mode = "rpc",
          {Answers([flipper EXCEPT !.received = @ + 1], "None"),
           Answers(flipper, "Unknown")})

OnStatus(s) ==
    Heard(flipper.mode = "rpc" /\ flipper.sent > flipper.acked,
          {Outcome(IF s = "None" THEN [flipper EXCEPT !.acked = @ + 1] ELSE Gone,
                   <<>>)})

OnHeartbeat == Heard(TRUE, {Outcome(flipper, <<>>)})

\* send_frame: the bytes reach the Flipper before uart_wait_tx_done returns.
Transmit(outcomes) ==
    \E o \in outcomes :
        /\ flipper' = o.flipper
        /\ uart_rx' = uart_rx \o o.answer

\* send_frame returning an error, with the frame written or not.
TransmitFails(outcomes) == Transmit(outcomes) \/ UNCHANGED lineVars

\* What the Flipper sends at another rate, or line noise damages, is not kept in
\* uart_rx: every read may meet bytes that do not decode.
FlipperHeartbeat ==
    /\ flipper.mode # "away" /\ PinsAttached /\ flipper.baud = uart_baud
    /\ uart_rx = <<>>
    /\ uart_rx' = <<HeartbeatFrame>>
    /\ UNCHANGED flipper

\* The Flipper sends its next DATA frame once the previous one is acknowledged.
FlipperData ==
    /\ flipper.mode = "rpc" /\ PinsAttached /\ flipper.baud = uart_baud
    /\ flipper.sent = flipper.acked
    /\ flipper.sent < MaxFlipperData
    /\ flipper' = [flipper EXCEPT !.sent = @ + 1]
    /\ uart_rx' = Append(uart_rx, DataFrame([session |-> flipper.session,
                                            n |-> flipper.sent + 1]))

\* Listen UART is disabled, the cable is pulled, or the Flipper times out.
FlipperLeaves ==
    /\ flipper.mode # "away"
    /\ flipper' = Gone
    /\ UNCHANGED uart_rx

Environment ==
    /\ FlipperHeartbeat \/ FlipperData \/ FlipperLeaves
    /\ UNCHANGED <<supVars, linkVars, requestVars, callVars, proxyVars,
                   writerVars, rpc_rx, uart_baud, rx, hb>>

-----------------------------------------------------------------------------
(* Small pieces of the code that several steps share.  An operator whose    *)
(* comment starts with "Mutant" is a plausible mistake in the one after it. *)

\* Mutant: one attempt short.
AtLimitShort == attempts + 1 >= MaxRetries
\* The test at the head of the supervisor's loop.
AtLimit == attempts >= MaxRetries

\* Mutant: the count goes on.
CountAnewForgotten == UNCHANGED attempts
\* attempts = 0 after an explicit request and after a success.
CountAnew == attempts' = 0

\* Mutant: nobody is told.
LinkLostUnsignalled == events
\* signal_link_lost
LinkLost == events \cup {"LOST"}

\* Mutant: an error of the driver goes unnoticed.
SetBaudrateUnchecked(b) == uart_baud' \in {b, uart_baud}
\* uart_param_config and uart_set_baudrate
SetBaudrate(b) == uart_baud' = b

\* Mutant: tasks that do not end within the wait are not deleted.
StopIoTasksWaitOnly == UNCHANGED <<rx, hb>>
\* stop_io_tasks waits for the two tasks and deletes what is left of them; the
\* test of a handle and the deletion of its task are one step.
StopIoTasks == rx' = "none" /\ hb' = "none"

\* The loop condition, evaluated before every byte: once LOST is set, no more
\* than the byte whose read has begun is looked at.
RxLoops == rx' = IF "LOST" \in events THEN "none" ELSE "read"

\* Mutant: the buffer keeps what the last session left in it.
ResetBufferForgotten == UNCHANGED rpc_rx
\* xStreamBufferReset
ResetBuffer == rpc_rx' = <<>>

\* Mutant: off by one.
CanAcceptOneMore(used, incoming, capacity) ==
    used <= capacity /\ incoming <= capacity - used + 1
\* bridge_io_buffer_can_accept
CanAccept(used, incoming, capacity) ==
    used <= capacity /\ incoming <= capacity - used

\* Mutant: less than the frame is stored and nobody looks.
StoreUnchecked(item) == rpc_rx' \in {rpc_rx, Append(rpc_rx, item)}
\* xStreamBufferSend of a frame that fits.
Store(item) == rpc_rx' = Append(rpc_rx, item)

\* Mutant: the token and the status of the previous request stay.
ForgetAnswerNever == UNCHANGED <<status_semaphore, last_status>>
\* send_wait_status drains the semaphore and presets last_status.
ForgetAnswer == status_semaphore' = FALSE /\ last_status' = "Unknown"

\* Mutant: an answer counts whatever status it carries.
AnswerUnchecked == IF call = "answered" THEN "None" ELSE "error"
\* What send_wait_status returns: the status counts only without an error.
Answer == IF call = "answered" THEN last_status ELSE "error"

\* Mutant: begin_rpc and end_rpc do not look at what came back.
SucceedsUnchecked(event) == Accepts(machine, event)
\* begin_rpc's and end_rpc's test of the answer and of transport_apply.
Succeeds(event) == reply = "None" /\ Accepts(machine, event)

\* Mutant: ESP_ERR_INVALID_STATE is treated like ESP_ERR_TIMEOUT.
SessionUpAlways == TRUE
\* The state as send_rpc, receive_rpc, end_rpc and rpc_proxy_run test it.
SessionUp == machine.state = "RpcReady"

-----------------------------------------------------------------------------
(* Supervisor task                                                         *)

\* The RECONNECT bit is cleared once, before the startup delay.
SupStartup ==
    /\ sup = "startup" /\ sup' = "retry"
    /\ events' = events \ {"RECONNECT"}
    /\ UNCHANGED attempts

\* The loop's head at the limit: xEventGroupWaitBits with clear-on-exit.
SupWake ==
    /\ sup = "retry" /\ AtLimit
    /\ "RECONNECT" \in events
    /\ events' = events \ {"RECONNECT"}
    /\ CountAnew
    /\ UNCHANGED sup

\* The loop's head below the limit, after the retry delay.  The delay of at
\* least BRIDGE_EXPANSION_RETRY_BASE_MS is the one timing fact relied on: a
\* frame a client was about to send when the link went down is sent before it
\* ends.  The client's wait for the answer may outlast it.
SupRetry ==
    /\ sup = "retry" /\ ~AtLimit /\ sup' = "init"
    /\ call \notin {"apply", "arm", "send"}
    /\ events' = events \ {"LOST", "READY"}
    /\ UNCHANGED attempts

SupLoop ==
    /\ SupStartup \/ SupWake \/ SupRetry
    /\ UNCHANGED <<baud_index, machine, negotiated_baud, lineVars, rpc_rx,
                   uart_baud, rx, hb>>

\* establish_expansion goes on, or returns an error at one of its early returns.
Proceed(pc)    == sup' = pc /\ UNCHANGED baud_index
EstablishFails == sup' = "failed" /\ baud_index' = 1

\* transport_apply inside establish_expansion; a rejected event ends it.
EstablishApply(event, pc) ==
    /\ machine' = Apply(machine, event)
    /\ IF Accepts(machine, event) THEN Proceed(pc) ELSE EstablishFails

EstInit ==
    /\ sup = "init" /\ Proceed("start")
    /\ machine' = InitialMachine
    /\ negotiated_baud' = "0"
    /\ UNCHANGED <<uart_baud, lineVars>>

EstStart ==
    /\ sup = "start"
    /\ EstablishApply("Start", "uart")
    /\ UNCHANGED <<negotiated_baud, uart_baud, lineVars>>

\* uart_configure, which flushes the input, pulse_flipper_rx, uart_set_pin.
EstPulse ==
    /\ sup = "uart"
    /\ SetBaudrate(InitialBaud)
    /\ \/ /\ Proceed("await_hb")
          /\ \E o \in OnPulse : flipper' = o.flipper /\ uart_rx' = o.answer
       \/ EstablishFails /\ uart_rx' = <<>> /\ UNCHANGED flipper
    /\ UNCHANGED <<machine, negotiated_baud>>

\* receive_frame_sync returns this frame.
Receives(frame) ==
    /\ uart_rx # <<>> /\ Head(uart_rx) = frame
    /\ uart_rx' = Tail(uart_rx)
    /\ UNCHANGED flipper

\* receive_frame_sync fails (a timeout, a read error, bytes that do not decode,
\* which it answers with Unknown) or returns a frame of another type.
ReceiveFails ==
    /\ EstablishFails
    /\ Transmit(OnStatus("Unknown")) \/ UNCHANGED lineVars
    /\ UNCHANGED machine

EstAwaitHeartbeat ==
    /\ sup = "await_hb"
    /\ \/ /\ Receives(HeartbeatFrame)
          /\ EstablishApply("HeartbeatReceived", "send_baud")
       \/ ReceiveFails
    /\ UNCHANGED <<negotiated_baud, uart_baud>>

EstSendBaud ==
    /\ sup = "send_baud"
    /\ \/ Proceed("await_baud") /\ Transmit(OnBaud(BaudRates[baud_index]))
       \/ EstablishFails /\ TransmitFails(OnBaud(BaudRates[baud_index]))
    /\ UNCHANGED <<machine, negotiated_baud, uart_baud>>

EstAwaitBaud ==
    /\ sup = "await_baud"
    /\ \/ /\ Receives(StatusFrame("None"))
          /\ EstablishApply("BaudAccepted", "dead_time")
       \/ /\ Receives(StatusFrame("BaudRate"))
          /\ machine' = Apply(machine, "BaudRejected")
          /\ IF baud_index < Len(BaudRates)
               THEN sup' = "send_baud" /\ baud_index' = baud_index + 1
               ELSE EstablishFails
       \/ ReceiveFails
    /\ UNCHANGED <<negotiated_baud, uart_baud>>

\* After the dead time: uart_set_baudrate, then the rate is published.
EstSwitchBaud ==
    /\ sup = "dead_time"
    /\ \/ /\ sup' = "spawn" /\ baud_index' = 1
          /\ SetBaudrate(BaudRates[baud_index])
          /\ negotiated_baud' = BaudRates[baud_index]
       \/ EstablishFails /\ UNCHANGED <<uart_baud, negotiated_baud>>
    /\ UNCHANGED <<machine, lineVars>>

Establish ==
    /\ \/ EstInit \/ EstStart \/ EstPulse \/ EstAwaitHeartbeat \/ EstSendBaud
       \/ EstAwaitBaud \/ EstSwitchBaud
    /\ UNCHANGED <<attempts, events, rpc_rx, rx, hb>>

SupFailed ==
    /\ sup = "failed" /\ sup' = "retry"
    /\ attempts' = attempts + 1
    /\ machine' = Apply(machine, "Timeout")
    /\ UNCHANGED <<events, uart_rx, rpc_rx, rx, hb>>

\* The buffer is reset and the RX task created; without memory for it the
\* heartbeat task is not tried and the link is lost at once.
SupSpawn ==
    /\ sup = "spawn"
    /\ CountAnew
    /\ ResetBuffer
    /\ \/ RxLoops /\ sup' = "spawn_hb" /\ UNCHANGED events
       \/ sup' = "linked" /\ events' = LinkLost \cup {"READY"} /\ UNCHANGED rx
    /\ UNCHANGED <<machine, uart_rx, hb>>

SupSpawnHeartbeat ==
    /\ sup = "spawn_hb" /\ sup' = "linked"
    /\ \/ hb' = "loop" /\ events' = events \cup {"READY"}
       \/ events' = LinkLost \cup {"READY"} /\ UNCHANGED hb
    /\ UNCHANGED <<attempts, machine, uart_rx, rpc_rx, rx>>

SupLost ==
    /\ sup = "linked" /\ "LOST" \in events /\ sup' = "stop_io"
    /\ UNCHANGED <<attempts, machine, events, uart_rx, rpc_rx, rx, hb>>

SupStopIo ==
    /\ sup = "stop_io" /\ sup' = "timeout"
    /\ StopIoTasks
    /\ events' = events \ {"READY"}
    /\ UNCHANGED <<attempts, machine, uart_rx, rpc_rx>>

SupTimeout ==
    /\ sup = "timeout" /\ sup' = "retry"
    /\ machine' = Apply(machine, "Timeout")
    /\ attempts' = attempts + 1
    /\ uart_rx' = <<>>
    /\ UNCHANGED <<events, rpc_rx, rx, hb>>

SupRun ==
    /\ \/ SupFailed \/ SupSpawn \/ SupSpawnHeartbeat \/ SupLost \/ SupStopIo
       \/ SupTimeout
    /\ UNCHANGED <<baud_index, negotiated_baud, uart_baud, flipper>>

Supervisor ==
    /\ SupLoop \/ Establish \/ SupRun
    /\ UNCHANGED <<requestVars, callVars, proxyVars, writerVars>>

-----------------------------------------------------------------------------
(* RX task                                                                 *)

\* The task ends at its next look at the loop condition.
RxStop ==
    /\ rx = "read" /\ "LOST" \in events
    /\ rx' = "none"
    /\ UNCHANGED <<events, last_status, status_semaphore, rpc_rx, lineVars>>

\* signal_link_lost and break.
RxBreak == events' = LinkLost /\ rx' = "none"

\* A read error, bytes that do not decode, or DATA outside RpcReady.
RxReject ==
    /\ rx = "read"
    /\ RxBreak
    /\ UNCHANGED <<last_status, status_semaphore, rpc_rx, lineVars>>

\* The next frame the decoder completes is of this type.
RxReads(type) ==
    /\ rx = "read" /\ uart_rx # <<>> /\ Head(uart_rx).type = type
    /\ uart_rx' = Tail(uart_rx)
    /\ UNCHANGED flipper

RxHeartbeat ==
    /\ RxReads("heartbeat")
    /\ RxLoops
    /\ UNCHANGED <<events, last_status, status_semaphore, rpc_rx>>

\* The state_mutex section that looks at awaiting_status.
RxStatus ==
    /\ RxReads("status")
    /\ IF awaiting_status
         THEN /\ last_status' = Head(uart_rx).status
              /\ rx' = "give"
              /\ UNCHANGED events
         ELSE RxBreak /\ UNCHANGED last_status
    /\ UNCHANGED <<status_semaphore, rpc_rx>>

RxGive ==
    /\ rx = "give"
    /\ status_semaphore' = TRUE
    /\ RxLoops
    /\ UNCHANGED <<events, last_status, rpc_rx, lineVars>>

\* DATA in RpcReady.  Only this task adds to the buffer, and end_rpc resets it
\* only after this task has passed STOP's answer on, so the test of the state,
\* the test of the free space and the store are one step.
RxData ==
    /\ RxReads("data") /\ SessionUp
    /\ IF CanAccept(Len(rpc_rx), 1, RpcRxCapacity)
         THEN Store(Head(uart_rx).item) /\ rx' = "ack"
         ELSE rx' = "refuse" /\ UNCHANGED rpc_rx
    /\ UNCHANGED <<events, last_status, status_semaphore>>

\* The buffer is full: send_status(Unknown), then the link is lost.
RxRefuse ==
    /\ rx = "refuse"
    /\ TransmitFails(OnStatus("Unknown"))
    /\ RxBreak
    /\ UNCHANGED <<last_status, status_semaphore, rpc_rx>>

RxAck ==
    /\ rx = "ack"
    /\ \/ Transmit(OnStatus("None")) /\ RxLoops /\ UNCHANGED events
       \/ TransmitFails(OnStatus("None")) /\ RxBreak
    /\ UNCHANGED <<last_status, status_semaphore, rpc_rx>>

RxTask ==
    /\ \/ RxStop \/ RxReject \/ RxHeartbeat \/ RxStatus \/ RxGive \/ RxData
       \/ RxRefuse \/ RxAck
    /\ UNCHANGED <<supVars, machine, negotiated_baud, awaiting_status, callVars,
                   proxyVars, writerVars, uart_baud, hb>>

-----------------------------------------------------------------------------
(* Heartbeat task                                                          *)

HbStop ==
    /\ hb = "loop" /\ "LOST" \in events
    /\ hb' = "none"
    /\ UNCHANGED <<events, lineVars>>

\* Nothing received for BRIDGE_EXPANSION_TIMEOUT_MS.
HbTimeout ==
    /\ hb = "loop"
    /\ hb' = "none"
    /\ events' = LinkLost
    /\ UNCHANGED lineVars

\* Nothing sent for BRIDGE_EXPANSION_HEARTBEAT_MS and no request pending.
\* A request armed between the test and the frame changes nothing: the Flipper
\* takes a heartbeat at any time and answers, if at all, with one of its own, which
\* FlipperHeartbeat sends.
HbSend ==
    /\ hb = "loop" /\ ~awaiting_status
    /\ \/ Transmit(OnHeartbeat) /\ UNCHANGED <<hb, events>>
       \/ TransmitFails(OnHeartbeat) /\ hb' = "none" /\ events' = LinkLost

HeartbeatTask ==
    /\ HbStop \/ HbTimeout \/ HbSend
    /\ UNCHANGED <<supVars, machine, negotiated_baud, requestVars, callVars,
                   proxyVars, writerVars, rpc_rx, uart_baud, rx>>

-----------------------------------------------------------------------------
(* Client task: what the server and the proxy ask of the transport          *)

\* A call returns to the client task; its locals are dead.
Returns == call' = "idle" /\ op' = "none" /\ left' = 0

\* The session is over for the client, and so is what its history records.
Closes == proxy' = "closed" /\ confirmed' = 0 /\ delivered' = <<>>

\* The call goes on; the proxy stays where it is.
InCall(pc)     == call' = pc /\ UNCHANGED <<op, left>>
SameSession    == UNCHANGED <<proxy, confirmed, delivered>>
ProxyTo(place) == proxy' = place /\ UNCHANGED <<confirmed, delivered>>

\* expansion_transport_request_reconnect: a BeginRPCProxy with a payload, or
\* while the link is not Ready.
RequestReconnect ==
    /\ proxy = "closed"
    /\ events' = events \cup {"RECONNECT"}
    /\ InCall("idle") /\ SameSession /\ UNCHANGED writer

\* begin_rpc finds the state Ready.
BeginRpc ==
    /\ proxy = "closed" /\ session < MaxSessions
    /\ machine.state = "Ready"
    /\ call' = "apply" /\ op' = "start"
    /\ SameSession /\ UNCHANGED <<left, events, writer>>

\* rpc_proxy_run: its first test of the state, then the writer is created.
ProxyRun ==
    /\ proxy = "begun"
    /\ IF SessionUp THEN ProxyTo("open") /\ writer' = "loop"
                    ELSE Closes /\ UNCHANGED writer
    /\ InCall("idle") /\ UNCHANGED events

\* The client closes TCP, recv fails, or the writer's DONE bit is seen.
ProxyStop ==
    /\ proxy = "open"
    /\ ProxyTo("closing")
    /\ InCall("idle") /\ UNCHANGED <<events, writer>>

\* send_rpc of n chunks: the state is tested once, before the first.
SendRpc(n) ==
    /\ proxy = "open" /\ confirmed + n <= MaxChunks
    /\ IF SessionUp
         THEN call' = "arm" /\ op' = "data" /\ left' = n /\ SameSession
         ELSE InCall("idle") /\ ProxyTo("closing")
    /\ UNCHANGED <<events, writer>>

\* end_rpc after the writer has been joined, or straight after begin_rpc when
\* the answer to the client or the proxy's allocations fail.
EndRpc ==
    /\ proxy = "begun" \/ (proxy = "closing" /\ writer \in {"none", "done"})
    /\ writer' = "none"
    /\ IF SessionUp
         THEN call' = "apply" /\ op' = "stop" /\ ProxyTo("closing") /\ UNCHANGED left
         ELSE InCall("idle") /\ Closes
    /\ UNCHANGED events

ClientStarts ==
    /\ call = "idle"
    /\ \/ RequestReconnect \/ BeginRpc \/ ProxyRun \/ ProxyStop \/ EndRpc
       \/ \E n \in 1..MaxChunks : SendRpc(n)
    /\ UNCHANGED <<machine, requestVars, reply, session, rpc_rx, lineVars>>

-----------------------------------------------------------------------------
(* Client task: inside begin_rpc, send_rpc and end_rpc                      *)

\* transport_apply(BeginRpc) or transport_apply(EndRpc).
CallApply ==
    LET event == IF op = "start" THEN "BeginRpc" ELSE "EndRpc" IN
    /\ call = "apply"
    /\ machine' = Apply(machine, event)
    /\ IF Accepts(machine, event) THEN InCall("arm") /\ SameSession
                                  ELSE Returns /\ Closes
    /\ session' = IF op = "start" /\ Accepts(machine, event)
                    THEN session + 1 ELSE session
    /\ UNCHANGED <<events, requestVars, reply, rpc_rx, lineVars>>

\* send_wait_status: the request is armed, sent, answered or not, disarmed.
CallArm ==
    /\ call = "arm" /\ InCall("send")
    /\ ForgetAnswer
    /\ awaiting_status' = TRUE
    /\ UNCHANGED <<reply, lineVars>>

CallSend ==
    LET outcomes == IF op = "data" THEN OnData ELSE OnControl(op) IN
    /\ call = "send"
    /\ \/ Transmit(outcomes) /\ InCall("wait")
       \/ TransmitFails(outcomes) /\ InCall("unanswered")
    /\ UNCHANGED <<requestVars, reply>>

\* Mutant: the semaphore is awaited with portMAX_DELAY.
CallWaitForever ==
    /\ call = "wait" /\ status_semaphore /\ InCall("answered")
    /\ status_semaphore' = FALSE
    /\ UNCHANGED <<awaiting_status, last_status, reply, lineVars>>
\* The semaphore is taken, or BRIDGE_EXPANSION_ACK_TIMEOUT_MS pass.
CallWait ==
    /\ call = "wait"
    /\ InCall(IF status_semaphore THEN "answered" ELSE "unanswered")
    /\ status_semaphore' = FALSE
    /\ UNCHANGED <<awaiting_status, last_status, reply, lineVars>>

CallCollect ==
    /\ call \in {"answered", "unanswered"} /\ InCall("conclude")
    /\ awaiting_status' = FALSE
    /\ reply' = Answer
    /\ UNCHANGED <<last_status, status_semaphore, lineVars>>

SendWaitStatus ==
    /\ CallArm \/ CallSend \/ CallWait \/ CallCollect
    /\ SameSession /\ UNCHANGED <<machine, events, session, rpc_rx>>

\* begin_rpc, send_rpc or end_rpc returns an error: signal_link_lost first.
\* After send_rpc the proxy goes on to stop the writer and call end_rpc.
CallFails ==
    /\ events' = LinkLost
    /\ Returns
    /\ IF op = "data" THEN ProxyTo("closing") ELSE Closes
    /\ UNCHANGED machine

ConcludeStart ==
    /\ op = "start"
    /\ IF Succeeds("RpcStarted")
         THEN /\ machine' = Apply(machine, "RpcStarted")
              /\ Returns /\ ProxyTo("begun") /\ UNCHANGED events
         ELSE CallFails

ConcludeStop ==
    /\ op = "stop"
    /\ IF Succeeds("RpcStopped")
         THEN /\ machine' = Apply(machine, "RpcStopped")
              /\ InCall("reset") /\ SameSession /\ UNCHANGED events
         ELSE CallFails

\* The next chunk, or send_rpc returns ESP_OK.
ConcludeData ==
    /\ op = "data"
    /\ IF reply = "None"
         THEN /\ confirmed' = confirmed + 1
              /\ IF left = 1 THEN Returns
                 ELSE call' = "arm" /\ left' = left - 1 /\ UNCHANGED op
              /\ UNCHANGED <<machine, events, proxy, delivered>>
         ELSE CallFails

CallConclude ==
    /\ call = "conclude"
    /\ ConcludeStart \/ ConcludeStop \/ ConcludeData
    /\ reply' = "error"
    /\ UNCHANGED <<requestVars, session, rpc_rx, lineVars>>

\* end_rpc's xStreamBufferReset after a confirmed STOP.
CallReset ==
    /\ call = "reset"
    /\ ResetBuffer
    /\ Returns /\ Closes
    /\ UNCHANGED <<machine, events, requestVars, reply, session, lineVars>>

ClientContinues ==
    /\ CallApply \/ SendWaitStatus \/ CallConclude \/ CallReset
    /\ UNCHANGED writer

ClientTask ==
    /\ ClientStarts \/ ClientContinues
    /\ UNCHANGED <<supVars, negotiated_baud, uart_baud, rx, hb>>

-----------------------------------------------------------------------------
(* The proxy's writer task, calling receive_rpc                            *)

\* receive_rpc takes what fits the writer's buffer; send_all writes it to TCP,
\* or fails, and the writer shuts the socket down.
WriterForward ==
    /\ writer = "loop" /\ rpc_rx # <<>>
    /\ \E n \in 1..Len(rpc_rx) :
          /\ rpc_rx' = SubSeq(rpc_rx, n + 1, Len(rpc_rx))
          /\ \/ delivered' = delivered \o SubSeq(rpc_rx, 1, n) /\ UNCHANGED writer
             \/ writer' = "done" /\ UNCHANGED delivered

\* receive_rpc times out on an empty buffer, then reads the state.
WriterEmpty ==
    /\ writer = "loop" /\ rpc_rx = <<>>
    /\ writer' = "empty"
    /\ UNCHANGED <<delivered, rpc_rx>>

WriterCheck ==
    /\ writer = "empty"
    /\ writer' = IF SessionUp THEN "loop" ELSE "done"
    /\ UNCHANGED <<delivered, rpc_rx>>

\* The loop condition: PROXY_STOP_BIT.
WriterStop ==
    /\ writer = "loop" /\ proxy = "closing"
    /\ writer' = "done"
    /\ UNCHANGED <<delivered, rpc_rx>>

WriterTask ==
    /\ WriterForward \/ WriterEmpty \/ WriterCheck \/ WriterStop
    /\ UNCHANGED <<supVars, linkVars, requestVars, callVars, proxyVars,
                   lineVars, uart_baud, rx, hb>>

-----------------------------------------------------------------------------
Init ==
    /\ machine = InitialMachine /\ negotiated_baud = "0" /\ events = {}
    /\ awaiting_status = FALSE /\ last_status = "None" /\ status_semaphore = FALSE
    /\ rpc_rx = <<>> /\ uart_baud = InitialBaud /\ uart_rx = <<>>
    /\ sup = "startup" /\ attempts = 0 /\ baud_index = 1
    /\ rx = "none" /\ hb = "none"
    /\ call = "idle" /\ op = "none" /\ reply = "error" /\ left = 0
    /\ proxy = "closed" /\ session = 0 /\ confirmed = 0
    /\ writer = "none" /\ delivered = <<>>
    /\ flipper = Absent

Next == Supervisor \/ RxTask \/ HeartbeatTask \/ ClientTask \/ WriterTask
          \/ Environment

Spec == Init /\ [][Next]_vars

\* Every task of the bridge is scheduled again and again, and its timed waits
\* end.  Nothing is assumed of the Flipper or of the TCP client, except that
\* recv returns once the writer has shut the socket down.
Fairness ==
    /\ WF_vars(Supervisor) /\ WF_vars(RxTask) /\ WF_vars(HeartbeatTask)
    /\ WF_vars(WriterTask)
    /\ WF_vars(ClientTask /\ (ClientContinues \/ ProxyRun \/ EndRpc))
    /\ WF_vars(ClientTask /\ ProxyStop /\ writer = "done")

FairSpec == Spec /\ Fairness

-----------------------------------------------------------------------------
(* What a user of the transport sees                                       *)

LinkState ==
    CASE machine.state = "Ready" -> "ready"
      [] machine.state = "RpcReady" -> "rpc"
      [] machine.state \in {"StartingRpc", "StoppingRpc"} -> "busy"
      [] OTHER -> "down"

\* From the accepted transport_apply of begin_rpc or end_rpc to their return.
Asking == call \in {"arm", "send", "wait", "answered", "unanswered", "conclude"}
UserState ==
    IF Asking /\ op = "start" THEN "starting"
    ELSE IF Asking /\ op = "stop" THEN "stopping"
    ELSE IF proxy # "closed" /\ call # "reset" THEN "inside" ELSE "away"

Link == INSTANCE ExpansionLink WITH link <- LinkState, user <- UserState

\* The transport is a link as its users know it: begin_rpc and end_rpc move it in
\* the order the users rely on, and whatever else happens to it is a loss or a new
\* establishment.
ImplementsLink == Link!LinkSpec

\* The promises to a waiting user: the calls return, a session that is gone is
\* left, and an abandoned request brings the link down.
LinkKeepsPromises == Link!LinkProgress

-----------------------------------------------------------------------------
(* Properties                                                              *)

LinkTypeOK ==
    /\ machine \in Machine
    /\ negotiated_baud \in STRING \cup {"0"} /\ uart_baud \in STRING
    /\ events \subseteq {"LOST", "READY", "RECONNECT"}
SupTypeOK ==
    /\ sup \in Establishing \cup {"startup", "retry", "init", "failed", "spawn",
                                  "spawn_hb", "linked", "stop_io", "timeout"}
    /\ attempts \in 0..MaxRetries /\ baud_index \in 1..Len(BaudRates)
RequestTypeOK ==
    /\ awaiting_status \in BOOLEAN /\ status_semaphore \in BOOLEAN
    /\ last_status \in Statuses
IoTypeOK ==
    /\ rx \in {"none", "read", "give", "ack", "refuse"} /\ hb \in {"none", "loop"}
    /\ rpc_rx \in Seq(Items) /\ Len(rpc_rx) <= RpcRxCapacity
LineTypeOK == uart_rx \in Seq(Frames) /\ flipper \in Flippers
CallTypeOK ==
    /\ call \in {"idle", "apply", "arm", "send", "wait", "answered", "unanswered",
                 "conclude", "reset"}
    /\ op \in {"none", "start", "data", "stop"} /\ left \in 0..MaxChunks
    /\ reply \in Statuses \cup {"error"}
ProxyTypeOK ==
    /\ proxy \in {"closed", "begun", "open", "closing"}
    /\ writer \in {"none", "loop", "empty", "done"}
    /\ session \in 0..MaxSessions /\ confirmed \in 0..MaxChunks
    /\ delivered \in Seq(Items)

\* Every variable keeps its type; the receive buffer never exceeds its capacity
\* (bridge_io_buffer_can_accept) and the supervisor never counts past the limit.
TypeOK ==
    /\ LinkTypeOK /\ SupTypeOK /\ RequestTypeOK /\ IoTypeOK /\ LineTypeOK
    /\ CallTypeOK /\ ProxyTypeOK

\* Only one task reads the UART and owns the pins: while the supervisor
\* re-establishes the link, both I/O tasks of the previous one are gone
\* (stop_io_tasks before the next establish_expansion).
SingleUartReader ==
    rx # "none" \/ hb # "none" => sup \in {"spawn_hb", "linked", "stop_io"}

\* A client's begin_rpc or end_rpc that started on the previous link never moves
\* the machine under establish_expansion: each of its transport_apply calls
\* finds the state the previous one left, so none of them can be rejected.
EstablishmentOwnsMachine ==
    /\ sup = "start" => machine.state = "Disconnected"
    /\ sup \in {"uart", "await_hb"} => machine.state = "InitialUart"
    /\ sup \in {"send_baud", "await_baud"} => machine.state = "NegotiatingBaud"

\* What the TCP client has received, followed by what is buffered for it, is a
\* gap-free prefix of what the Flipper sent in this very session: no bytes of
\* an earlier session, none lost, repeated or reordered (docs/PROTOCOL.md:59).
SessionStreamIntact ==
    LET stream == delivered \o rpc_rx IN
    writer \in {"loop", "empty"} =>
        \A i \in DOMAIN stream : stream[i] = [session |-> session, n |-> i]

\* DATA the Flipper got an acknowledgement for is in the buffer or already with
\* the TCP client as long as the session is up: no silent loss (README.md:28).
AcknowledgedIsKept ==
    /\ proxy \in {"begun", "open"} /\ writer # "done"
    /\ machine.state = "RpcReady" /\ flipper.session = session
    => flipper.acked <= Len(delivered) + Len(rpc_rx)

\* A chunk send_rpc counts as sent was received by the Flipper in this session,
\* whatever STATUS frames arrive late, for another request or not at all.
ConfirmedMeansReceived ==
    machine.state = "RpcReady" /\ confirmed > 0
        => flipper.session = session /\ confirmed <= flipper.received

\* While begin_rpc's success stands, the Flipper did open the session: no late
\* STATUS of an earlier request, or of an earlier link, was taken for START's.
RpcReadyIsAgreed == machine.state = "RpcReady" => flipper.session = session

\* A link offered to the next client is not still in RPC mode on the Flipper's
\* side: the state is Ready only after a STOP the Flipper carried out.
ReadyIsAgreed == machine.state = "Ready" => flipper.mode # "rpc"

\* A session nobody runs is being torn down: with no call in progress and no
\* proxy, the machine is outside the RPC states or the loss is already signalled.
NotStranded ==
    /\ call = "idle" /\ proxy = "closed"
    /\ machine.state \in {"StartingRpc", "RpcReady", "StoppingRpc"}
    => "LOST" \in events

\* On an established link both ends use the rate that was negotiated.
BaudIsAgreed ==
    sup = "linked" /\ flipper.mode \in {"connected", "rpc"}
        => uart_baud = negotiated_baud /\ flipper.baud = uart_baud

\* If the link fails, the raw TCP session is closed (docs/PROTOCOL.md:63).
LossClosesProxy ==
    (proxy = "open" /\ machine.state # "RpcReady") ~> (proxy = "closed")

\* Every begin_rpc, send_rpc and end_rpc returns, answered or not.
CallsReturn == (call # "idle") ~> (call = "idle")

\* A lost link is torn down and established again unless the limit is reached.
LossIsRetried ==
    (sup = "linked" /\ "LOST" \in events)
        ~> (sup \in Establishing \/ attempts >= MaxRetries)

\* At the limit, an explicit request starts a new attempt
\* (docs/HARDWARE_TEST_PLAN.md:21).
RetryIsHonoured ==
    (sup = "retry" /\ attempts >= MaxRetries /\ "RECONNECT" \in events)
        ~> (sup \in Establishing)

\* Nothing is transmitted in the dead time between the answer to a BAUD RATE
\* request and the switch (docs/HARDWARE_TEST_PLAN.md:18).
DeadTimeIsSilent == [][sup = "dead_time" => ~CallSend]_vars
=============================================================================
