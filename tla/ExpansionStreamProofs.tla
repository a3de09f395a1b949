------------------------ MODULE ExpansionStreamProofs ------------------------
(***************************************************************************)
(* The bytes the Flipper sends in an RPC session reach the TCP client in   *)
(* order, without a gap and without bytes of another session, for every    *)
(* value of the constants of ExpansionTransport.                           *)
(*                                                                         *)
(* The argument counts DATA frames: at most one is unacknowledged, and it  *)
(* is on the line or in the RX task's hands.  A session that was stopped   *)
(* leaves none behind for the next one.                                    *)
(***************************************************************************)
EXTENDS ExpansionAgreementProofs

\* What the earlier theorems give for every reachable state.
Agreed == Established /\ AnswerInv

\* What both sides know of each other in every reachable state.
THEOREM AgreedIsKept == Spec => []Agreed
<1> QED
  BY KnownIsKept, CallerIsKept, NegotiationIsKept, AnswersAreKept, PTL
     DEF Agreed, Established

-----------------------------------------------------------------------------
(* The Flipper's account                                                    *)

\* At most one DATA frame is not acknowledged, and no session is from the future.
AccountInv ==
    /\ flipper.acked <= flipper.sent /\ flipper.sent <= flipper.acked + 1
    /\ flipper.session <= session

\* The Flipper forgets a session only when a pulse wakes it up.
LEMMA PulseAccount ==
    ASSUME flipper \in Flippers, EstPulse
    PROVE  \/ SameAccount
           \/ flipper'.session = 0 /\ flipper'.sent = 0 /\ flipper'.acked = 0
<1>1. /\ Gone.session = flipper.session /\ Gone.sent = flipper.sent
      /\ Gone.acked = flipper.acked /\ Gone.received = flipper.received
  BY DEF Gone, Flippers
<1> DEFINE greeted == [Absent EXCEPT !.mode = "greeted"]
<1>2. greeted.session = 0 /\ greeted.sent = 0 /\ greeted.acked = 0
  BY DEF Absent
<1>3. ASSUME NEW o \in OnPulse PROVE o.flipper \in {flipper, Gone, greeted}
  BY DEF OnPulse, Outcome
<1>4. flipper' \in {flipper, Gone, greeted}
  BY <1>3 DEF EstPulse
<1> HIDE DEF greeted
<1> QED
  BY <1>1, <1>2, <1>4 DEF SameAccount

\* Every other step of the supervisor leaves the account alone.
LEMMA EstablishAccount ==
    ASSUME Known, Establish, ~EstPulse
    PROVE  SameAccount
<1>1. flipper \in Flippers /\ baud_index \in 1..Len(BaudRates)
  BY DEF Known, TypeInv, TypeOK, LineTypeOK, SupTypeOK
<1>2. CASE EstSendBaud
  <2>1. sup = "send_baud" /\ BaudRates[baud_index] \in STRING
    BY <1>1, <1>2, BaudAssumption, ElementOfSeq DEF EstSendBaud
  <2> QED
    BY <1>2, <2>1, BaudEffects DEF EstSendBaud, TransmitFails, HangsUp, SameAccount,
       lineVars
<1>3. CASE ReceiveFails
  BY <1>3, StatusEffects DEF ReceiveFails, TransmitFails, HangsUp, SameAccount, lineVars,
     Statuses
<1>4. CASE flipper' = flipper
  BY <1>4 DEF SameAccount
<1> QED
  BY <1>2, <1>3, <1>4 DEF Establish, EstInit, EstStart, EstAwaitHeartbeat, EstAwaitBaud,
     EstSwitchBaud, Receives, lineVars

\* The Flipper waits for the acknowledgement of one DATA frame at a time, and its
\* session is one the bridge has opened.
THEOREM AccountIsKept == Spec => []AccountInv
<1>1. Init => AccountInv
  BY DEF Init, AccountInv, Absent
<1>2. Known /\ AccountInv /\ [Next]_vars => AccountInv'
  <2> SUFFICES ASSUME Known, AccountInv, [Next]_vars PROVE AccountInv'
    OBVIOUS
  <2>1. /\ flipper \in Flippers /\ flipper.session \in Nat /\ flipper.sent \in Nat
        /\ flipper.acked \in Nat /\ session \in Nat
    BY BoundsAssumption DEF Known, TypeInv, TypeOK, LineTypeOK, ProxyTypeOK, Flippers
  <2>2. CASE SameAccount /\ session' = session
    BY <2>2 DEF AccountInv, SameAccount
  <2>3. CASE Supervisor /\ Establish
    <3>1. session' = session
      BY <2>3 DEF Supervisor, proxyVars
    <3> QED
      BY <2>1, <2>2, <2>3, <3>1, PulseAccount, EstablishAccount DEF AccountInv
  <2>4. CASE ClientTask /\ SendWaitStatus /\ CallSend
    <3>1. session' = session
      BY <2>4 DEF SendWaitStatus
    <3> QED
      BY <2>1, <2>2, <2>4, <3>1, RequestEffects DEF AccountInv, lineVars, SameAccount,
         HangsUp, Declines, CarriesOutStart, CarriesOutStop, CarriesOutData
  <2>5. CASE RxTask
    <3>1. session' = session
      BY <2>5 DEF RxTask, proxyVars
    <3>2. CASE RxRefuse \/ RxAck
      BY <2>1, <3>1, <3>2, StatusEffects DEF RxRefuse, RxAck, TransmitFails, AccountInv,
         lineVars, SameAccount, HangsUp, TakesAck, Statuses
    <3> QED
      BY <2>2, <2>5, <3>1, <3>2 DEF RxTask, RxStop, RxReject, RxHeartbeat, RxStatus, RxGive,
         RxData, RxReads, lineVars, SameAccount
  <2>6. CASE HeartbeatTask
    BY <2>2, <2>6, HeartbeatEffects DEF HeartbeatTask, HbStop, HbTimeout, HbSend,
       TransmitFails, HangsUp, SameAccount, lineVars, proxyVars
  <2>7. CASE Environment
    <3>1. session' = session
      BY <2>7 DEF Environment, proxyVars
    <3>2. CASE FlipperData
      <4>1. /\ flipper'.session = flipper.session /\ flipper'.sent = flipper.sent + 1
            /\ flipper'.acked = flipper.acked /\ flipper.sent = flipper.acked
        BY <2>1, <3>2 DEF FlipperData, Flippers
      <4> QED
        BY <2>1, <3>1, <4>1 DEF AccountInv
    <3>3. CASE FlipperHeartbeat \/ FlipperLeaves
      BY <2>1, <2>2, <3>1, <3>3 DEF FlipperHeartbeat, FlipperLeaves, Gone, Flippers,
         SameAccount
    <3> QED
      BY <2>7, <3>2, <3>3 DEF Environment
  <2>8. CASE flipper' = flipper /\ session' \in {session, session + 1}
    BY <2>1, <2>8 DEF AccountInv
  <2> QED
    BY <2>3, <2>4, <2>5, <2>6, <2>7, <2>8 DEF Next, Supervisor, SupLoop, SupRun, ClientTask,
       ClientStarts, ClientContinues, CallApply, SendWaitStatus, CallArm, CallWait,
       CallCollect, CallConclude, CallReset, WriterTask, vars, lineVars, proxyVars
<1> QED
  BY <1>1, <1>2, KnownIsKept, PTL DEF Spec

-----------------------------------------------------------------------------
(* DATA on the line                                                         *)

TwoData(q)        == \E i, j \in 1..Len(q) :
                         i < j /\ q[i].type = "data" /\ q[j].type = "data"
DataBehindNone(q) == \E i, j \in 1..Len(q) :
                         i < j /\ q[i] = StatusFrame("None") /\ q[j].type = "data"
DataIs(q, d)      == \A i \in 1..Len(q) : q[i].type = "data" => q[i].item = d

\* Line p holds nothing that counts here and that q does not hold.
NoMore(p, q) ==
    /\ HasNone(p) => HasNone(q)
    /\ HasData(p) => HasData(q)
    /\ TwoData(p) => TwoData(q)
    /\ DataBehindNone(p) => DataBehindNone(q)
    /\ \A d : DataIs(q, d) => DataIs(p, d)

\* An empty line, and one with a heartbeat.
LEMMA QuietData ==
    ASSUME NEW q, NEW p, p = <<>> \/ p = <<HeartbeatFrame>>
    PROVE  NoMore(p, q)
<1>1. \A i \in 1..Len(p) : p[i].type = "heartbeat"
  BY FrameKinds
<1> QED
  BY <1>1, FrameKinds DEF NoMore, HasNone, HasData, TwoData, DataBehindNone, DataIs

\* The Flipper sends one more frame.
LEMMA PushData ==
    ASSUME NEW q \in Seq(Frames), NEW f \in Frames, NEW p, p = Append(q, f)
    PROVE  /\ TwoData(p) => TwoData(q) \/ (HasData(q) /\ f.type = "data")
           /\ DataBehindNone(p) => DataBehindNone(q) \/ (HasNone(q) /\ f.type = "data")
           /\ \A d : DataIs(q, d) /\ (f.type = "data" => f.item = d) => DataIs(p, d)
<1>1. /\ Len(q) \in Nat /\ Len(p) = Len(q) + 1 /\ p[Len(q) + 1] = f
      /\ \A i \in 1..Len(q) : p[i] = q[i]
  BY AppendProperties, LenProperties
<1>2. TwoData(p) => TwoData(q) \/ (HasData(q) /\ f.type = "data")
  BY <1>1 DEF TwoData, HasData
<1>3. DataBehindNone(p) => DataBehindNone(q) \/ (HasNone(q) /\ f.type = "data")
  BY <1>1 DEF DataBehindNone, HasNone
<1>4. ASSUME NEW d, DataIs(q, d), f.type = "data" => f.item = d PROVE DataIs(p, d)
  BY <1>1, <1>4 DEF DataIs
<1> QED
  BY <1>2, <1>3, <1>4

\* The bridge takes a frame off the line.
LEMMA PopData ==
    ASSUME NEW q \in Seq(Frames), q # <<>>, NEW p, p = Tail(q)
    PROVE  /\ NoMore(p, q)
           /\ Head(q) = StatusFrame("None") /\ HasData(p) => DataBehindNone(q)
           /\ Head(q).type = "data" /\ HasData(p) => TwoData(q)
           /\ \A d : Head(q).type = "data" /\ DataIs(q, d) => Head(q).item = d
<1>1. /\ Len(q) \in Nat \ {0} /\ Len(p) = Len(q) - 1 /\ Head(q) = q[1]
      /\ \A i \in 1..Len(p) : i + 1 \in 1..Len(q) /\ p[i] = q[i + 1]
  BY HeadTailProperties, LenProperties, EmptySeq
<1>2. (HasNone(p) => HasNone(q)) /\ (HasData(p) => HasData(q))
  BY PopFrame
<1>3. TwoData(p) => TwoData(q)
  <2> SUFFICES ASSUME NEW i \in 1..Len(p), NEW j \in 1..Len(p), i < j,
                      p[i].type = "data", p[j].type = "data"
               PROVE  TwoData(q)
    BY DEF TwoData
  <2>1. i + 1 < j + 1 /\ q[i + 1].type = "data" /\ q[j + 1].type = "data"
    BY <1>1
  <2> QED
    BY <1>1, <2>1 DEF TwoData
<1>4. DataBehindNone(p) => DataBehindNone(q)
  <2> SUFFICES ASSUME NEW i \in 1..Len(p), NEW j \in 1..Len(p), i < j,
                      p[i] = StatusFrame("None"), p[j].type = "data"
               PROVE  DataBehindNone(q)
    BY DEF DataBehindNone
  <2>1. i + 1 < j + 1 /\ q[i + 1] = StatusFrame("None") /\ q[j + 1].type = "data"
    BY <1>1
  <2> QED
    BY <1>1, <2>1 DEF DataBehindNone
<1>5. ASSUME NEW d, DataIs(q, d)
      PROVE  DataIs(p, d) /\ (Head(q).type = "data" => Head(q).item = d)
  BY <1>1, <1>5 DEF DataIs
<1>6. ASSUME HasData(p), Head(q).type = "data" PROVE TwoData(q)
  <2>1. PICK j \in 1..Len(p) : p[j].type = "data"
    BY <1>6 DEF HasData
  <2>2. 1 \in 1..Len(q) /\ j + 1 \in 1..Len(q) /\ 1 < j + 1 /\ q[j + 1].type = "data"
    BY <1>1, <2>1
  <2> QED
    BY <1>1, <1>6, <2>2 DEF TwoData
<1>7. ASSUME HasData(p), Head(q) = StatusFrame("None") PROVE DataBehindNone(q)
  <2>1. PICK j \in 1..Len(p) : p[j].type = "data"
    BY <1>7 DEF HasData
  <2>2. 1 \in 1..Len(q) /\ j + 1 \in 1..Len(q) /\ 1 < j + 1 /\ q[j + 1].type = "data"
    BY <1>1, <2>1
  <2> QED
    BY <1>1, <1>7, <2>2 DEF DataBehindNone
<1> QED
  BY <1>2, <1>3, <1>4, <1>5, <1>6, <1>7 DEF NoMore

\* A refusal adds nothing that counts, and neither does a Flipper that hangs up.
LEMMA NothingMore ==
    ASSUME uart_rx \in Seq(Frames),
           \/ uart_rx' = uart_rx
           \/ uart_rx' = Append(uart_rx, StatusFrame("Unknown"))
    PROVE  NoMore(uart_rx', uart_rx)
<1>1. CASE uart_rx' = uart_rx
  BY <1>1 DEF NoMore
<1>2. CASE uart_rx' = Append(uart_rx, StatusFrame("Unknown"))
  <2>1. StatusFrame("Unknown") \in Frames /\ StatusFrame("Unknown").type = "status"
    BY FrameTypes, FrameKinds DEF Statuses
  <2>2. /\ HasNone(uart_rx') => HasNone(uart_rx)
        /\ HasData(uart_rx') => HasData(uart_rx)
    BY <1>2, UnknownIsPushed
  <2>3. /\ TwoData(uart_rx') => TwoData(uart_rx)
        /\ DataBehindNone(uart_rx') => DataBehindNone(uart_rx)
        /\ \A d : DataIs(uart_rx, d) => DataIs(uart_rx', d)
    BY <1>2, <2>1, PushData
  <2> QED
    BY <2>2, <2>3 DEF NoMore
<1> QED
  BY <1>1, <1>2

\* The answer None to STOP has been taken over by the request, or is about to be
\* given to it on a link whose loss is not signalled.
StopAnswered ==
    /\ op = "stop"
    /\ \/ awaiting_status /\ last_status = "None" /\ (~Lost \/ rx # "give")
       \/ reply = "None"

\* The Flipper sends no DATA behind its answer to STOP, so that none is left when
\* the answer has been read, nor when the next session begins.
EndedInv ==
    /\ machine.state \in {"Ready", "StartingRpc"} /\ LineOpen /\ flipper.mode = "connected"
          => ~HasData(uart_rx)
    /\ machine.state = "StoppingRpc" /\ ~Lost /\ LineOpen /\ HasNone(uart_rx)
          => flipper.mode # "rpc" /\ ~DataBehindNone(uart_rx)
    /\ machine.state = "StoppingRpc" /\ LineOpen /\ StopAnswered
          => flipper.mode # "rpc" /\ ~HasData(uart_rx)

\* The one DATA frame of this session that is not acknowledged is on the line or in
\* the RX task's hands, never both.
SingleInv ==
    /\ LineOpen /\ machine.state \in RpcStates /\ flipper.session = session
         /\ HasData(uart_rx)
       => /\ flipper.sent = flipper.acked + 1 /\ ~TwoData(uart_rx)
          /\ DataIs(uart_rx, [session |-> session, n |-> flipper.sent])
    /\ rx \in {"ack", "refuse"} =>
          \/ machine.state = "RpcReady"
          \/ machine.state = "StoppingRpc" /\ ~Answered
    /\ rx \in {"ack", "refuse"} /\ flipper.session = session
          => ~HasData(uart_rx) /\ flipper.sent = flipper.acked + 1

DataInv == EndedInv /\ SingleInv

\* Nothing is to be shown of a closed line outside Ready and the RPC states.
LEMMA ClosedData ==
    ASSUME ~LineOpen', machine'.state \notin RpcStates \cup {"Ready"}
    PROVE  DataInv'
BY DEF DataInv, EndedInv, SingleInv, LineOpen, RpcStates

\* The steps that neither add DATA nor move the session.
LEMMA DataSettles ==
    ASSUME DataInv, NoMore(uart_rx', uart_rx), SameAccount,
           flipper'.mode = "rpc" => flipper.mode = "rpc",
           flipper'.mode = "connected" => flipper.mode = "connected",
           UNCHANGED <<machine, session>>,
           LineOpen' => LineOpen,
           Lost => Lost',
           rx' \in {"ack", "refuse"} => rx' = rx /\ (Answered' => Answered),
           LineOpen' /\ StopAnswered' => StopAnswered
    PROVE  DataInv'
<1>1. EndedInv'
  BY DEF DataInv, EndedInv, NoMore
<1>2. SingleInv'
  BY DEF DataInv, SingleInv, NoMore, SameAccount
<1> QED
  BY <1>1, <1>2 DEF DataInv

\* The supervisor: the line opens without DATA.
LEMMA SupervisorData ==
    ASSUME Agreed, Agreed', DataInv, Supervisor
    PROVE  DataInv'
<1>1. machine \in Machine /\ uart_rx \in Seq(Frames)
  BY DEF Agreed, Established, Known, TypeInv, TypeOK, LinkTypeOK, LineTypeOK
<1>2. /\ rx # "none" => sup \in {"spawn_hb", "linked", "stop_io"}
      /\ rx' # "none" => sup' \in {"spawn_hb", "linked", "stop_io"}
  BY DEF Agreed, Established, Known, SingleUartReader
<1>3. MachineInv /\ MachineInv'
  BY DEF Agreed, Established, Known, OwnershipInv
<1>4. CASE sup' \notin LinkedUp \cup Switching
  <2>1. ~LineOpen'
    BY <1>2, <1>4 DEF LineOpen, LinkedUp
  <2>2. CASE SupLoop
    BY <1>3, <2>1, <2>2, ClosedData DEF SupLoop, SupStartup, SupWake, SupRetry, MachineInv,
       RpcStates
  <2>3. CASE Establish /\ ~EstSwitchBaud
    <3>1. machine'.state \notin RpcStates \cup {"Ready"}
      BY <1>1, <1>3, <1>4, <2>3, ApplyStates DEF Establish, EstInit, EstStart, EstPulse,
         EstAwaitHeartbeat, EstSendBaud, EstAwaitBaud, EstablishApply, Proceed,
         EstablishFails, ReceiveFails, InitialMachine, Successor, MachineInv,
         EstablishmentOwnsMachine, RpcStates, Switching
    <3> QED
      BY <2>1, <3>1, ClosedData
  <2>4. CASE EstSwitchBaud
    <3>1. flipper' = flipper /\ uart_rx' = uart_rx /\ machine' = machine /\ session' = session
      BY <2>4 DEF EstSwitchBaud, lineVars, Supervisor, proxyVars
    <3>2. rx' = "none"
      BY <2>1 DEF LineOpen
    <3> QED
      BY <2>1, <3>1, <3>2 DEF DataInv, EndedInv, SingleInv
  <2>5. CASE SupFailed \/ SupTimeout
    <3>1. machine'.state \in {"Disconnected", "Backoff"}
      BY <1>1, <2>5, ApplyStates DEF SupFailed, SupTimeout
    <3> QED
      BY <2>1, <3>1, ClosedData DEF RpcStates
  <2> QED
    BY <1>4, <2>2, <2>3, <2>4, <2>5 DEF Supervisor, SupRun, SupSpawn, SupSpawnHeartbeat,
       SupLost, SupStopIo, LinkedUp
<1>5. CASE EstAwaitBaud /\ sup' \in LinkedUp \cup Switching
  <2>1. /\ Receives(StatusFrame("None")) /\ sup = "await_baud" /\ sup' = "dead_time"
        /\ machine' = Apply(machine, "BaudAccepted")
    BY <1>5 DEF EstAwaitBaud, EstablishApply, ReceiveFails, EstablishFails, Proceed,
       LinkedUp, Switching
  <2>2. machine'.state = "Ready" /\ rx' = "none"
    BY <1>1, <1>2, <1>3, <2>1, ApplyStates DEF Successor, MachineInv, EstablishmentOwnsMachine
  <2>3. flipper.mode = "connected" => ~HasData(uart_rx)
    BY <2>1 DEF Agreed, Established, NegotiationInv, GreetingInv, Greeting
  <2>4. flipper' = flipper /\ (HasData(uart_rx') => HasData(uart_rx))
    BY <1>1, <2>1, PopFrame DEF Receives
  <2> QED
    BY <2>2, <2>3, <2>4 DEF DataInv, EndedInv, SingleInv, RpcStates
<1>6. CASE \/ Establish /\ EstSwitchBaud /\ sup' \in LinkedUp \cup Switching
           \/ SupRun /\ (SupSpawn \/ SupSpawnHeartbeat \/ SupLost \/ SupStopIo)
  <2>1. /\ uart_rx' = uart_rx /\ flipper' = flipper /\ machine' = machine
        /\ UNCHANGED <<session, call, op, reply, awaiting_status, last_status,
                       status_semaphore>>
    BY <1>6 DEF SupRun, EstSwitchBaud, SupSpawn, SupSpawnHeartbeat, SupLost, SupStopIo,
       lineVars, Supervisor, proxyVars, callVars, requestVars
  <2>2. Lost => Lost'
    BY <1>6 DEF Establish, SupSpawn, SupSpawnHeartbeat, SupLost, SupStopIo, LinkLost, Lost
  <2>3. rx' # "none" => rx' = rx \/ (rx' = "read" /\ sup = "spawn")
    BY <1>6 DEF Establish, SupSpawn, SupSpawnHeartbeat, SupLost, SupStopIo, RxLoops,
       StopIoTasks
  <2>4. LineOpen' => LineOpen
    BY <1>6, <2>3 DEF EstSwitchBaud, EstablishFails, SupSpawn, SupSpawnHeartbeat, SupLost,
       SupStopIo, LineOpen, Switching
  <2>5. LineOpen' /\ rx' = "none" => rx = "none"
    BY <1>2, <1>6 DEF LineOpen, EstSwitchBaud, Establish, SupSpawn, SupSpawnHeartbeat,
       SupLost, SupStopIo, Switching
  <2>6. /\ LineOpen' /\ StopAnswered' => StopAnswered
        /\ Answered' = Answered /\ SameAccount
    BY <1>2, <2>1, <2>2, <2>3, <2>5 DEF StopAnswered, Answered, SameAccount
  <2> QED
    BY <1>1, <2>1, <2>2, <2>3, <2>4, <2>6, NothingMore, DataSettles
<1> QED
  BY <1>4, <1>5, <1>6 DEF Supervisor, SupLoop, SupStartup, SupWake, SupRetry, Establish,
     EstInit, EstStart, EstPulse, EstAwaitHeartbeat, EstSendBaud, EstablishApply, Proceed,
     EstablishFails, ReceiveFails, SupRun, SupFailed, SupTimeout, LinkedUp, Switching

\* The RX task takes the one DATA frame off the line and acknowledges it, and reads
\* the answer to STOP with no DATA behind it.
LEMMA RxTaskData ==
    ASSUME Agreed, AccountInv, DataInv, RxTask
    PROVE  DataInv'
<1>1. uart_rx \in Seq(Frames) /\ sup \in LinkedUp /\ rx # "none"
  <2>1. rx # "none"
    BY DEF RxTask, RxStop, RxReject, RxHeartbeat, RxStatus, RxGive, RxData, RxRefuse, RxAck,
       RxReads
  <2> QED
    BY <2>1 DEF Agreed, Established, Known, TypeInv, TypeOK, LineTypeOK, SingleUartReader,
       LinkedUp
<1>2. /\ LineOpen /\ sup' = sup
      /\ LineOpen' => rx' # "none"
      /\ UNCHANGED <<machine, session, call, op, reply, awaiting_status>>
  BY <1>1 DEF RxTask, supVars, callVars, proxyVars, LineOpen, LinkedUp, Switching
<1>3. Lost => Lost'
  BY DEF RxTask, RxStop, RxReject, RxHeartbeat, RxStatus, RxGive, RxData, RxRefuse, RxAck,
     RxBreak, LinkLost, Lost
<1>4. CASE RxStop \/ RxReject \/ RxGive
  <2>1. /\ flipper' = flipper /\ uart_rx' = uart_rx /\ last_status' = last_status
        /\ rx' = "none" \/ (rx = "give" /\ rx' = "read" /\ ~Lost)
    BY <1>4 DEF RxStop, RxReject, RxGive, RxBreak, RxLoops, Lost, lineVars
  <2>2. SameAccount /\ (LineOpen' /\ StopAnswered' => StopAnswered)
    BY <1>2, <2>1 DEF SameAccount, StopAnswered
  <2> QED
    BY <1>1, <1>2, <1>3, <2>1, <2>2, NothingMore, DataSettles
<1>5. CASE RxHeartbeat
  <2>1. /\ uart_rx # <<>> /\ uart_rx' = Tail(uart_rx) /\ flipper' = flipper
        /\ UNCHANGED <<last_status, events>> /\ rx = "read" /\ rx' \in {"none", "read"}
    BY <1>5 DEF RxHeartbeat, RxReads, RxLoops
  <2>2. SameAccount /\ (StopAnswered' => StopAnswered) /\ NoMore(uart_rx', uart_rx)
    BY <1>1, <1>2, <2>1, PopData DEF SameAccount, StopAnswered
  <2> QED
    BY <1>2, <1>3, <2>1, <2>2, DataSettles
<1>6. CASE RxStatus
  <2>1. /\ uart_rx # <<>> /\ uart_rx' = Tail(uart_rx) /\ flipper' = flipper
        /\ rx = "read" /\ Head(uart_rx).type = "status"
        /\ \/ awaiting_status /\ last_status' = Head(uart_rx).status /\ rx' = "give"
              /\ events' = events
           \/ rx' = "none"
    BY <1>6 DEF RxStatus, RxReads, RxBreak
  <2>2. NoMore(uart_rx', uart_rx) /\ SameAccount
    BY <1>1, <2>1, PopData DEF SameAccount
  <2>3. CASE StopAnswered' => StopAnswered
    BY <1>2, <1>3, <2>1, <2>2, <2>3, DataSettles
  <2>4. CASE rx' = "none"
    BY <1>2, <1>3, <2>2, <2>1, <2>4, DataSettles
  <2>5. CASE rx' = "give" /\ StopAnswered' /\ ~StopAnswered
    <3>1. ~Lost /\ op = "stop" /\ last_status' = "None" /\ last_status' = Head(uart_rx).status
      BY <1>2, <2>1, <2>5 DEF StopAnswered, Lost
    <3>2. Head(uart_rx) = StatusFrame("None")
      BY <1>1, <2>1, <3>1, FrameKinds, HeadTailProperties
    <3>3. HasNone(uart_rx) /\ (HasData(uart_rx') => DataBehindNone(uart_rx))
      BY <1>1, <2>1, <3>2, PopFrame, PopData
    <3>4. EndedInv'
      BY <1>2, <2>1, <2>2, <3>1, <3>3 DEF DataInv, EndedInv, NoMore, Lost
    <3>5. SingleInv'
      BY <1>2, <2>1, <2>2, <2>5 DEF DataInv, SingleInv, NoMore, SameAccount
    <3> QED
      BY <3>4, <3>5 DEF DataInv
  <2> QED
    BY <2>1, <2>3, <2>4, <2>5
<1>7. CASE RxData
  <2>1. /\ uart_rx # <<>> /\ uart_rx' = Tail(uart_rx) /\ flipper' = flipper
        /\ Head(uart_rx).type = "data" /\ machine.state = "RpcReady"
    BY <1>7 DEF RxData, RxReads, SessionUp
  <2>2. flipper.session = session
    BY <2>1 DEF Agreed, AnswerInv, EarnedInv
  <2>3. HasData(uart_rx) /\ (HasData(uart_rx') => TwoData(uart_rx))
    BY <1>1, <2>1, PopFrame, PopData
  <2>4. ~HasData(uart_rx') /\ flipper.sent = flipper.acked + 1
    BY <1>2, <2>1, <2>2, <2>3 DEF DataInv, SingleInv, RpcStates
  <2> QED
    BY <1>2, <2>1, <2>4 DEF DataInv, EndedInv, SingleInv
<1>8. CASE RxRefuse \/ RxAck
  <2>1. /\ last_status' = last_status /\ rx' \in {"none", "read"} /\ rx \in {"ack", "refuse"}
        /\ rx' = "read" => events' = events
    BY <1>8 DEF RxRefuse, RxAck, RxBreak, RxLoops
  <2>2. LineOpen' /\ StopAnswered' => StopAnswered
    BY <1>2, <2>1 DEF StopAnswered, Lost
  <2>3. UNCHANGED lineVars \/ HangsUp \/ TakesAck
    BY <1>8, StatusEffects DEF RxRefuse, RxAck, TransmitFails, Agreed, Established, Statuses
  <2>4. CASE UNCHANGED lineVars \/ HangsUp
    <3>1. /\ SameAccount /\ (flipper'.mode = flipper.mode \/ flipper'.mode = "away")
          /\ NoMore(uart_rx', uart_rx)
      BY <1>1, <2>4, NothingMore DEF lineVars, HangsUp, SameAccount
    <3> QED
      BY <1>2, <1>3, <2>1, <2>2, <3>1, DataSettles
  <2>5. CASE TakesAck
    <3>1. /\ flipper.mode = "rpc" /\ flipper'.mode = "rpc" /\ uart_rx' = uart_rx
          /\ flipper'.session = flipper.session
      BY <2>5 DEF TakesAck
    <3>2. EndedInv'
      BY <1>2, <1>3, <2>2, <3>1 DEF DataInv, EndedInv
    <3>3. SingleInv'
      BY <1>2, <2>1, <3>1 DEF DataInv, SingleInv
    <3> QED
      BY <3>2, <3>3 DEF DataInv
  <2> QED
    BY <2>3, <2>4, <2>5
<1> QED
  BY <1>4, <1>5, <1>6, <1>7, <1>8 DEF RxTask

\* The Flipper sends its next DATA frame only when the previous one is acknowledged,
\* and not once it has answered STOP.
LEMMA OthersData ==
    ASSUME Agreed, AccountInv, DataInv,
           HeartbeatTask \/ WriterTask \/ Environment \/ UNCHANGED vars
    PROVE  DataInv'
<1>1. uart_rx \in Seq(Frames) /\ flipper \in Flippers
  BY DEF Agreed, Established, Known, TypeInv, TypeOK, LineTypeOK
<1>2. UNCHANGED <<machine, call, op, reply, session, awaiting_status, last_status,
                  status_semaphore, rx, sup>>
  BY DEF HeartbeatTask, WriterTask, Environment, vars, supVars, linkVars, callVars,
     proxyVars, requestVars
<1>3. /\ Lost => Lost'
      /\ LineOpen' = LineOpen /\ Answered' = Answered
  BY <1>2 DEF HeartbeatTask, HbStop, HbTimeout, HbSend, LinkLost, WriterTask, Environment,
     vars, linkVars, Lost, LineOpen, Answered
<1>4. StopAnswered' => StopAnswered
  BY <1>2, <1>3 DEF StopAnswered
<1>5. CASE ~FlipperData \/ ~Environment
  <2>1. /\ SameAccount /\ (flipper'.mode = flipper.mode \/ flipper'.mode = "away")
        /\ NoMore(uart_rx', uart_rx)
    <3>1. CASE HbSend
      <4>1. UNCHANGED lineVars \/ HangsUp
        BY <3>1, HeartbeatEffects DEF HbSend, TransmitFails, Agreed, Established
      <4> QED
        BY <1>1, <4>1, NothingMore DEF lineVars, HangsUp, SameAccount
    <3>2. CASE FlipperHeartbeat
      BY <3>2, QuietData DEF FlipperHeartbeat, SameAccount
    <3>3. CASE FlipperLeaves
      BY <1>1, <3>3, NothingMore DEF FlipperLeaves, Gone, Flippers, SameAccount
    <3>4. CASE UNCHANGED lineVars
      BY <1>1, <3>4, NothingMore DEF lineVars, SameAccount
    <3> QED
      BY <1>5, <3>1, <3>2, <3>3, <3>4 DEF HeartbeatTask, HbStop, HbTimeout, WriterTask,
         Environment, vars
  <2> QED
    BY <1>2, <1>3, <1>4, <2>1, DataSettles
<1>6. CASE Environment /\ FlipperData
  <2> DEFINE d == [session |-> flipper.session, n |-> flipper.sent + 1]
  <2>1. DataFrame(d) \in Frames /\ DataFrame(d).type = "data" /\ DataFrame(d).item = d
    <3>1. d \in Items
      BY <1>1, <1>6, BoundsAssumption DEF FlipperData, Flippers, Items
    <3> QED
      BY <3>1, FrameTypes, FrameKinds
  <2>2. /\ uart_rx' = Append(uart_rx, DataFrame(d)) /\ flipper.mode = "rpc"
        /\ flipper'.mode = "rpc" /\ flipper'.session = flipper.session
        /\ flipper'.sent = flipper.sent + 1 /\ flipper'.acked = flipper.acked
        /\ flipper.sent = flipper.acked /\ flipper.acked \in Nat
    BY <1>1, <1>6 DEF FlipperData, Flippers
  <2>3. d = [session |-> flipper'.session, n |-> flipper'.sent]
    BY <2>2
  <2> HIDE DEF d
  <2>4. /\ HasNone(uart_rx') => HasNone(uart_rx)
        /\ TwoData(uart_rx') => TwoData(uart_rx) \/ HasData(uart_rx)
        /\ DataIs(uart_rx, d) => DataIs(uart_rx', d)
    BY <1>1, <2>1, <2>2, PushFrame, PushData, FrameKinds
  <2>5. EndedInv'
    BY <1>2, <1>3, <1>4, <2>2, <2>4 DEF DataInv, EndedInv
  <2>6. /\ ~HasData(uart_rx) => ~TwoData(uart_rx) /\ DataIs(uart_rx, d)
        /\ flipper.sent # flipper.acked + 1
    BY <2>2 DEF HasData, TwoData, DataIs
  <2>7. SingleInv'
    BY <1>2, <1>3, <2>2, <2>3, <2>4, <2>6 DEF DataInv, SingleInv
  <2> QED
    BY <2>5, <2>7 DEF DataInv
<1> QED
  BY <1>5, <1>6

\* START finds a line without DATA, and STOP is the last frame a session hears.
LEMMA SendData ==
    ASSUME Agreed, AccountInv, DataInv, ClientTask, CallSend, SendWaitStatus
    PROVE  DataInv'
<1>1. uart_rx \in Seq(Frames) /\ flipper \in Flippers
  BY DEF Agreed, Established, Known, TypeInv, TypeOK, LineTypeOK
<1>2. /\ call = "send" /\ Asking
      /\ UNCHANGED <<machine, op, reply, session, events, rx, sup, awaiting_status,
                     last_status, status_semaphore>>
      /\ call' \in {"wait", "unanswered"}
  BY RequestEffects DEF CallSend, InCall, SendWaitStatus, ClientTask, supVars, requestVars,
     Agreed, Established, Asking
<1>3. /\ Lost' = Lost /\ LineOpen' = LineOpen /\ StopAnswered' = StopAnswered
      /\ Answered' = Answered /\ ~Pending
  BY <1>2 DEF Lost, LineOpen, StopAnswered, Answered, Pending, Agreed, Established,
     CallerInv, RequestInv
<1>4. CASE UNCHANGED lineVars \/ HangsUp \/ Declines
  <2>1. /\ SameAccount /\ (flipper'.mode = flipper.mode \/ flipper'.mode = "away")
        /\ NoMore(uart_rx', uart_rx)
    BY <1>1, <1>4, NothingMore DEF lineVars, HangsUp, Declines, SameAccount
  <2> QED
    BY <1>2, <1>3, <2>1, DataSettles
<1>5. CASE PinsAttached /\ (CarriesOutStart \/ CarriesOutStop \/ CarriesOutData)
  <2>1. StatusFrame("None") \in Frames /\ StatusFrame("None").type = "status"
    BY FrameTypes, FrameKinds DEF Statuses
  <2>2. uart_rx' = Append(uart_rx, StatusFrame("None"))
    BY <1>5 DEF CarriesOutStart, CarriesOutStop, CarriesOutData
  <2>3. /\ HasData(uart_rx') => HasData(uart_rx)
        /\ TwoData(uart_rx') => TwoData(uart_rx)
        /\ DataBehindNone(uart_rx') => DataBehindNone(uart_rx)
        /\ \A d : DataIs(uart_rx, d) => DataIs(uart_rx', d)
    BY <1>1, <2>1, <2>2, PushFrame, PushData
  <2>4. /\ op = "start" => machine.state = "StartingRpc"
        /\ op = "stop" => machine.state = "StoppingRpc"
        /\ machine.state = "StoppingRpc" => op = "stop"
    BY <1>2, <1>5 DEF PinsAttached, Agreed, Established, CallerInv, ControlInv, RpcStateInv
  <2>5. CASE CarriesOutStart
    <3>1. machine.state = "StartingRpc" /\ flipper.mode = "connected" /\ flipper'.mode = "rpc"
      BY <2>4, <2>5 DEF CarriesOutStart
    <3>2. LineOpen' => ~HasData(uart_rx')
      BY <1>3, <2>3, <3>1 DEF DataInv, EndedInv
    <3> QED
      BY <1>2, <3>1, <3>2 DEF DataInv, EndedInv, SingleInv
  <2>6. CASE CarriesOutStop
    <3>1. /\ machine.state = "StoppingRpc" /\ flipper.mode = "rpc"
          /\ flipper'.mode = "connected" /\ SameAccount
      BY <2>4, <2>6 DEF CarriesOutStop
    <3>2. LineOpen /\ ~Lost => ~HasNone(uart_rx)
      BY <1>3 DEF Agreed, AnswerInv, UnderWayInv
    <3>3. DataBehindNone(uart_rx) => HasNone(uart_rx)
      BY DEF DataBehindNone, HasNone
    <3>4. EndedInv'
      BY <1>2, <1>3, <2>3, <3>1, <3>2, <3>3 DEF DataInv, EndedInv
    <3>5. SingleInv'
      BY <1>2, <1>3, <2>3, <3>1 DEF DataInv, SingleInv, SameAccount
    <3> QED
      BY <3>4, <3>5 DEF DataInv
  <2>7. CASE CarriesOutData
    <3>1. /\ machine.state # "StoppingRpc" /\ flipper'.mode = "rpc"
          /\ flipper'.session = flipper.session /\ flipper'.sent = flipper.sent
          /\ flipper'.acked = flipper.acked
      BY <2>4, <2>7 DEF CarriesOutData
    <3>2. EndedInv'
      BY <1>2, <3>1 DEF EndedInv
    <3>3. SingleInv'
      BY <1>2, <1>3, <2>3, <3>1 DEF DataInv, SingleInv
    <3> QED
      BY <3>2, <3>3 DEF DataInv
  <2> QED
    BY <1>5, <2>5, <2>6, <2>7
<1> QED
  BY <1>4, <1>5, RequestEffects DEF Agreed, Established

\* The other steps of the client task leave the line alone.
LEMMA ClientData ==
    ASSUME Agreed, AccountInv, DataInv, ClientTask, ~CallSend
    PROVE  DataInv'
<1>1. /\ machine \in Machine /\ uart_rx \in Seq(Frames)
      /\ flipper.session \in Nat /\ session \in Nat
  BY BoundsAssumption DEF Agreed, Established, Known, TypeInv, TypeOK, LinkTypeOK,
     LineTypeOK, ProxyTypeOK, Flippers
<1>2. /\ UNCHANGED <<rx, sup, uart_rx, flipper>>
      /\ Lost => Lost'
  BY DEF ClientTask, supVars, lineVars, ClientStarts, RequestReconnect, BeginRpc, ProxyRun,
     ProxyStop, EndRpc, SendRpc, ClientContinues, CallApply, SendWaitStatus, CallArm,
     CallWait, CallCollect, CallConclude, ConcludeStart, ConcludeStop, ConcludeData,
     CallFails, CallReset, LinkLost, Lost
<1>3. LineOpen' = LineOpen /\ SameAccount /\ NoMore(uart_rx', uart_rx)
  BY <1>1, <1>2, NothingMore DEF LineOpen, SameAccount
<1>4. RequestInv
  BY DEF Agreed, Established, CallerInv
<1>5. CASE ClientStarts \/ CallReset
  <2>1. /\ UNCHANGED <<machine, session, awaiting_status, reply>>
        /\ ~awaiting_status /\ reply = "error" /\ call' # "answered"
    BY <1>4, <1>5 DEF ClientStarts, CallReset, RequestReconnect, BeginRpc, ProxyRun,
       ProxyStop, EndRpc, SendRpc, InCall, Returns, RequestInv, requestVars
  <2>2. ~Answered' /\ ~StopAnswered'
    BY <2>1 DEF Answered, StopAnswered
  <2> QED
    BY <1>2, <1>3, <2>1, <2>2, DataSettles
<1>6. CASE CallApply
  <2>1. /\ call = "apply" /\ op \in {"start", "stop"} /\ reply = "error"
        /\ ~awaiting_status /\ call' \in {"arm", "idle"}
        /\ UNCHANGED <<awaiting_status, reply, events>>
    BY <1>4, <1>6 DEF CallApply, InCall, Returns, RequestInv, requestVars, Agreed,
       Established, Known, TypeInv, CallInv
  <2>2. ~Answered' /\ ~StopAnswered' /\ ~Pending /\ Lost' = Lost
    BY <2>1 DEF Answered, StopAnswered, Pending, Lost
  <2>3. CASE machine' = machine /\ session' = session
    BY <1>2, <1>3, <2>2, <2>3, DataSettles
  <2>4. CASE machine.state = "Ready" /\ machine'.state = "StartingRpc" /\ session' = session + 1
    <3>1. flipper'.session # session' /\ rx' \notin {"ack", "refuse"}
      BY <1>1, <1>2, <2>4 DEF AccountInv, DataInv, SingleInv
    <3> QED
      BY <1>2, <1>3, <2>4, <3>1 DEF DataInv, EndedInv, SingleInv
  <2>5. CASE machine.state = "RpcReady" /\ machine'.state = "StoppingRpc" /\ session' = session
    <3>1. LineOpen /\ ~Lost => ~HasNone(uart_rx)
      BY <2>2 DEF Agreed, AnswerInv, UnderWayInv
    <3>2. EndedInv'
      BY <1>2, <1>3, <2>2, <2>5, <3>1 DEF EndedInv
    <3>3. SingleInv'
      BY <1>2, <1>3, <2>2, <2>5 DEF DataInv, SingleInv, RpcStates
    <3> QED
      BY <3>2, <3>3 DEF DataInv
  <2> QED
    BY <1>1, <1>6, <2>1, <2>3, <2>4, <2>5, ApplyStates DEF CallApply, Successor
<1>7. CASE SendWaitStatus
  <2>1. /\ UNCHANGED <<machine, session, op, events>>
    BY <1>7 DEF SendWaitStatus, CallArm, CallSend, CallWait, CallCollect, InCall
  <2>2. CASE CallArm \/ CallWait
    <3>1. (Answered' => Answered) /\ (StopAnswered' => StopAnswered)
      BY <1>2, <1>4, <2>1, <2>2 DEF CallArm, CallWait, InCall, ForgetAnswer, RequestInv,
         Answered, StopAnswered, Lost
    <3> QED
      BY <1>2, <1>3, <2>1, <3>1, DataSettles
  <2>3. CASE CallCollect
    <3>1. /\ call \in {"answered", "unanswered"} /\ call' = "conclude" /\ awaiting_status
          /\ reply = "error" /\ ~awaiting_status' /\ UNCHANGED status_semaphore
          /\ reply' = IF call = "answered" THEN last_status ELSE "error"
      BY <1>4, <2>3 DEF CallCollect, InCall, Answer, RequestInv
    <3>2. Answered' => Answered
      BY <3>1 DEF Answered
    <3>3. StopAnswered' => StopAnswered
      BY <1>2, <2>1, <3>1 DEF StopAnswered, Answered, Agreed, AnswerInv, AnsweredInv
    <3> QED
      BY <1>2, <1>3, <2>1, <3>2, <3>3, DataSettles
  <2> QED
    BY <1>7, <2>2, <2>3 DEF SendWaitStatus
<1>8. CASE CallConclude
  <2>1. /\ call = "conclude" /\ ~awaiting_status /\ reply' = "error" /\ session' = session
        /\ UNCHANGED awaiting_status /\ call' # "answered"
    BY <1>4, <1>8 DEF CallConclude, RequestInv, requestVars, ConcludeStart, ConcludeStop,
       ConcludeData, CallFails, Returns, InCall
  <2>2. ~Answered' /\ ~StopAnswered'
    BY <2>1 DEF Answered, StopAnswered
  <2>3. CASE machine' = machine
    BY <1>2, <1>3, <2>1, <2>2, <2>3, DataSettles
  <2>4. CASE machine.state = "StartingRpc" /\ machine'.state = "RpcReady"
    BY <1>2, <1>3, <2>1, <2>4 DEF DataInv, EndedInv, SingleInv, RpcStates
  <2>5. CASE /\ op = "stop" /\ reply = "None"
             /\ machine.state = "StoppingRpc" /\ machine'.state = "Ready"
    <3>1. Answered /\ StopAnswered
      BY <2>5 DEF Answered, StopAnswered
    <3> QED
      BY <1>2, <1>3, <2>5, <3>1 DEF DataInv, EndedInv, SingleInv, RpcStates
  <2> QED
    BY <1>1, <1>8, <2>3, <2>4, <2>5, ApplyStates DEF CallConclude, ConcludeStart,
       ConcludeStop, ConcludeData, CallFails, Succeeds, Successor
<1> QED
  BY <1>5, <1>6, <1>7, <1>8 DEF ClientTask, ClientContinues

\* The DATA on the line is always the one frame the Flipper waits to see acknowledged.
THEOREM DataIsKept == Spec => []DataInv
<1>1. Init => DataInv
  BY DEF Init, DataInv, EndedInv, SingleInv, LineOpen, Switching
<1>2. Agreed /\ Agreed' /\ AccountInv /\ DataInv /\ [Next]_vars => DataInv'
  BY SupervisorData, RxTaskData, OthersData, SendData, ClientData
     DEF Next, ClientTask, ClientStarts, ClientContinues, CallApply, CallConclude, CallReset,
         SendWaitStatus, CallSend
<1> QED
  BY <1>1, <1>2, AgreedIsKept, AccountIsKept, PTL DEF Spec

-----------------------------------------------------------------------------
(* The buffer and what has been delivered                                   *)

\* One more item in the buffer.
LEMMA StreamGrows ==
    ASSUME NEW s \in Seq(Items), NEW t \in Seq(Items), NEW x \in Items
    PROVE  /\ Len(s \o Append(t, x)) = Len(s) + Len(t) + 1
           /\ (s \o Append(t, x))[Len(s) + Len(t) + 1] = x
           /\ \A i \in 1..Len(s) + Len(t) : (s \o Append(t, x))[i] = (s \o t)[i]
<1>1. /\ Append(t, x) \in Seq(Items) /\ Len(Append(t, x)) = Len(t) + 1
      /\ Append(t, x)[Len(t) + 1] = x
      /\ \A i \in 1..Len(t) : Append(t, x)[i] = t[i]
      /\ Len(s) \in Nat /\ Len(t) \in Nat
  BY AppendProperties, LenProperties
<1>2. /\ Len(s \o Append(t, x)) = Len(s) + Len(Append(t, x))
      /\ \A i \in 1..Len(s) + Len(Append(t, x)) :
            (s \o Append(t, x))[i] =
                IF i <= Len(s) THEN s[i] ELSE Append(t, x)[i - Len(s)]
  BY <1>1, ConcatProperties
<1>3. \A i \in 1..Len(s) + Len(t) :
          (s \o t)[i] = IF i <= Len(s) THEN s[i] ELSE t[i - Len(s)]
  BY ConcatProperties
<1>4. ASSUME NEW i \in 1..Len(s) + Len(t) PROVE (s \o Append(t, x))[i] = (s \o t)[i]
  <2>1. CASE i <= Len(s)
    BY <1>1, <1>2, <1>3, <2>1
  <2>2. CASE i > Len(s)
    <3>1. i - Len(s) \in 1..Len(t) /\ ~(i <= Len(s))
      BY <1>1, <2>2
    <3> QED
      BY <1>1, <1>2, <1>3, <3>1
  <2> QED
    BY <1>1, <2>1, <2>2
<1>5. (s \o Append(t, x))[Len(s) + Len(t) + 1] = x
  <2>1. /\ Len(s) + Len(t) + 1 \in 1..Len(s) + Len(Append(t, x))
        /\ ~(Len(s) + Len(t) + 1 <= Len(s))
        /\ Len(s) + Len(t) + 1 - Len(s) = Len(t) + 1
    BY <1>1
  <2> QED
    BY <1>1, <1>2, <2>1
<1> QED
  BY <1>1, <1>2, <1>4, <1>5

\* It does not matter in which pieces a stream is put together.
LEMMA StreamPieces ==
    ASSUME NEW s \in Seq(Items), NEW u \in Seq(Items), NEW v \in Seq(Items)
    PROVE  (s \o u) \o v = s \o (u \o v)
BY ConcatAssociative

\* Some items go from the buffer to the client.
LEMMA StreamMoves ==
    ASSUME NEW s \in Seq(Items), NEW t \in Seq(Items), NEW n \in 1..Len(t)
    PROVE  /\ (s \o SubSeq(t, 1, n)) \o SubSeq(t, n + 1, Len(t)) = s \o t
           /\ Len(s \o SubSeq(t, 1, n)) + Len(SubSeq(t, n + 1, Len(t))) = Len(s) + Len(t)
<1>1. Len(s) \in Nat /\ Len(t) \in Nat /\ \A i \in 1..Len(t) : t[i] \in Items
  BY LenProperties, ElementOfSeq
<1>2. /\ SubSeq(t, 1, n) \in Seq(Items) /\ Len(SubSeq(t, 1, n)) = n
      /\ SubSeq(t, n + 1, Len(t)) \in Seq(Items)
      /\ Len(SubSeq(t, n + 1, Len(t))) = Len(t) - n
  <2>1. SubSeq(t, 1, n) \in Seq(Items) /\ Len(SubSeq(t, 1, n)) = n
    BY <1>1, SubSeqProperties
  <2>2. /\ SubSeq(t, n + 1, Len(t)) \in Seq(Items)
        /\ Len(SubSeq(t, n + 1, Len(t))) = Len(t) - n
    BY <1>1, SubSeqProperties
  <2> QED
    BY <2>1, <2>2
<1>3. SubSeq(t, 1, n) \o SubSeq(t, n + 1, Len(t)) = t
  <2>1. 1 \in 1..Len(t) + 1 /\ n \in 1 - 1..Len(t) /\ Len(t) \in n..Len(t)
    BY <1>1
  <2>2. SubSeq(t, 1, n) \o SubSeq(t, n + 1, Len(t)) = SubSeq(t, 1, Len(t))
    BY <2>1, ConcatAdjacentSubSeq
  <2> QED
    BY <2>2, SubSeqFull
<1> DEFINE a == SubSeq(t, 1, n)
           b == SubSeq(t, n + 1, Len(t))
<1>4. a \in Seq(Items) /\ b \in Seq(Items) /\ Len(a) = n /\ Len(b) = Len(t) - n /\ a \o b = t
  BY <1>2, <1>3
<1> HIDE DEF a, b
<1>5. (s \o a) \o b = s \o t
  BY <1>4, StreamPieces, Zenon
<1>6. Len(s \o a) + Len(b) = Len(s) + Len(t)
  <2>1. a \in Seq(Items)
    BY <1>4
  <2>2. Len(s \o a) = Len(s) + Len(a)
    BY <2>1, ConcatProperties, Zenon
  <2> QED
    BY <1>1, <1>4, <2>2
<1> QED
  BY <1>5, <1>6 DEF a, b

\* DATA frames of this session that are in the buffer or with the client.
Kept == Len(delivered) + Len(rpc_rx)

\* The writer forwards what the buffer holds, or is about to be created.
Reading == writer \in {"loop", "empty"} \/ proxy = "begun"

\* The session is under way, or START has been carried out, and nothing has been taken
\* out of the buffer other than by the writer.
Counting ==
    /\ sup \in LinkedUp /\ machine.state \in {"StartingRpc", "RpcReady"}
    /\ flipper.session = session
    /\ Reading \/ proxy = "closed"

\* A session begins with an empty buffer, whether the link is new or the previous
\* session on it was stopped.
EmptyInv ==
    /\ sup \in LinkedUp /\ machine.state \in {"Ready", "StartingRpc"} /\ call # "reset"
          => rpc_rx = <<>>
    /\ sup \in Switching /\ machine.state = "StartingRpc" /\ flipper.session = session
          => flipper.acked = 0

\* The DATA that is kept is the acknowledged DATA, and one frame more while the RX task
\* is about to acknowledge it.
KeptInv ==
    Counting =>
        /\ flipper.acked <= Kept
        /\ rx = "ack" => Kept = flipper.acked + 1
        /\ rx # "none" /\ HasData(uart_rx) => Kept = flipper.acked
        /\ rx \notin {"none", "ack", "refuse"} /\ flipper.sent = flipper.acked
              => Kept = flipper.acked

\* What is kept is this session's DATA from the first on, in order.
InOrder(s) == \A i \in 1..Len(s) : s[i] = [session |-> session, n |-> i]
OrderInv == Reading => InOrder(delivered \o rpc_rx)

StreamInv == EmptyInv /\ KeptInv /\ OrderInv

\* The steps that leave the buffer and the session alone.
LEMMA StreamSettles ==
    ASSUME StreamInv, HasData(uart_rx') => HasData(uart_rx), SameAccount,
           UNCHANGED <<machine, session, delivered, rpc_rx>>,
           Reading' => Reading,
           proxy' = "closed" => proxy = "closed",
           sup' \in LinkedUp => sup \in LinkedUp,
           sup' \in Switching => sup \in Switching,
           call = "reset" => call' = "reset",
           rx' # "none" => \/ rx' = rx
                           \/ rx \notin {"none", "ack", "refuse"} /\ rx' # "ack"
    PROVE  StreamInv'
<1>1. EmptyInv'
  BY DEF StreamInv, EmptyInv, SameAccount
<1>2. (Counting' => Counting) /\ Kept' = Kept
  BY DEF Counting, Kept, SameAccount
<1>3. KeptInv'
  BY <1>2 DEF StreamInv, KeptInv, SameAccount
<1>4. OrderInv'
  BY DEF StreamInv, OrderInv, InOrder
<1> QED
  BY <1>1, <1>3, <1>4 DEF StreamInv

\* What the theorems about the line give for every reachable state.
LineOk == Agreed /\ AccountInv /\ DataInv

\* The supervisor empties the buffer before the RX task of a new link exists, and
\* no DATA has been acknowledged by then, even if START has already been carried out.
LEMMA SupervisorStream ==
    ASSUME LineOk, LineOk', StreamInv, Supervisor
    PROVE  StreamInv'
<1>1. /\ delivered \in Seq(Items) /\ rpc_rx \in Seq(Items) /\ flipper.acked \in Nat
      /\ machine \in Machine
  BY DEF LineOk, Agreed, Established, Known, TypeInv, TypeOK, IoTypeOK, ProxyTypeOK,
     LinkTypeOK, LineTypeOK, Flippers
<1>2. /\ UNCHANGED <<call, proxy, session, writer, delivered>>
      /\ Reading' = Reading
  BY DEF Supervisor, callVars, proxyVars, writerVars, Reading
<1>3. CASE sup' \notin LinkedUp \cup Switching
  <2>1. rpc_rx' = rpc_rx
    BY <1>3 DEF Supervisor, SupLoop, Establish, SupRun, SupFailed, SupSpawn,
       SupSpawnHeartbeat, SupLost, SupStopIo, SupTimeout, LinkedUp
  <2> QED
    BY <1>2, <1>3, <2>1 DEF StreamInv, EmptyInv, KeptInv, Counting, OrderInv, InOrder
<1>4. CASE EstAwaitBaud /\ Establish /\ sup' \in LinkedUp \cup Switching
  <2>1. /\ sup' = "dead_time" /\ sup = "await_baud" /\ rpc_rx' = rpc_rx
        /\ machine' = Apply(machine, "BaudAccepted")
    BY <1>4 DEF EstAwaitBaud, Establish, EstablishApply, ReceiveFails, EstablishFails,
       Proceed, LinkedUp, Switching
  <2>2. machine'.state = "Ready"
    BY <1>1, <2>1, ApplyStates DEF Successor, LineOk, Agreed, Established, Known,
       OwnershipInv, MachineInv, EstablishmentOwnsMachine
  <2> QED
    BY <1>2, <2>1, <2>2 DEF StreamInv, EmptyInv, KeptInv, Counting, LinkedUp, OrderInv, InOrder
<1>5. CASE \/ Establish /\ EstSwitchBaud /\ sup' \in LinkedUp \cup Switching
           \/ SupRun /\ (SupSpawnHeartbeat \/ SupLost \/ SupStopIo)
  <2>1. /\ rpc_rx' = rpc_rx /\ machine' = machine /\ uart_rx' = uart_rx
        /\ flipper' = flipper /\ rx' \in {rx, "none"}
    BY <1>5 DEF Establish, EstSwitchBaud, SupRun, SupSpawnHeartbeat, SupLost, SupStopIo,
       StopIoTasks, lineVars
  <2>2. /\ sup' \in LinkedUp => sup \in LinkedUp
        /\ sup' \in Switching => sup \in Switching
    BY <1>5 DEF EstSwitchBaud, EstablishFails, SupSpawnHeartbeat, SupLost, SupStopIo,
       LinkedUp, Switching
  <2> QED
    BY <1>2, <2>1, <2>2, StreamSettles DEF SameAccount
<1>6. CASE SupRun /\ SupSpawn
  <2>1. /\ rpc_rx' = <<>> /\ machine' = machine /\ uart_rx' = uart_rx /\ flipper' = flipper
        /\ rx' # "ack" /\ sup = "spawn" /\ sup' \in LinkedUp
    <3>1. rx = "none"
      BY <1>6 DEF SupSpawn, LineOk, Agreed, Established, Known, SingleUartReader
    <3> QED
      BY <1>6, <3>1 DEF SupRun, SupSpawn, ResetBuffer, RxLoops, LinkedUp
  <2>2. EmptyInv'
    BY <2>1 DEF EmptyInv, LinkedUp, Switching
  <2>3. Counting' => machine.state = "StartingRpc" /\ flipper.session = session
                       /\ delivered = <<>>
    BY <1>2, <2>1 DEF Counting, LineOk, Agreed, Established, CallerInv, UpInv, RpcStateInv,
       WriterInv, LinkedUp, Known, PlaceInv
  <2>4. Counting' => Kept' = 0 /\ flipper'.acked = 0
    BY <1>2, <2>1, <2>3, EmptySeq DEF Kept, StreamInv, EmptyInv, Switching
  <2>5. KeptInv'
    BY <2>1, <2>4 DEF KeptInv
  <2>6. OrderInv'
    <3>1. /\ Len(delivered \o rpc_rx) = Len(delivered) + Len(rpc_rx)
          /\ \A i \in 1..Len(delivered) : (delivered \o rpc_rx)[i] = delivered[i]
          /\ delivered \o <<>> = delivered /\ Len(delivered) \in Nat /\ Len(rpc_rx) \in Nat
      BY <1>1, ConcatProperties, ConcatEmptySeq, LenProperties
    <3> QED
      BY <1>2, <2>1, <3>1 DEF StreamInv, OrderInv, InOrder
  <2> QED
    BY <2>2, <2>5, <2>6 DEF StreamInv
<1> QED
  BY <1>3, <1>4, <1>5, <1>6 DEF Supervisor, SupLoop, SupStartup, SupWake, SupRetry,
     Establish, EstInit, EstStart, EstPulse, EstAwaitHeartbeat, EstSendBaud, EstablishApply,
     Proceed, EstablishFails, ReceiveFails, SupRun, SupFailed, SupTimeout, LinkedUp, Switching

\* The RX task stores a DATA frame before it acknowledges it.
LEMMA RxStream ==
    ASSUME LineOk, StreamInv, RxTask
    PROVE  StreamInv'
<1>1. /\ delivered \in Seq(Items) /\ rpc_rx \in Seq(Items) /\ uart_rx \in Seq(Frames)
      /\ flipper.acked \in Nat /\ flipper.sent \in Nat /\ session \in Nat
      /\ Len(delivered) \in Nat /\ Len(rpc_rx) \in Nat
  BY LenProperties DEF LineOk, Agreed, Established, Known, TypeInv, TypeOK, IoTypeOK,
     ProxyTypeOK, LineTypeOK, Flippers
<1>2. /\ UNCHANGED <<call, proxy, session, writer, delivered, machine, sup>>
      /\ Reading' = Reading
  BY DEF RxTask, callVars, proxyVars, writerVars, supVars, Reading
<1>3. CASE RxStop \/ RxReject \/ RxHeartbeat \/ RxStatus \/ RxGive
  <2>1. /\ rpc_rx' = rpc_rx /\ flipper' = flipper
        /\ rx \in {"read", "give"} /\ rx' \in {"none", "read", "give"}
        /\ uart_rx' = uart_rx \/ (uart_rx # <<>> /\ uart_rx' = Tail(uart_rx))
    BY <1>3 DEF RxStop, RxReject, RxHeartbeat, RxStatus, RxGive, RxReads, RxBreak, RxLoops,
       lineVars
  <2>2. HasData(uart_rx') => HasData(uart_rx)
    BY <1>1, <2>1, PopFrame
  <2> QED
    BY <1>2, <2>1, <2>2, StreamSettles DEF SameAccount
<1>4. CASE RxRefuse \/ RxAck
  <2>1. rpc_rx' = rpc_rx /\ rx' \in {"none", "read"} /\ rx \in {"ack", "refuse"}
    BY <1>4 DEF RxRefuse, RxAck, RxBreak, RxLoops
  <2>2. EmptyInv'
    <3>1. sup \notin Switching
      BY <2>1 DEF LineOk, Agreed, Established, Known, SingleUartReader, Switching
    <3> QED
      BY <1>2, <2>1, <3>1 DEF StreamInv, EmptyInv
  <2>3. OrderInv' /\ Kept' = Kept
    BY <1>2, <2>1 DEF StreamInv, OrderInv, InOrder, Kept
  <2>4. UNCHANGED lineVars \/ HangsUp \/ (RxAck /\ TakesAck)
    <3>1. CASE RxRefuse
      <4>1. UNCHANGED lineVars \/ HangsUp \/ ("Unknown" = "None" /\ TakesAck)
        BY <3>1, StatusEffects DEF RxRefuse, LineOk, Agreed, Established, Statuses
      <4> QED
        BY <4>1
    <3>2. CASE RxAck
      BY <3>2, StatusEffects DEF RxAck, TransmitFails, LineOk, Agreed, Established, Statuses
    <3> QED
      BY <1>4, <3>1, <3>2
  <2>5. /\ flipper'.session = flipper.session
        /\ HasData(uart_rx') => HasData(uart_rx)
    BY <1>1, <2>4, HangingUp DEF lineVars, HangsUp, SameAccount, TakesAck
  <2>6. Counting' = Counting
    BY <1>2, <2>5 DEF Counting
  <2>7. Counting => ~HasData(uart_rx) /\ flipper.sent = flipper.acked + 1
    BY <2>1 DEF Counting, LineOk, DataInv, SingleInv
  <2>8. CASE UNCHANGED lineVars \/ HangsUp
    <3>1. flipper'.acked = flipper.acked /\ flipper'.sent = flipper.sent
      BY <2>8 DEF lineVars, HangsUp, SameAccount
    <3>2. KeptInv'
      BY <1>1, <2>1, <2>3, <2>5, <2>6, <2>7, <3>1 DEF StreamInv, KeptInv
    <3> QED
      BY <2>2, <2>3, <3>2 DEF StreamInv
  <2>9. CASE RxAck /\ TakesAck
    <3>1. /\ flipper'.acked = flipper.acked + 1 /\ rx = "ack"
      BY <2>9 DEF TakesAck, RxAck
    <3>2. KeptInv'
      BY <1>1, <2>1, <2>3, <2>5, <2>6, <2>7, <3>1 DEF StreamInv, KeptInv
    <3> QED
      BY <2>2, <2>3, <3>2 DEF StreamInv
  <2> QED
    BY <2>4, <2>8, <2>9
<1>5. CASE RxData
  <2>1. /\ uart_rx # <<>> /\ uart_rx' = Tail(uart_rx) /\ flipper' = flipper /\ rx = "read"
        /\ Head(uart_rx).type = "data" /\ machine.state = "RpcReady"
    BY <1>5 DEF RxData, RxReads, SessionUp
  <2>2. flipper.session = session /\ sup \in LinkedUp /\ sup \notin Switching
    BY <2>1 DEF LineOk, Agreed, AnswerInv, EarnedInv, Established, CallerInv, UpInv,
       LinkedUp, Switching
  <2> DEFINE d == [session |-> session, n |-> flipper.sent]
  <2>3. /\ HasData(uart_rx) /\ LineOpen
        /\ HasData(uart_rx') => TwoData(uart_rx)
        /\ DataIs(uart_rx, d) => Head(uart_rx).item = d
    BY <1>1, <2>1, PopFrame, PopData DEF LineOpen
  <2>4. ~HasData(uart_rx') /\ flipper.sent = flipper.acked + 1 /\ Head(uart_rx).item = d
    BY <2>1, <2>2, <2>3 DEF LineOk, DataInv, SingleInv, RpcStates
  <2>5. EmptyInv'
    BY <1>2, <2>1, <2>2 DEF EmptyInv
  <2>6. Counting' = Counting /\ (Reading => Counting)
    BY <1>2, <2>1, <2>2 DEF Counting
  <2>7. Counting => Kept = flipper.acked
    BY <2>1, <2>3 DEF StreamInv, KeptInv
  <2>8. CASE rpc_rx' = Append(rpc_rx, d) /\ rx' = "ack"
    <3>1. d \in Items
      BY <1>1, BoundsAssumption DEF Items, LineOk, Agreed, Established, Known, TypeInv,
         TypeOK, LineTypeOK, ProxyTypeOK, Flippers
    <3> HIDE DEF d
    <3>2. Kept' = Kept + 1 /\ Kept \in Nat
      BY <1>1, <1>2, <2>8, <3>1, AppendProperties DEF Kept
    <3>3. KeptInv'
      BY <1>1, <2>1, <2>4, <2>6, <2>7, <2>8, <3>2 DEF StreamInv, KeptInv
    <3>4. ASSUME Reading PROVE InOrder(delivered \o rpc_rx)'
      <4>1. /\ InOrder(delivered \o rpc_rx) /\ Kept = flipper.acked
            /\ Len(delivered \o rpc_rx) = Kept
        BY <1>1, <2>6, <2>7, <3>4, ConcatProperties DEF StreamInv, OrderInv, Kept
      <4>2. d = [session |-> session, n |-> Kept + 1]
        BY <2>4, <4>1 DEF d
      <4>3. /\ Len(delivered \o Append(rpc_rx, d)) = Kept + 1
            /\ (delivered \o Append(rpc_rx, d))[Kept + 1] = d
            /\ \A i \in 1..Kept : (delivered \o Append(rpc_rx, d))[i] = (delivered \o rpc_rx)[i]
        BY <1>1, <3>1, StreamGrows DEF Kept
      <4>4. delivered' \o rpc_rx' = delivered \o Append(rpc_rx, d)
        BY <1>2, <2>8
      <4> QED
        BY <1>2, <3>2, <4>1, <4>2, <4>3, <4>4, SMTT(60) DEF InOrder
    <3>5. OrderInv'
      BY <1>2, <3>4 DEF OrderInv
    <3> QED
      BY <2>5, <3>3, <3>5 DEF StreamInv
  <2>9. CASE rpc_rx' = rpc_rx /\ rx' = "refuse"
    <3>1. KeptInv'
      BY <1>2, <2>1, <2>4, <2>6, <2>9 DEF StreamInv, KeptInv, Kept
    <3>2. OrderInv'
      BY <1>2, <2>9 DEF StreamInv, OrderInv, InOrder
    <3> QED
      BY <2>5, <3>1, <3>2 DEF StreamInv
  <2> QED
    BY <1>5, <2>4, <2>8, <2>9 DEF RxData, Store
<1> QED
  BY <1>3, <1>4, <1>5 DEF RxTask

\* The writer moves items from the buffer to the client, or gives up and stops reading.
LEMMA WriterStream ==
    ASSUME LineOk, StreamInv, WriterTask
    PROVE  StreamInv'
<1>1. /\ delivered \in Seq(Items) /\ rpc_rx \in Seq(Items)
      /\ proxy \in {"closed", "begun"} => writer = "none"
  BY DEF LineOk, Agreed, Established, Known, TypeInv, TypeOK, IoTypeOK, ProxyTypeOK,
     CallerInv, WriterInv
<1>2. UNCHANGED <<call, proxy, session, machine, sup, rx, uart_rx, flipper>>
  BY DEF WriterTask, callVars, proxyVars, supVars, linkVars, lineVars
<1>3. /\ writer \in {"loop", "empty"} /\ proxy \notin {"closed", "begun"} /\ Reading
      /\ writer' \in {"loop", "empty", "done"}
  BY <1>1 DEF WriterTask, WriterForward, WriterEmpty, WriterCheck, WriterStop, Reading
<1>4. CASE rpc_rx' = rpc_rx /\ delivered' = delivered
  BY <1>2, <1>3, <1>4, StreamSettles DEF Reading, SameAccount
<1>5. CASE WriterForward
  <2>1. rpc_rx # <<>>
    BY <1>5 DEF WriterForward
  <2>2. EmptyInv'
    BY <1>2, <2>1 DEF StreamInv, EmptyInv
  <2>3. PICK n \in 1..Len(rpc_rx) :
            /\ rpc_rx' = SubSeq(rpc_rx, n + 1, Len(rpc_rx))
            /\ \/ delivered' = delivered \o SubSeq(rpc_rx, 1, n)
               \/ writer' = "done"
    BY <1>5 DEF WriterForward
  <2>4. CASE delivered' = delivered \o SubSeq(rpc_rx, 1, n)
    <3>1. delivered' \o rpc_rx' = delivered \o rpc_rx /\ Kept' = Kept
      BY <1>1, <2>3, <2>4, StreamMoves DEF Kept
    <3>2. Counting' => Counting
      BY <1>2, <1>3 DEF Counting
    <3>3. KeptInv'
      BY <1>2, <3>1, <3>2 DEF StreamInv, KeptInv
    <3>4. OrderInv'
      BY <1>2, <1>3, <3>1 DEF StreamInv, OrderInv, InOrder
    <3> QED
      BY <2>2, <3>3, <3>4 DEF StreamInv
  <2>5. CASE writer' = "done"
    <3>1. ~Reading' /\ ~Counting'
      BY <1>2, <1>3, <2>5 DEF Reading, Counting
    <3> QED
      BY <2>2, <3>1 DEF StreamInv, KeptInv, OrderInv
  <2> QED
    BY <2>3, <2>4, <2>5
<1> QED
  BY <1>4, <1>5 DEF WriterTask, WriterForward, WriterEmpty, WriterCheck, WriterStop

\* The heartbeat task, and the Flipper: it sends DATA only when everything it has sent
\* is acknowledged and hence kept.
LEMMA OthersStream ==
    ASSUME LineOk, StreamInv, HeartbeatTask \/ Environment \/ UNCHANGED vars
    PROVE  StreamInv'
<1>1. uart_rx \in Seq(Frames) /\ flipper \in Flippers
  BY DEF LineOk, Agreed, Established, Known, TypeInv, TypeOK, LineTypeOK
<1>2. UNCHANGED <<machine, call, proxy, session, writer, delivered, rpc_rx, rx, sup>>
  BY DEF HeartbeatTask, Environment, vars, supVars, linkVars, callVars, proxyVars, writerVars
<1>3. Reading' = Reading
  BY <1>2 DEF Reading
<1>4. CASE ~FlipperData \/ ~Environment
  <2>1. SameAccount /\ (HasData(uart_rx') => HasData(uart_rx))
    <3>1. CASE HbSend
      <4>1. UNCHANGED lineVars \/ HangsUp
        BY <3>1, HeartbeatEffects DEF HbSend, TransmitFails, LineOk, Agreed, Established
      <4> QED
        BY <1>1, <4>1, HangingUp DEF lineVars, HangsUp, SameAccount
    <3>2. CASE FlipperHeartbeat
      BY <3>2, QuietLine DEF FlipperHeartbeat, SameAccount
    <3>3. CASE FlipperLeaves
      BY <1>1, <3>3 DEF FlipperLeaves, Gone, Flippers, SameAccount
    <3>4. CASE UNCHANGED lineVars
      BY <3>4 DEF lineVars, SameAccount
    <3> QED
      BY <1>4, <3>1, <3>2, <3>3, <3>4 DEF HeartbeatTask, HbStop, HbTimeout, Environment, vars
  <2> QED
    BY <1>2, <1>3, <2>1, StreamSettles
<1>5. CASE Environment /\ FlipperData
  <2>1. /\ flipper'.session = flipper.session /\ flipper'.acked = flipper.acked
        /\ flipper'.sent = flipper.sent + 1 /\ flipper.sent = flipper.acked
        /\ flipper.acked \in Nat
    BY <1>1, <1>5 DEF FlipperData, Flippers
  <2>2. Counting' = Counting /\ Kept' = Kept
    BY <1>2, <1>3, <2>1 DEF Counting, Kept
  <2>3. Counting => rx \notin {"ack", "refuse"}
    BY <2>1 DEF Counting, LineOk, DataInv, SingleInv
  <2>4. KeptInv'
    BY <1>2, <2>1, <2>2, <2>3 DEF StreamInv, KeptInv
  <2>5. EmptyInv' /\ OrderInv'
    BY <1>2, <1>3, <2>1 DEF StreamInv, EmptyInv, OrderInv, InOrder
  <2> QED
    BY <2>4, <2>5 DEF StreamInv
<1> QED
  BY <1>4, <1>5

\* The client task between two calls: a session whose writer is created or stopped.
LEMMA StartsStream ==
    ASSUME LineOk, StreamInv, ClientTask, ClientStarts
    PROVE  StreamInv'
<1>1. /\ RpcStateInv /\ WriterInv /\ call = "idle" /\ call' # "reset"
      /\ UNCHANGED <<machine, session, rpc_rx, uart_rx, flipper, rx, sup>>
  BY DEF LineOk, Agreed, Established, CallerInv, ClientTask, ClientStarts, supVars, lineVars,
     RequestReconnect, BeginRpc, ProxyRun, ProxyStop, EndRpc, SendRpc, InCall
<1>2. CASE proxy # "closed" /\ proxy' = "closed"
  <2>1. /\ proxy' = "closed" /\ proxy # "closed" /\ machine.state # "RpcReady"
        /\ writer' = "none"
    BY <1>1, <1>2 DEF Closes, ClientStarts, RequestReconnect, BeginRpc, ProxyRun, ProxyStop,
       EndRpc, SendRpc, SameSession, ProxyTo, SessionUp, WriterInv
  <2>2. machine.state # "StartingRpc"
    BY <1>1, <2>1 DEF RpcStateInv, Asking
  <2>3. ~Counting' /\ ~Reading'
    BY <1>1, <2>1, <2>2 DEF Counting, Reading
  <2> QED
    BY <1>1, <2>3 DEF StreamInv, EmptyInv, KeptInv, OrderInv
<1>3. CASE ~(proxy # "closed" /\ proxy' = "closed")
  <2>1. delivered' = delivered
    BY <1>3 DEF ClientStarts, RequestReconnect, BeginRpc, ProxyRun, ProxyStop, EndRpc,
       SendRpc, SameSession, ProxyTo, Closes
  <2>2. (Reading' => Reading) /\ (proxy' = "closed" => proxy = "closed")
    BY <1>3 DEF ClientStarts, RequestReconnect, BeginRpc, ProxyRun, ProxyStop, EndRpc,
       SendRpc, SameSession, ProxyTo, Closes, Reading
  <2> QED
    BY <1>1, <2>1, <2>2, StreamSettles DEF SameAccount
<1> QED
  BY <1>2, <1>3

\* A session begins and ends: the buffer is empty when it begins, and what the previous
\* one left in it is not counted.
LEMMA ContinuesStream ==
    ASSUME LineOk, LineOk', StreamInv, ClientTask, ClientContinues, ~CallSend
    PROVE  StreamInv'
<1>1. /\ machine \in Machine /\ flipper.session \in Nat /\ session \in Nat
      /\ RpcStateInv /\ WriterInv /\ PlaceInv /\ SessionInv /\ CallInv
  BY BoundsAssumption DEF LineOk, Agreed, Established, Known, TypeInv, TypeOK, LinkTypeOK,
     LineTypeOK, ProxyTypeOK, Flippers, CallerInv, OwnershipInv
<1>2. UNCHANGED <<uart_rx, flipper, rx, sup, writer>>
  BY DEF ClientTask, ClientContinues, CallApply, SendWaitStatus, CallArm, CallWait,
     CallCollect, CallConclude, CallReset, supVars, lineVars
<1>3. CASE CallApply
  <2>1. call = "apply" /\ op \in {"start", "stop"} /\ rpc_rx' = rpc_rx /\ writer = "none"
    BY <1>1, <1>3 DEF CallApply, CallInv, PlaceInv, WriterInv
  <2>2. CASE /\ op = "start" /\ machine.state = "Ready" /\ session' = session + 1
             /\ proxy' = "closed"
    <3>1. ~Counting' /\ ~Reading' /\ flipper'.session # session'
      BY <1>1, <1>2, <2>1, <2>2 DEF Counting, Reading, LineOk, AccountInv
    <3> QED
      BY <1>2, <2>1, <2>2, <3>1 DEF StreamInv, EmptyInv, KeptInv, OrderInv
  <2>3. CASE op = "stop" /\ machine'.state = "StoppingRpc" /\ proxy' = "closing"
    BY <1>2, <2>1, <2>3 DEF StreamInv, EmptyInv, KeptInv, OrderInv, Counting, Reading
  <2>4. CASE machine' = machine /\ session' = session /\ proxy' = "closed"
    <3>1. ~Counting' /\ ~Reading'
      <4>1. machine.state \notin {"StartingRpc", "RpcReady"}
        BY <1>1, <1>3, <2>1, <2>4, ApplyStates DEF CallApply, SessionInv, RpcStates,
           RpcStateInv, Asking, InCall, SameSession, PlaceInv, Successor
      <4> QED
        BY <1>2, <2>1, <2>4, <4>1 DEF Counting, Reading
    <3> QED
      BY <1>2, <2>1, <2>4, <3>1 DEF StreamInv, EmptyInv, KeptInv, OrderInv
  <2> QED
    BY <1>1, <1>3, <2>1, <2>2, <2>3, <2>4, ApplyStates DEF CallApply, Successor, SameSession,
       Closes, PlaceInv
<1>4. CASE SendWaitStatus
  <2>1. UNCHANGED <<machine, session, rpc_rx, proxy, delivered>> /\ call # "reset"
    BY <1>4 DEF SendWaitStatus, SameSession, CallArm, CallSend, CallWait, CallCollect
  <2> QED
    BY <1>2, <2>1, StreamSettles DEF SameAccount, Reading
<1>5. CASE CallConclude
  <2>1. call = "conclude" /\ Asking /\ session' = session /\ rpc_rx' = rpc_rx
    BY <1>5 DEF CallConclude, Asking
  <2>2. CASE CallFails /\ op = "stop"
    <3>1. /\ machine' = machine /\ proxy' = "closed" /\ writer = "none"
          /\ machine.state \notin {"StartingRpc", "RpcReady"} /\ call' # "reset"
      BY <1>1, <2>1, <2>2 DEF CallFails, Closes, Returns, WriterInv, RpcStateInv, Asking
    <3> QED
      BY <1>2, <2>1, <3>1 DEF StreamInv, EmptyInv, KeptInv, OrderInv, Counting, Reading
  <2>3. CASE \/ CallFails /\ op # "stop"
             \/ ConcludeData /\ ~CallFails
    <3>1. /\ machine' = machine /\ delivered' = delivered
          /\ Reading' => Reading
          /\ proxy' = "closed" => proxy = "closed"
      BY <1>1, <1>2, <2>1, <2>3 DEF CallFails, ProxyTo, Closes, ConcludeData, PlaceInv,
         WriterInv, Reading, CallInv
    <3> QED
      BY <1>2, <2>1, <3>1, StreamSettles DEF SameAccount
  <2>4. CASE ConcludeStart /\ ~CallFails
    <3>1. /\ op = "start" /\ machine.state = "StartingRpc" /\ machine'.state = "RpcReady"
          /\ proxy = "closed" /\ proxy' = "begun" /\ delivered' = <<>> /\ delivered = <<>>
      BY <1>1, <2>1, <2>4, ApplyStates DEF ConcludeStart, Succeeds, ProxyTo, Successor,
         PlaceInv, WriterInv
    <3>2. sup \in LinkedUp /\ rpc_rx = <<>>
      BY <1>2, <2>1, <3>1 DEF LineOk, Agreed, Established, CallerInv, UpInv, StreamInv, EmptyInv
    <3>3. (Counting' => Counting) /\ Kept' = Kept
      BY <1>2, <2>1, <3>1 DEF Counting, Kept
    <3>4. KeptInv'
      BY <1>2, <3>3 DEF StreamInv, KeptInv
    <3>5. OrderInv'
      BY <2>1, <3>1, <3>2 DEF OrderInv, InOrder
    <3>6. EmptyInv'
      BY <3>1 DEF EmptyInv
    <3> QED
      BY <3>4, <3>5, <3>6 DEF StreamInv
  <2>5. CASE ConcludeStop /\ ~CallFails
    <3>1. /\ machine'.state = "Ready" /\ call' = "reset" /\ proxy' = "closing"
          /\ writer = "none"
      BY <1>1, <2>1, <2>5, ApplyStates DEF ConcludeStop, Succeeds, InCall, SameSession,
         Successor, PlaceInv, WriterInv
    <3> QED
      BY <1>2, <3>1 DEF StreamInv, EmptyInv, KeptInv, OrderInv, Counting, Reading
  <2> QED
    BY <1>5, <2>2, <2>3, <2>4, <2>5 DEF CallConclude
<1>6. CASE CallReset
  <2>1. /\ rpc_rx' = <<>> /\ machine' = machine /\ proxy' = "closed" /\ writer = "none"
        /\ machine.state \notin RpcStates
    BY <1>1, <1>6 DEF CallReset, ResetBuffer, Closes, WriterInv, SessionInv
  <2> QED
    BY <1>2, <2>1 DEF StreamInv, EmptyInv, KeptInv, OrderInv, Counting, Reading, RpcStates
<1> QED
  BY <1>3, <1>4, <1>5, <1>6 DEF ClientContinues

\* A request is sent: START resets the Flipper's account, and the buffer is empty.
LEMMA SendStream ==
    ASSUME LineOk, StreamInv, ClientTask, CallSend, SendWaitStatus
    PROVE  StreamInv'
<1>1. uart_rx \in Seq(Frames) /\ flipper \in Flippers /\ WriterInv /\ PlaceInv
  BY DEF LineOk, Agreed, Established, Known, TypeInv, TypeOK, LineTypeOK, CallerInv
<1>2. /\ call = "send" /\ Asking /\ call' # "reset"
      /\ UNCHANGED <<machine, op, proxy, session, delivered, rpc_rx, rx, sup>>
  BY RequestEffects DEF CallSend, InCall, SendWaitStatus, SameSession, ClientTask, supVars,
     LineOk, Agreed, Established, Asking
<1>3. Reading' = Reading
  <2>1. writer' = writer
    BY <1>2 DEF ClientTask, ClientStarts, ClientContinues
  <2> QED
    BY <1>2, <2>1 DEF Reading
<1>4. CASE SameAccount /\ (HasData(uart_rx') => HasData(uart_rx))
  BY <1>2, <1>3, <1>4, StreamSettles
<1>5. CASE UNCHANGED lineVars \/ HangsUp \/ Declines
  BY <1>1, <1>4, <1>5, NothingMore DEF lineVars, HangsUp, Declines, SameAccount, NoMore
<1>6. CASE PinsAttached /\ (CarriesOutStart \/ CarriesOutStop \/ CarriesOutData)
  <2>1. StatusFrame("None") \in Frames /\ StatusFrame("None").type = "status"
    BY FrameTypes, FrameKinds DEF Statuses
  <2>2. uart_rx' = Append(uart_rx, StatusFrame("None"))
    BY <1>6 DEF CarriesOutStart, CarriesOutStop, CarriesOutData
  <2>3. HasData(uart_rx') => HasData(uart_rx)
    BY <1>1, <2>1, <2>2, PushFrame
  <2>4. CASE CarriesOutStop
    BY <1>4, <2>3, <2>4 DEF CarriesOutStop
  <2>5. CASE CarriesOutData
    <3>1. /\ flipper'.session = flipper.session /\ flipper'.acked = flipper.acked
          /\ flipper'.sent = flipper.sent
      BY <2>5 DEF CarriesOutData
    <3>2. Counting' = Counting /\ Kept' = Kept
      BY <1>2, <1>3, <3>1 DEF Counting, Kept
    <3> QED
      BY <1>2, <1>3, <2>3, <3>1, <3>2 DEF StreamInv, EmptyInv, KeptInv, OrderInv, InOrder
  <2>6. CASE CarriesOutStart
    <3>1. /\ machine.state = "StartingRpc" /\ proxy = "closed" /\ delivered = <<>>
          /\ flipper.mode = "connected" /\ flipper'.sent = 0 /\ flipper'.acked = 0
      BY <1>1, <1>2, <1>6, <2>6 DEF CarriesOutStart, PinsAttached, LineOk, Agreed,
         Established, CallerInv, ControlInv, PlaceInv, WriterInv
    <3>2. rx \notin {"ack", "refuse"} /\ (rx # "none" => ~HasData(uart_rx'))
      BY <2>3, <3>1 DEF LineOk, DataInv, SingleInv, EndedInv, LineOpen
    <3>3. EmptyInv'
      BY <1>2, <3>1 DEF StreamInv, EmptyInv
    <3>4. OrderInv'
      BY <1>2, <1>3 DEF StreamInv, OrderInv, InOrder
    <3>5. Counting' => Kept' = 0
      BY <1>2, <3>1, <3>3, EmptySeq DEF Counting, EmptyInv, Kept
    <3>6. KeptInv'
      BY <1>2, <3>1, <3>2, <3>5 DEF KeptInv
    <3> QED
      BY <3>3, <3>4, <3>6 DEF StreamInv
  <2> QED
    BY <1>6, <2>4, <2>5, <2>6
<1> QED
  BY <1>5, <1>6, RequestEffects DEF LineOk, Agreed, Established

\* The buffer and the client hold what the Flipper was told they hold.
THEOREM StreamIsKept == Spec => []StreamInv
<1>1. Init => StreamInv
  BY DEF Init, StreamInv, EmptyInv, KeptInv, OrderInv, Counting, Reading, LinkedUp,
     Switching
<1>2. LineOk /\ LineOk' /\ StreamInv /\ [Next]_vars => StreamInv'
  BY SupervisorStream, RxStream, WriterStream, OthersStream, StartsStream,
     ContinuesStream, SendStream
     DEF Next, ClientTask, ClientContinues, CallApply, CallConclude, CallReset,
         SendWaitStatus, CallSend
<1>3. Spec => []LineOk
  BY AgreedIsKept, AccountIsKept, DataIsKept, PTL DEF LineOk
<1> QED
  BY <1>1, <1>2, <1>3, PTL DEF Spec

\* What the TCP client has received, followed by what is buffered for it, is a gap-free
\* prefix of what the Flipper sent in this session.
THEOREM StreamArrivesIntact == Spec => []SessionStreamIntact
<1>1. Known /\ StreamInv => SessionStreamIntact
  <2> SUFFICES ASSUME Known, StreamInv PROVE SessionStreamIntact
    OBVIOUS
  <2>1. delivered \o rpc_rx \in Seq(Items)
    BY ConcatProperties DEF Known, TypeInv, TypeOK, IoTypeOK, ProxyTypeOK
  <2>2. DOMAIN (delivered \o rpc_rx) = 1..Len(delivered \o rpc_rx)
    BY <2>1, LenProperties
  <2> QED
    BY <2>2 DEF StreamInv, OrderInv, InOrder, Reading, SessionStreamIntact
<1> QED
  BY <1>1, KnownIsKept, StreamIsKept, PTL

\* DATA the Flipper was told was received is in the buffer or with the TCP client as
\* long as the session is up.
THEOREM AcknowledgedIsNeverLost == Spec => []AcknowledgedIsKept
<1>1. Known /\ CallerInv /\ StreamInv => AcknowledgedIsKept
  BY DEF Known, TypeInv, TypeOK, ProxyTypeOK, CallerInv, WriterInv, UpInv, StreamInv,
     KeptInv, Counting, Reading, Kept, AcknowledgedIsKept
<1> QED
  BY <1>1, KnownIsKept, CallerIsKept, StreamIsKept, PTL
=============================================================================
