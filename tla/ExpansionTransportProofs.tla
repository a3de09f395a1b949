----------------------- MODULE ExpansionTransportProofs -----------------------
(***************************************************************************)
(* Theorems about ExpansionTransport, for every value of its constants.    *)
(***************************************************************************)
EXTENDS ExpansionTransport, SequenceTheorems, TLAPS

-----------------------------------------------------------------------------
(* The inductive invariant                                                  *)

RpcStates == {"StartingRpc", "RpcReady", "StoppingRpc"}

\* Why attempts stays within the limit: it is below it whenever a failure can be
\* counted, and zero while a link is up.
CountInv ==
    /\ sup \in {"init", "failed"} \cup Establishing => attempts < MaxRetries
    /\ sup \in {"spawn_hb", "linked", "stop_io", "timeout"} => attempts = 0

\* What the client task's place in a call says about its locals.
CallInv ==
    /\ call = "apply" => op \in {"start", "stop"}
    /\ call = "apply" /\ op = "start" => session < MaxSessions
    /\ Asking => op \in {"start", "data", "stop"}
    /\ Asking /\ op = "data" => left >= 1 /\ confirmed + left <= MaxChunks

\* The machine is the supervisor's while it establishes the link, and the loop
\* comes round only after a Timeout.
MachineInv ==
    /\ EstablishmentOwnsMachine
    /\ sup \in {"startup", "retry", "init"} => machine.state \in {"Disconnected", "Backoff"}

\* Who owns an RPC state: the call that asked for it, or the proxy.
SessionInv ==
    /\ call = "reset" \/ (call = "apply" /\ op = "start")
          => machine.state \notin RpcStates
    /\ "LOST" \notin events =>
          /\ machine.state = "StartingRpc" => Asking /\ op = "start"
          /\ machine.state = "StoppingRpc" => Asking /\ op = "stop"
          /\ machine.state = "RpcReady" => proxy # "closed"

TypeInv == TypeOK /\ CountInv /\ CallInv
OwnershipInv == MachineInv /\ SessionInv

-----------------------------------------------------------------------------
(* Facts about the operators the actions are built from                    *)

\* The values of Frames, so that the provers need not look inside the set.
LEMMA FrameTypes ==
    /\ HeartbeatFrame \in Frames
    /\ \A s \in Statuses : StatusFrame(s) \in Frames
    /\ \A i \in Items : DataFrame(i) \in Frames
    /\ \A f \in Frames : f.type = "status" => f.status \in Statuses
    /\ \A f \in Frames : f.type = "data" => f.item \in Items
<1>1. HeartbeatFrame \in Frames
  BY DEF Frames
<1>2. \A s \in Statuses : StatusFrame(s) \in Frames
  BY DEF Frames
<1>3. \A i \in Items : DataFrame(i) \in Frames
  BY DEF Frames
<1>4. ASSUME NEW f \in Frames
      PROVE  /\ f.type = "status" => f.status \in Statuses
             /\ f.type = "data" => f.item \in Items
  <2>1. CASE f = HeartbeatFrame
    BY <2>1 DEF HeartbeatFrame
  <2>2. ASSUME NEW s \in Statuses, f = StatusFrame(s)
        PROVE  f.type = "status" /\ f.status \in Statuses
    BY <2>2 DEF StatusFrame
  <2>3. ASSUME NEW i \in Items, f = DataFrame(i)
        PROVE  f.type = "data" /\ f.item \in Items
    BY <2>3 DEF DataFrame
  <2> QED
    BY <2>1, <2>2, <2>3 DEF Frames
<1> QED
  BY <1>1, <1>2, <1>3, <1>4

\* expansion_state_machine_apply keeps a machine a machine, whatever the event.
LEMMA ApplyType ==
    ASSUME NEW m \in Machine, NEW e \in Events
    PROVE  Apply(m, e) \in Machine
<1> USE MaxRetriesAssumption DEF Machine
<1>1. FailConnection(m) \in Machine
  BY DEF FailConnection, States
<1>2. Successor(m.state, e) # "rejected" => Successor(m.state, e) \in States
  BY DEF Successor, States
<1> QED
  BY <1>1, <1>2 DEF Apply, Accepts

Outcomes == [flipper : Flippers, answer : Seq(Frames)]

\* What the Flipper may do with a frame keeps it a Flipper.
LEMMA OutcomeTypes ==
    ASSUME TypeOK
    PROVE  /\ OnPulse \subseteq Outcomes
           /\ \A b \in STRING : OnBaud(b) \subseteq Outcomes
           /\ \A c \in {"start", "stop"} : OnControl(c) \subseteq Outcomes
           /\ OnData \subseteq Outcomes
           /\ \A s \in Statuses : OnStatus(s) \subseteq Outcomes
           /\ OnHeartbeat \subseteq Outcomes
<1> USE BaudAssumption, BoundsAssumption
<1>1. flipper \in Flippers /\ session \in 0..MaxSessions
  BY DEF TypeOK, LineTypeOK, ProxyTypeOK
<1>2. Gone \in Flippers
  BY <1>1 DEF Gone, Flippers
<1>3. <<>> \in Seq(Frames) /\ <<HeartbeatFrame>> \in Seq(Frames)
  BY FrameTypes
<1>4. ASSUME NEW f \in Flippers
      PROVE  /\ Outcome(f, <<>>) \in Outcomes
             /\ \A s \in Statuses : Answers(f, s) \in Outcomes
  BY <1>3, FrameTypes DEF Outcome, Answers, Outcomes
<1>5. ASSUME NEW expected, NEW S, S \subseteq Outcomes
      PROVE  Heard(expected, S) \subseteq Outcomes
  BY <1>1, <1>2, <1>4, <1>5 DEF Heard, Statuses
<1>6. OnPulse \subseteq Outcomes
  <2>1. [Absent EXCEPT !.mode = "greeted"] \in Flippers
    BY DEF Absent, Flippers
  <2>2. Outcome([Absent EXCEPT !.mode = "greeted"], <<HeartbeatFrame>>) \in Outcomes
    BY <1>3, <2>1 DEF Outcome, Outcomes
  <2> QED
    BY <1>1, <1>2, <1>4, <2>2 DEF OnPulse
<1>7. ASSUME NEW b \in STRING PROVE OnBaud(b) \subseteq Outcomes
  <2>1. [flipper EXCEPT !.mode = "connected", !.baud = b] \in Flippers
    BY <1>1 DEF Flippers
  <2> QED
    BY <1>1, <1>4, <1>5, <2>1 DEF OnBaud, Statuses
<1>8. ASSUME NEW c \in {"start", "stop"} PROVE OnControl(c) \subseteq Outcomes
  <2>1. InSession \in Flippers
    BY <1>1 DEF InSession, Flippers
  <2>2. [flipper EXCEPT !.mode = "connected"] \in Flippers
    BY <1>1 DEF Flippers
  <2>3. /\ Answers(InSession, "None") \in Outcomes
        /\ Answers([flipper EXCEPT !.mode = "connected"], "None") \in Outcomes
        /\ Answers(flipper, "Unknown") \in Outcomes
    BY <1>1, <1>4, <2>1, <2>2 DEF Statuses
  <2> QED
    BY <1>5, <2>3 DEF OnControl
<1>9. OnData \subseteq Outcomes
  <2>1. [flipper EXCEPT !.received = @ + 1] \in Flippers
    BY <1>1, SMTT(60) DEF Flippers
  <2> QED
    BY <1>1, <1>4, <1>5, <2>1 DEF OnData, Statuses
<1>10. ASSUME NEW s \in Statuses PROVE OnStatus(s) \subseteq Outcomes
  <2>1. CASE flipper.sent > flipper.acked
    <3>1. [flipper EXCEPT !.acked = @ + 1] \in Flippers
      BY <1>1, <2>1, SMTT(60) DEF Flippers
    <3> QED
      BY <1>2, <1>4, <1>5, <3>1 DEF OnStatus
  <2>2. CASE ~(flipper.sent > flipper.acked)
    BY <1>1, <1>2, <1>4, <2>2 DEF OnStatus, Heard, Statuses
  <2> QED
    BY <2>1, <2>2
<1>11. OnHeartbeat \subseteq Outcomes
  BY <1>1, <1>4, <1>5 DEF OnHeartbeat
<1> QED
  BY <1>6, <1>7, <1>8, <1>9, <1>10, <1>11

\* send_frame keeps the line well typed, whether it succeeds or fails.
LEMMA TransmitType ==
    ASSUME LineTypeOK, NEW S \in SUBSET Outcomes,
           Transmit(S) \/ TransmitFails(S)
    PROVE  LineTypeOK'
<1>1. CASE Transmit(S)
  <2>1. PICK o \in S : flipper' = o.flipper /\ uart_rx' = uart_rx \o o.answer
    BY <1>1 DEF Transmit
  <2>2. o.flipper \in Flippers /\ o.answer \in Seq(Frames)
    BY DEF Outcomes
  <2> QED
    BY <2>1, <2>2 DEF LineTypeOK
<1>2. CASE UNCHANGED lineVars
  BY <1>2 DEF LineTypeOK, lineVars
<1> QED
  BY <1>1, <1>2 DEF TransmitFails
-----------------------------------------------------------------------------
(* Type correctness, one lemma per task                                     *)

\* The supervisor outside establish_expansion keeps the types and its count.
LEMMA SupLoopType ==
    ASSUME TypeInv, SupLoop \/ SupRun
    PROVE  LinkTypeOK' /\ SupTypeOK' /\ IoTypeOK' /\ LineTypeOK' /\ CountInv'
<1> USE MaxRetriesAssumption, BoundsAssumption
<1>1. TypeOK /\ CountInv
  BY DEF TypeInv
<1>2. CASE SupLoop
  <2>1. LinkTypeOK' /\ IoTypeOK' /\ LineTypeOK'
    BY <1>1, <1>2 DEF SupLoop, SupStartup, SupWake, SupRetry, TypeOK, LinkTypeOK,
                      IoTypeOK, LineTypeOK, lineVars
  <2>2. SupTypeOK' /\ CountInv'
    BY <1>1, <1>2 DEF SupLoop, SupStartup, SupWake, SupRetry, AtLimit, CountAnew,
                      TypeOK, SupTypeOK, CountInv, Establishing
  <2> QED
    BY <2>1, <2>2
<1>3. CASE SupRun
  <2>1. machine' \in Machine
    <3>1. Apply(machine, "Timeout") \in Machine
      BY <1>1, ApplyType DEF Events, TypeOK, LinkTypeOK
    <3> QED
      BY <1>1, <1>3, <3>1 DEF SupRun, SupFailed, SupSpawn, SupSpawnHeartbeat, SupLost,
           SupStopIo, SupTimeout, TypeOK, LinkTypeOK
  <2>2. LinkTypeOK'
    BY <1>1, <1>3, <2>1 DEF SupRun, SupFailed, SupSpawn, SupSpawnHeartbeat, SupLost,
         SupStopIo, SupTimeout, LinkLost, TypeOK, LinkTypeOK
  <2>3. SupTypeOK' /\ CountInv'
    BY <1>1, <1>3 DEF SupRun, SupFailed, SupSpawn, SupSpawnHeartbeat, SupLost,
         SupStopIo, SupTimeout, CountAnew, TypeOK, SupTypeOK, CountInv, Establishing
  <2> <<>> \in Seq(Items) /\ <<>> \in Seq(Frames) /\ Len(<<>>) = 0
    BY EmptySeq
  <2>4. IoTypeOK'
    <3>1. CASE rpc_rx' = <<>>
      <4>1. rpc_rx' \in Seq(Items) /\ Len(rpc_rx') <= RpcRxCapacity
        BY <3>1
      <4> QED
        BY <1>1, <1>3, <4>1 DEF SupRun, SupFailed, SupSpawn, SupSpawnHeartbeat,
           SupLost, SupStopIo, SupTimeout, StopIoTasks, RxLoops, TypeOK, IoTypeOK
    <3>2. CASE UNCHANGED rpc_rx
      BY <1>1, <1>3, <3>2 DEF SupRun, SupFailed, SupSpawn, SupSpawnHeartbeat,
         SupLost, SupStopIo, SupTimeout, StopIoTasks, RxLoops, TypeOK, IoTypeOK
    <3> QED
      BY <1>3, <3>1, <3>2 DEF SupRun, SupFailed, SupSpawn, SupSpawnHeartbeat,
         SupLost, SupStopIo, SupTimeout, ResetBuffer
  <2>5. LineTypeOK'
    BY <1>1, <1>3 DEF SupRun, SupFailed, SupSpawn, SupSpawnHeartbeat, SupLost,
         SupStopIo, SupTimeout, TypeOK, LineTypeOK
  <2> QED
    BY <2>2, <2>3, <2>4, <2>5
<1> QED
  BY <1>2, <1>3

\* Every step of establish_expansion keeps the types; the count is untouched.
LEMMA EstablishType ==
    ASSUME TypeInv, Establish
    PROVE  LinkTypeOK' /\ SupTypeOK' /\ IoTypeOK' /\ LineTypeOK' /\ CountInv'
<1> USE MaxRetriesAssumption, BaudAssumption
<1>1. TypeOK /\ CountInv
  BY DEF TypeInv
<1>2. machine \in Machine /\ InitialMachine \in Machine
  BY <1>1 DEF TypeOK, LinkTypeOK, InitialMachine, Machine, States
<1>3. \A e \in Events : Apply(machine, e) \in Machine
  BY <1>2, ApplyType
<1>4. \A i \in 1..Len(BaudRates) : BaudRates[i] \in STRING
  BY ElementOfSeq
<1>5. LinkTypeOK'
  <2>1. machine' \in Machine
    BY <1>2, <1>3 DEF Establish, EstInit, EstStart, EstPulse, EstAwaitHeartbeat,
      EstSendBaud, EstAwaitBaud, EstSwitchBaud, EstablishApply, ReceiveFails, Events
  <2>2. uart_baud' \in STRING /\ negotiated_baud' \in STRING \cup {"0"}
    <3>1. uart_baud \in STRING /\ negotiated_baud \in STRING \cup {"0"}
      BY <1>1 DEF TypeOK, LinkTypeOK
    <3>2. CASE EstPulse
      BY <3>1, <3>2 DEF EstPulse, SetBaudrate
    <3>3. CASE EstSwitchBaud
      BY <1>1, <1>4, <3>1, <3>3 DEF EstSwitchBaud, SetBaudrate, TypeOK, SupTypeOK
    <3>4. CASE EstInit
      BY <3>1, <3>4 DEF EstInit
    <3>5. CASE UNCHANGED <<negotiated_baud, uart_baud>>
      BY <3>1, <3>5
    <3> QED
      BY <3>2, <3>3, <3>4, <3>5 DEF Establish, EstStart, EstAwaitHeartbeat,
         EstSendBaud, EstAwaitBaud
  <2> QED
    BY <1>1, <2>1, <2>2 DEF Establish, TypeOK, LinkTypeOK
<1>6. SupTypeOK' /\ CountInv'
  <2>1. Len(BaudRates) \in Nat \ {0}
    BY EmptySeq
  <2> QED
    BY <1>1, <2>1 DEF Establish, EstInit, EstStart, EstPulse, EstAwaitHeartbeat,
      EstSendBaud, EstAwaitBaud, EstSwitchBaud, EstablishApply, ReceiveFails,
      Proceed, EstablishFails, TypeOK, SupTypeOK, CountInv, Establishing
<1>7. IoTypeOK'
  BY <1>1 DEF Establish, TypeOK, IoTypeOK
<1>8. LineTypeOK'
  <2>1. flipper \in Flippers /\ uart_rx \in Seq(Frames)
    BY <1>1 DEF TypeOK, LineTypeOK
  <2>2. CASE UNCHANGED lineVars
    BY <2>1, <2>2 DEF LineTypeOK, lineVars
  <2>3. CASE EstPulse
    <3>1. ASSUME NEW o \in OnPulse, flipper' = o.flipper, uart_rx' = o.answer
          PROVE  LineTypeOK'
      BY <1>1, <3>1, OutcomeTypes DEF Outcomes, LineTypeOK
    <3>2. CASE uart_rx' = <<>> /\ UNCHANGED flipper
      BY <2>1, <3>2 DEF LineTypeOK
    <3> QED
      BY <2>3, <3>1, <3>2 DEF EstPulse
  <2>4. ASSUME NEW f, Receives(f) PROVE LineTypeOK'
    BY <2>1, <2>4, HeadTailProperties DEF Receives, LineTypeOK
  <2>5. CASE Transmit(OnStatus("Unknown"))
    BY <1>1, <2>5, OutcomeTypes, TransmitType DEF TypeOK, Statuses
  <2>6. CASE EstSendBaud
    <3>1. BaudRates[baud_index] \in STRING
      BY <1>1, <1>4 DEF TypeOK, SupTypeOK
    <3>2. OnBaud(BaudRates[baud_index]) \in SUBSET Outcomes
      BY <1>1, <3>1, OutcomeTypes
    <3> QED
      BY <1>1, <2>6, <3>2, TransmitType DEF EstSendBaud, TypeOK
  <2> QED
    BY <2>2, <2>3, <2>4, <2>5, <2>6 DEF Establish, EstInit, EstStart,
       EstAwaitHeartbeat, EstAwaitBaud, EstSwitchBaud, ReceiveFails
<1> QED
  BY <1>5, <1>6, <1>7, <1>8

\* The RX and heartbeat tasks: a DATA frame is stored only where it fits.
LEMMA IoTasksType ==
    ASSUME TypeInv, RxTask \/ HeartbeatTask
    PROVE  LinkTypeOK' /\ RequestTypeOK' /\ IoTypeOK' /\ LineTypeOK'
<1> USE BoundsAssumption
<1>1. TypeOK
  BY DEF TypeInv
<1>2. flipper \in Flippers /\ uart_rx \in Seq(Frames) /\ LineTypeOK
  BY <1>1 DEF TypeOK, LineTypeOK
<1>3. uart_rx # <<>> => Head(uart_rx) \in Frames /\ Tail(uart_rx) \in Seq(Frames)
  BY <1>2, HeadTailProperties
<1>4. CASE RxTask
  <2>1. LinkTypeOK'
    BY <1>1, <1>4 DEF RxTask, RxStop, RxReject, RxHeartbeat, RxStatus, RxGive, RxData,
       RxRefuse, RxAck, RxBreak, LinkLost, TypeOK, LinkTypeOK
  <2>2. RequestTypeOK'
    <3>1. CASE RxStatus
      <4>1. Head(uart_rx).status \in Statuses
        BY <1>3, <3>1, FrameTypes DEF RxStatus, RxReads
      <4> QED
        BY <1>1, <1>4, <3>1, <4>1 DEF RxTask, RxStatus, TypeOK, RequestTypeOK
    <3>2. CASE RxGive
      BY <1>1, <1>4, <3>2 DEF RxTask, RxGive, TypeOK, RequestTypeOK
    <3>3. CASE UNCHANGED requestVars
      BY <1>1, <3>3 DEF requestVars, TypeOK, RequestTypeOK
    <3> QED
      BY <1>4, <3>1, <3>2, <3>3 DEF RxTask, RxStop, RxReject, RxHeartbeat, RxData,
         RxRefuse, RxAck, requestVars
  <2>3. rx' \in {"none", "read", "give", "ack", "refuse"} /\ hb' = hb
    BY <1>1, <1>4 DEF RxTask, RxStop, RxReject, RxHeartbeat, RxStatus, RxGive, RxData,
       RxRefuse, RxAck, RxBreak, RxLoops, TypeOK, IoTypeOK
  <2>4. rpc_rx' \in Seq(Items) /\ Len(rpc_rx') <= RpcRxCapacity
    <3>1. rpc_rx \in Seq(Items) /\ Len(rpc_rx) <= RpcRxCapacity
      BY <1>1 DEF TypeOK, IoTypeOK
    <3>2. CASE RxData
      <4>1. Head(uart_rx).item \in Items
        BY <1>3, <3>2, FrameTypes DEF RxData, RxReads
      <4> QED
        BY <3>1, <3>2, <4>1, LenProperties DEF RxData, CanAccept, Store
    <3> QED
      BY <1>4, <3>1, <3>2 DEF RxTask, RxStop, RxReject, RxHeartbeat, RxStatus,
         RxGive, RxRefuse, RxAck
  <2>5. LineTypeOK'
    <3>1. CASE UNCHANGED lineVars
      BY <1>2, <3>1 DEF LineTypeOK, lineVars
    <3>2. ASSUME NEW type, RxReads(type) PROVE LineTypeOK'
      BY <1>2, <1>3, <3>2 DEF LineTypeOK, RxReads
    <3>3. CASE RxRefuse \/ RxAck
      <4>1. \A t \in Statuses : OnStatus(t) \in SUBSET Outcomes
        BY <1>1, OutcomeTypes
      <4> QED
        BY <1>2, <3>3, <4>1, TransmitType DEF RxRefuse, RxAck, Statuses
    <3> QED
      BY <1>4, <3>1, <3>2, <3>3 DEF RxTask, RxStop, RxReject, RxHeartbeat, RxStatus,
         RxGive, RxData
  <2> QED
    BY <1>1, <2>1, <2>2, <2>3, <2>4, <2>5 DEF TypeOK, IoTypeOK
<1>5. CASE HeartbeatTask
  <2>1. LinkTypeOK' /\ RequestTypeOK' /\ IoTypeOK'
    BY <1>1, <1>5 DEF HeartbeatTask, HbStop, HbTimeout, HbSend, LinkLost, requestVars,
       TypeOK, LinkTypeOK, RequestTypeOK, IoTypeOK
  <2>2. LineTypeOK'
    <3>1. CASE UNCHANGED lineVars
      BY <1>2, <3>1 DEF LineTypeOK, lineVars
    <3>2. CASE HbSend
      BY <1>1, <1>2, <3>2, OutcomeTypes, TransmitType DEF HbSend
    <3> QED
      BY <1>5, <3>1, <3>2 DEF HeartbeatTask, HbStop, HbTimeout
  <2> QED
    BY <2>1, <2>2
<1> QED
  BY <1>4, <1>5

\* receive_rpc hands over items of the buffer and leaves the rest of it.
LEMMA WriterType ==
    ASSUME TypeInv, WriterTask
    PROVE  IoTypeOK' /\ ProxyTypeOK'
<1>1. TypeOK
  BY DEF TypeInv
<1>2. CASE WriterForward
  <2>1. rpc_rx \in Seq(Items) /\ delivered \in Seq(Items)
    BY <1>1 DEF TypeOK, IoTypeOK, ProxyTypeOK
  <2>2. PICK n \in 1..Len(rpc_rx) :
            /\ rpc_rx' = SubSeq(rpc_rx, n + 1, Len(rpc_rx))
            /\ \/ delivered' = delivered \o SubSeq(rpc_rx, 1, n) /\ UNCHANGED writer
               \/ writer' = "done" /\ UNCHANGED delivered
    BY <1>2 DEF WriterForward
  <2>3. Len(rpc_rx) \in Nat /\ \A i \in 1..Len(rpc_rx) : rpc_rx[i] \in Items
    BY <2>1, LenProperties, ElementOfSeq
  <2>4. rpc_rx' \in Seq(Items) /\ Len(rpc_rx') <= Len(rpc_rx)
    BY <2>2, <2>3, SubSeqProperties
  <2>5. SubSeq(rpc_rx, 1, n) \in Seq(Items)
    BY <2>3, SubSeqProperties
  <2>6. delivered' \in Seq(Items)
    BY <2>1, <2>2, <2>5, ConcatProperties
  <2>7. IoTypeOK'
    BY <1>1, <2>3, <2>4, BoundsAssumption DEF WriterTask, TypeOK, IoTypeOK
  <2> QED
    BY <1>1, <2>2, <2>6, <2>7 DEF WriterTask, TypeOK, ProxyTypeOK, proxyVars
<1>3. CASE WriterEmpty \/ WriterCheck \/ WriterStop
  BY <1>1, <1>3 DEF WriterTask, WriterEmpty, WriterCheck, WriterStop, TypeOK, IoTypeOK,
     ProxyTypeOK, proxyVars
<1> QED
  BY <1>2, <1>3 DEF WriterTask

\* What the Flipper does by itself.
LEMMA EnvironmentType ==
    ASSUME TypeInv, Environment
    PROVE  LineTypeOK'
<1> USE BaudAssumption, BoundsAssumption
<1>1. flipper \in Flippers /\ uart_rx \in Seq(Frames)
  BY DEF TypeInv, TypeOK, LineTypeOK
<1>2. CASE FlipperHeartbeat
  BY <1>1, <1>2, FrameTypes DEF FlipperHeartbeat, LineTypeOK
<1>3. CASE FlipperData
  <2>a. flipper.sent + 1 \in 0..MaxFlipperData
    BY <1>1, <1>3 DEF FlipperData, Flippers
  <2>1. [flipper EXCEPT !.sent = @ + 1] \in Flippers
    BY <1>1, <2>a DEF Flippers
  <2>2. [session |-> flipper.session, n |-> flipper.sent + 1] \in Items
    BY <1>1, <2>a DEF Flippers, Items
  <2> QED
    BY <1>1, <1>3, <2>1, <2>2, FrameTypes DEF FlipperData, LineTypeOK
<1>4. CASE FlipperLeaves
  BY <1>1, <1>4 DEF FlipperLeaves, Gone, Flippers, LineTypeOK
<1> QED
  BY <1>2, <1>3, <1>4 DEF Environment

\* The client task between two calls: a call is entered with its locals set.
LEMMA ClientStartsType ==
    ASSUME TypeInv, ClientTask, ClientStarts
    PROVE  LinkTypeOK' /\ CallTypeOK' /\ ProxyTypeOK' /\ CallInv'
<1> USE BoundsAssumption
<1>1. TypeOK /\ CallInv /\ call = "idle"
  BY DEF TypeInv, ClientStarts
<1>2. LinkTypeOK'
  BY <1>1 DEF ClientTask, ClientStarts, RequestReconnect, BeginRpc, ProxyRun, ProxyStop,
     EndRpc, SendRpc, TypeOK, LinkTypeOK
<1>3. <<>> \in Seq(Items)
  BY EmptySeq
<1>4. CallTypeOK' /\ CallInv'
  <2>1. CASE RequestReconnect \/ ProxyRun \/ ProxyStop
    BY <1>1, <2>1 DEF ClientStarts, RequestReconnect, ProxyRun, ProxyStop, InCall,
       TypeOK, CallTypeOK, CallInv, Asking
  <2>2. CASE BeginRpc
    BY <1>1, <2>2 DEF ClientStarts, BeginRpc, TypeOK, CallTypeOK, CallInv, Asking
  <2>3. CASE EndRpc
    BY <1>1, <2>3 DEF ClientStarts, EndRpc, InCall, TypeOK, CallTypeOK, CallInv,
       Asking
  <2>4. ASSUME NEW n \in 1..MaxChunks, SendRpc(n) PROVE CallTypeOK' /\ CallInv'
    BY <1>1, <2>4 DEF ClientStarts, SendRpc, InCall, SameSession, TypeOK, CallTypeOK,
       ProxyTypeOK, CallInv, Asking
  <2> QED
    BY <2>1, <2>2, <2>3, <2>4 DEF ClientStarts
<1>5. ProxyTypeOK'
  <2>1. delivered' \in {delivered, <<>>} /\ confirmed' \in {confirmed, 0}
    BY DEF ClientStarts, RequestReconnect, BeginRpc, ProxyRun, ProxyStop, EndRpc,
       SendRpc, SameSession, ProxyTo, Closes
  <2>2. /\ proxy' \in {proxy, "closed", "open", "closing"}
        /\ writer' \in {writer, "none", "loop"} /\ session' = session
    BY DEF ClientStarts, RequestReconnect, BeginRpc, ProxyRun, ProxyStop, EndRpc,
       SendRpc, SameSession, ProxyTo, Closes
  <2>3. delivered' \in Seq(Items)
    BY <1>1, <1>3, <2>1 DEF TypeOK, ProxyTypeOK
  <2> QED
    BY <1>1, <2>1, <2>2, <2>3 DEF TypeOK, ProxyTypeOK
<1> QED
  BY <1>2, <1>4, <1>5

\* The client task inside begin_rpc, send_rpc and end_rpc: chunks are counted
\* down, and what is confirmed plus what is left stays within the call.
LEMMA ClientContinuesType ==
    ASSUME TypeInv, ClientTask, ClientContinues
    PROVE  /\ LinkTypeOK' /\ RequestTypeOK' /\ IoTypeOK' /\ LineTypeOK'
           /\ CallTypeOK' /\ ProxyTypeOK' /\ CallInv'
<1> USE BoundsAssumption
<1>1. TypeOK /\ CallInv
  BY DEF TypeInv
<1>2. \A e \in Events : Apply(machine, e) \in Machine
  BY <1>1, ApplyType DEF TypeOK, LinkTypeOK
<1>3. <<>> \in Seq(Items) /\ Len(<<>>) = 0
  BY EmptySeq
<1> USE DEF ClientTask, ClientContinues
<1>4. CASE CallApply
  <2>1. LinkTypeOK'
    BY <1>1, <1>2, <1>4 DEF CallApply, Events, TypeOK, LinkTypeOK
  <2>2. RequestTypeOK' /\ IoTypeOK' /\ LineTypeOK'
    BY <1>1, <1>4 DEF CallApply, requestVars, lineVars, TypeOK, RequestTypeOK, IoTypeOK,
       LineTypeOK
  <2>3. CallTypeOK' /\ CallInv'
    BY <1>1, <1>4 DEF CallApply, InCall, Returns, TypeOK, CallTypeOK, CallInv, Asking
  <2>4. ProxyTypeOK'
    <3>1. delivered' \in {delivered, <<>>} /\ confirmed' \in {confirmed, 0}
      BY <1>4 DEF CallApply, SameSession, Closes
    <3>2. proxy' \in {proxy, "closed"} /\ writer' = writer
      BY <1>4 DEF CallApply, SameSession, Closes
    <3>3. session' \in 0..MaxSessions
      BY <1>1, <1>4 DEF CallApply, TypeOK, ProxyTypeOK, CallInv
    <3>4. delivered' \in Seq(Items)
      BY <1>1, <1>3, <3>1 DEF TypeOK, ProxyTypeOK
    <3> QED
      BY <1>1, <3>1, <3>2, <3>3, <3>4 DEF TypeOK, ProxyTypeOK
  <2> QED
    BY <2>1, <2>2, <2>3, <2>4
<1>5. CASE SendWaitStatus
  <2>1. LinkTypeOK' /\ IoTypeOK' /\ ProxyTypeOK'
    BY <1>1, <1>5 DEF SendWaitStatus, SameSession, TypeOK, LinkTypeOK, IoTypeOK,
       ProxyTypeOK
  <2>2. RequestTypeOK'
    BY <1>1, <1>5 DEF SendWaitStatus, CallArm, CallSend, CallWait, CallCollect,
       ForgetAnswer, requestVars, TypeOK, RequestTypeOK, Statuses
  <2>3. CallTypeOK' /\ CallInv'
    BY <1>1, <1>5 DEF SendWaitStatus, CallArm, CallSend, CallWait, CallCollect, InCall,
       SameSession, Answer, TypeOK, RequestTypeOK, CallTypeOK, CallInv, Asking
  <2>4. LineTypeOK'
    <3>1. CASE UNCHANGED lineVars
      BY <1>1, <3>1 DEF TypeOK, LineTypeOK, lineVars
    <3>2. CASE CallSend
      <4>1. op \in {"start", "data", "stop"}
        BY <1>1, <3>2 DEF CallSend, CallInv, Asking
      <4>2. OnData \in SUBSET Outcomes
        BY <1>1, OutcomeTypes
      <4>3. op # "data" => OnControl(op) \in SUBSET Outcomes
        BY <1>1, <4>1, OutcomeTypes
      <4> QED
        BY <1>1, <3>2, <4>2, <4>3, TransmitType DEF CallSend, TypeOK
    <3> QED
      BY <1>5, <3>1, <3>2 DEF SendWaitStatus, CallArm, CallWait, CallCollect
  <2> QED
    BY <2>1, <2>2, <2>3, <2>4
<1>6. CASE CallConclude
  <2>1. LinkTypeOK'
    BY <1>1, <1>2, <1>6 DEF CallConclude, ConcludeStart, ConcludeStop, ConcludeData,
       CallFails, LinkLost, Events, TypeOK, LinkTypeOK
  <2>2. RequestTypeOK' /\ IoTypeOK' /\ LineTypeOK'
    BY <1>1, <1>6 DEF CallConclude, requestVars, lineVars, TypeOK, RequestTypeOK,
       IoTypeOK, LineTypeOK
  <2>3. CallTypeOK' /\ CallInv'
    BY <1>1, <1>6 DEF CallConclude, ConcludeStart, ConcludeStop, ConcludeData, CallFails,
       Returns, InCall, TypeOK, CallTypeOK, ProxyTypeOK, CallInv, Asking
  <2>4. ProxyTypeOK'
    <3>1. delivered' \in {delivered, <<>>} /\ session' = session /\ writer' = writer
      BY <1>6 DEF CallConclude, ConcludeStart, ConcludeStop, ConcludeData, CallFails,
         ProxyTo, Closes, SameSession
    <3>2. proxy' \in {proxy, "closed", "begun", "closing"}
      BY <1>6 DEF CallConclude, ConcludeStart, ConcludeStop, ConcludeData, CallFails,
         ProxyTo, Closes, SameSession
    <3>3. confirmed' \in 0..MaxChunks
      BY <1>1, <1>6 DEF CallConclude, ConcludeStart, ConcludeStop, ConcludeData, CallFails,
         ProxyTo, Closes, SameSession, TypeOK, CallTypeOK, ProxyTypeOK, CallInv, Asking
    <3>4. delivered' \in Seq(Items)
      BY <1>1, <1>3, <3>1 DEF TypeOK, ProxyTypeOK
    <3> QED
      BY <1>1, <3>1, <3>2, <3>3, <3>4 DEF TypeOK, ProxyTypeOK
  <2> QED
    BY <2>1, <2>2, <2>3, <2>4
<1>7. CASE CallReset
  <2>1. rpc_rx' \in Seq(Items) /\ Len(rpc_rx') <= RpcRxCapacity
    BY <1>3, <1>7 DEF CallReset, ResetBuffer
  <2>2. LinkTypeOK' /\ RequestTypeOK' /\ IoTypeOK' /\ LineTypeOK'
    BY <1>1, <1>7, <2>1 DEF CallReset, requestVars, lineVars, TypeOK, LinkTypeOK,
       RequestTypeOK, IoTypeOK, LineTypeOK
  <2>3. CallTypeOK' /\ ProxyTypeOK' /\ CallInv'
    BY <1>1, <1>3, <1>7 DEF CallReset, Returns, Closes, TypeOK, CallTypeOK, ProxyTypeOK,
       CallInv, Asking
  <2> QED
    BY <2>2, <2>3
<1> QED
  BY <1>4, <1>5, <1>6, <1>7

\* The types hold always, together with what makes them inductive: the count of
\* failures and the locals of a call in progress.
THEOREM TypesAreKept == Spec => []TypeInv
<1>1. Init => TypeInv
  <2> SUFFICES ASSUME Init PROVE TypeInv
    OBVIOUS
  <2> USE MaxRetriesAssumption, BaudAssumption, BoundsAssumption DEF Init
  <2>1. <<>> \in Seq(Items) /\ <<>> \in Seq(Frames) /\ Len(<<>>) = 0
    BY EmptySeq
  <2>2. LinkTypeOK
    BY DEF LinkTypeOK, InitialMachine, Machine, States
  <2>3. SupTypeOK
    <3>1. Len(BaudRates) \in Nat \ {0}
      BY EmptySeq
    <3> QED
      BY <3>1 DEF SupTypeOK
  <2>4. RequestTypeOK
    BY Zenon DEF RequestTypeOK, Statuses
  <2>5. CallTypeOK
    BY DEF CallTypeOK
  <2>6. CallInv /\ CountInv
    BY DEF CallInv, CountInv, Asking, Establishing
  <2>7. IoTypeOK /\ ProxyTypeOK
    BY <2>1 DEF IoTypeOK, ProxyTypeOK
  <2>8. LineTypeOK
    BY <2>1 DEF LineTypeOK, Absent, Flippers
  <2> QED
    BY <2>2, <2>3, <2>4, <2>5, <2>6, <2>7, <2>8 DEF TypeInv, TypeOK
<1>2. TypeInv /\ [Next]_vars => TypeInv'
  <2> SUFFICES ASSUME TypeInv, [Next]_vars PROVE TypeInv'
    OBVIOUS
  <2> USE DEF TypeInv, TypeOK
  <2>1. CASE Supervisor
    <3>1. RequestTypeOK' /\ CallTypeOK' /\ ProxyTypeOK' /\ CallInv'
      BY <2>1 DEF Supervisor, requestVars, callVars, proxyVars, writerVars,
         RequestTypeOK, CallTypeOK, ProxyTypeOK, CallInv, Asking
    <3> QED
      BY <2>1, <3>1, SupLoopType, EstablishType DEF Supervisor
  <2>2. CASE RxTask
    <3>1. SupTypeOK' /\ CallTypeOK' /\ ProxyTypeOK' /\ CallInv' /\ CountInv'
      BY <2>2 DEF RxTask, supVars, callVars, proxyVars, writerVars, SupTypeOK,
         CallTypeOK, ProxyTypeOK, CallInv, CountInv, Asking
    <3> QED
      BY <2>2, <3>1, IoTasksType
  <2>3. CASE HeartbeatTask
    <3>1. SupTypeOK' /\ CallTypeOK' /\ ProxyTypeOK' /\ CallInv' /\ CountInv'
      BY <2>3 DEF HeartbeatTask, supVars, callVars, proxyVars, writerVars, SupTypeOK,
         CallTypeOK, ProxyTypeOK, CallInv, CountInv, Asking
    <3> QED
      BY <2>3, <3>1, IoTasksType
  <2>4. CASE ClientTask /\ ClientStarts
    <3>1. SupTypeOK' /\ RequestTypeOK' /\ IoTypeOK' /\ LineTypeOK' /\ CountInv'
      BY <2>4 DEF ClientTask, ClientStarts, supVars, requestVars, lineVars, SupTypeOK,
         RequestTypeOK, IoTypeOK, LineTypeOK, CountInv
    <3> QED
      BY <2>4, <3>1, ClientStartsType
  <2>5. CASE ClientTask /\ ClientContinues
    <3>1. SupTypeOK' /\ CountInv'
      BY <2>5 DEF ClientTask, supVars, SupTypeOK, CountInv
    <3> QED
      BY <2>5, <3>1, ClientContinuesType
  <2>6. CASE WriterTask
    <3>1. /\ LinkTypeOK' /\ SupTypeOK' /\ RequestTypeOK' /\ LineTypeOK' /\ CallTypeOK'
          /\ CallInv' /\ CountInv'
      BY <2>6 DEF WriterTask, supVars, linkVars, requestVars, callVars, proxyVars,
         lineVars, LinkTypeOK, SupTypeOK, RequestTypeOK, LineTypeOK, CallTypeOK,
         CallInv, CountInv, Asking
    <3> QED
      BY <2>6, <3>1, WriterType
  <2>7. CASE Environment
    <3>1. /\ LinkTypeOK' /\ SupTypeOK' /\ RequestTypeOK' /\ IoTypeOK' /\ CallTypeOK'
          /\ ProxyTypeOK' /\ CallInv' /\ CountInv'
      BY <2>7 DEF Environment, supVars, linkVars, requestVars, callVars, proxyVars,
         writerVars, LinkTypeOK, SupTypeOK, RequestTypeOK, IoTypeOK, CallTypeOK,
         ProxyTypeOK, CallInv, CountInv, Asking
    <3> QED
      BY <2>7, <3>1, EnvironmentType
  <2>8. CASE UNCHANGED vars
    BY <2>8 DEF vars, supVars, linkVars, requestVars, callVars, proxyVars, writerVars,
       lineVars, LinkTypeOK, SupTypeOK, RequestTypeOK, IoTypeOK, LineTypeOK, CallTypeOK,
       ProxyTypeOK, CallInv, CountInv, Asking
  <2> QED
    BY <2>1, <2>2, <2>3, <2>4, <2>5, <2>6, <2>7, <2>8 DEF Next, ClientTask
<1> QED
  BY <1>1, <1>2, PTL DEF Spec

\* Every variable keeps its type in every behaviour, for every MaxRetries, list of
\* rates, buffer size and bound: bridge_io_buffer_can_accept keeps the receive
\* buffer within its capacity, and the supervisor's count of failures never passes
\* BRIDGE_EXPANSION_MAX_RETRIES.
THEOREM TypeCorrect == Spec => []TypeOK
<1>1. TypeInv => TypeOK
  BY DEF TypeInv
<1> QED
  BY <1>1, TypesAreKept, PTL

-----------------------------------------------------------------------------
(* Ownership: of the UART, of the machine and of an RPC session              *)

\* stop_io_tasks leaves no task behind that could read the UART while the next
\* establish_expansion reads it.  The invariant is inductive as it stands.
THEOREM UartHasOneReader == Spec => []SingleUartReader
<1>1. Init => SingleUartReader
  BY DEF Init, SingleUartReader
<1>2. SingleUartReader /\ [Next]_vars => SingleUartReader'
  <2> SUFFICES ASSUME SingleUartReader, [Next]_vars PROVE SingleUartReader'
    OBVIOUS
  <2> USE DEF SingleUartReader
  <2>1. CASE SupLoop
    BY <2>1 DEF SupLoop, SupStartup, SupWake, SupRetry
  <2>2. CASE Establish
    BY <2>2 DEF Establish, EstInit, EstStart, EstPulse, EstAwaitHeartbeat, EstSendBaud,
       EstAwaitBaud, EstSwitchBaud
  <2>3. CASE SupRun
    BY <2>3 DEF SupRun, SupFailed, SupSpawn, SupSpawnHeartbeat, SupLost, SupStopIo,
       SupTimeout, StopIoTasks
  <2>4. CASE RxTask
    BY <2>4 DEF RxTask, RxStop, RxReject, RxHeartbeat, RxStatus, RxGive, RxData,
       RxRefuse, RxAck, RxReads, RxBreak, supVars
  <2>5. CASE HeartbeatTask
    BY <2>5 DEF HeartbeatTask, HbStop, HbTimeout, HbSend, supVars
  <2>6. CASE ClientTask \/ WriterTask \/ Environment \/ UNCHANGED vars
    BY <2>6 DEF ClientTask, WriterTask, Environment, vars, supVars
  <2> QED
    BY <2>1, <2>2, <2>3, <2>4, <2>5, <2>6 DEF Next, Supervisor
<1> QED
  BY <1>1, <1>2, PTL DEF Spec

\* Which states an accepted event of a client, and of the supervisor, leads to and
\* from (expansion_state_machine_apply).
LEMMA ApplyStates ==
    ASSUME NEW m \in Machine
    PROVE  /\ Apply(m, "Timeout").state \in {"Disconnected", "Backoff"}
           /\ \A e \in {"Start", "HeartbeatReceived", "BaudAccepted", "BaudRejected",
                        "BeginRpc", "RpcStarted", "EndRpc", "RpcStopped"} :
                /\ ~Accepts(m, e) => Apply(m, e) = m
                /\ Accepts(m, e) => Apply(m, e).state = Successor(m.state, e)
           /\ Accepts(m, "Start") <=> m.state = "Disconnected"
           /\ Accepts(m, "HeartbeatReceived") <=> m.state = "InitialUart"
           /\ Accepts(m, "BaudAccepted") <=> m.state = "NegotiatingBaud"
           /\ Accepts(m, "BaudRejected") <=> m.state = "NegotiatingBaud"
           /\ Accepts(m, "BeginRpc") <=> m.state = "Ready"
           /\ Accepts(m, "RpcStarted") <=> m.state = "StartingRpc"
           /\ Accepts(m, "EndRpc") <=> m.state = "RpcReady"
           /\ Accepts(m, "RpcStopped") <=> m.state = "StoppingRpc"
<1> USE DEF Machine, Accepts, Apply
<1>1. Apply(m, "Timeout").state \in {"Disconnected", "Backoff"}
  BY DEF FailConnection
<1>2. \A e \in {"Start", "HeartbeatReceived", "BaudAccepted", "BaudRejected",
                "BeginRpc", "RpcStarted", "EndRpc", "RpcStopped"} :
          /\ ~Accepts(m, e) => Apply(m, e) = m
          /\ Accepts(m, e) => Apply(m, e).state = Successor(m.state, e)
  OBVIOUS
<1>3. /\ Accepts(m, "Start") <=> m.state = "Disconnected"
      /\ Accepts(m, "HeartbeatReceived") <=> m.state = "InitialUart"
      /\ Accepts(m, "BaudAccepted") <=> m.state = "NegotiatingBaud"
      /\ Accepts(m, "BaudRejected") <=> m.state = "NegotiatingBaud"
  BY DEF Successor
<1>4. /\ Accepts(m, "BeginRpc") <=> m.state = "Ready"
      /\ Accepts(m, "RpcStarted") <=> m.state = "StartingRpc"
      /\ Accepts(m, "EndRpc") <=> m.state = "RpcReady"
      /\ Accepts(m, "RpcStopped") <=> m.state = "StoppingRpc"
  BY DEF Successor
<1> QED
  BY <1>1, <1>2, <1>3, <1>4

\* The supervisor hands the machine over only outside the RPC states, and forgets
\* a loss (SupRetry clears LOST) only when no RPC state is left.
LEMMA SupervisorOwnership ==
    ASSUME TypeInv, OwnershipInv, Supervisor
    PROVE  OwnershipInv'
<1>1. machine \in Machine
  BY DEF TypeInv, TypeOK, LinkTypeOK
<1>2. UNCHANGED <<call, op, proxy>>
  BY DEF Supervisor, callVars, proxyVars
<1> USE DEF OwnershipInv, MachineInv, EstablishmentOwnsMachine
<1>3. CASE SupLoop
  BY <1>2, <1>3 DEF SupLoop, SupStartup, SupWake, SupRetry, SessionInv, RpcStates,
     Asking
<1>4. CASE Establish
  <2>1. \/ machine' = machine
        \/ machine'.state \in {"Disconnected", "InitialUart", "NegotiatingBaud", "Ready"}
    BY <1>1, <1>4, ApplyStates DEF Establish, EstInit, EstStart, EstPulse,
       EstAwaitHeartbeat, EstSendBaud, EstAwaitBaud, EstSwitchBaud, EstablishApply,
       ReceiveFails, InitialMachine, Successor
  <2>2. SessionInv'
    BY <1>2, <1>4, <2>1 DEF Establish, SessionInv, RpcStates, Asking
  <2>3. MachineInv'
    BY <1>1, <1>4, ApplyStates DEF Establish, EstInit, EstStart, EstPulse,
       EstAwaitHeartbeat, EstSendBaud, EstAwaitBaud, EstSwitchBaud, EstablishApply,
       ReceiveFails, Proceed, EstablishFails, InitialMachine, Successor
  <2> QED
    BY <2>2, <2>3
<1>5. CASE SupRun
  <2>1. machine' = machine \/ machine'.state \in {"Disconnected", "Backoff"}
    BY <1>1, <1>5, ApplyStates DEF SupRun, SupFailed, SupSpawn, SupSpawnHeartbeat,
       SupLost, SupStopIo, SupTimeout
  <2>2. "LOST" \in events => "LOST" \in events'
    BY <1>5 DEF SupRun, SupFailed, SupSpawn, SupSpawnHeartbeat, SupLost, SupStopIo,
       SupTimeout, LinkLost
  <2>3. SessionInv'
    BY <1>2, <2>1, <2>2 DEF SessionInv, RpcStates, Asking
  <2>4. MachineInv'
    BY <1>1, <1>5, ApplyStates DEF SupRun, SupFailed, SupSpawn, SupSpawnHeartbeat,
       SupLost, SupStopIo, SupTimeout
  <2> QED
    BY <2>3, <2>4
<1> QED
  BY <1>3, <1>4, <1>5 DEF Supervisor

\* A client's event is accepted in a state only its own earlier event, or the
\* supervisor's BaudAccepted, leads to; a call that ends badly signals the loss.
LEMMA ClientOwnership ==
    ASSUME TypeInv, OwnershipInv, ClientTask
    PROVE  OwnershipInv'
<1>1. machine \in Machine /\ UNCHANGED sup
  BY DEF TypeInv, TypeOK, LinkTypeOK, ClientTask, supVars
<1>2. CallInv
  BY DEF TypeInv
<1>3. MachineInv'
  <2>1. \/ machine' = machine
        \/ /\ machine.state \in {"Ready", "StartingRpc", "RpcReady", "StoppingRpc"}
    BY <1>1, <1>2, ApplyStates DEF ClientTask, ClientStarts, ClientContinues, CallApply,
       SendWaitStatus, CallConclude, ConcludeStart, ConcludeStop, ConcludeData,
       CallFails, CallReset, Succeeds, CallInv
  <2> QED
    BY <1>1, <2>1 DEF OwnershipInv, MachineInv, EstablishmentOwnsMachine
<1>4. SessionInv
  BY DEF OwnershipInv
<1> SUFFICES SessionInv'
  BY <1>3 DEF OwnershipInv
<1>5. CASE ClientStarts
  <2>1. machine' = machine /\ call = "idle"
    BY <1>5 DEF ClientStarts
  <2>2. CASE RequestReconnect \/ ProxyStop
    BY <1>4, <2>1, <2>2 DEF RequestReconnect, ProxyStop, InCall, SameSession, ProxyTo,
       SessionInv, Asking
  <2>3. CASE BeginRpc
    BY <1>4, <2>1, <2>3 DEF BeginRpc, SameSession, SessionInv, Asking, RpcStates
  <2>4. CASE ProxyRun
    BY <1>4, <2>1, <2>4 DEF ProxyRun, SessionUp, InCall, ProxyTo, Closes, SessionInv,
       Asking
  <2>5. CASE EndRpc
    BY <1>4, <2>1, <2>5 DEF EndRpc, SessionUp, InCall, ProxyTo, Closes, SessionInv,
       Asking
  <2>6. ASSUME NEW n \in 1..MaxChunks, SendRpc(n) PROVE SessionInv'
    BY <1>4, <2>1, <2>6 DEF SendRpc, SessionUp, InCall, ProxyTo, SameSession, SessionInv,
       Asking
  <2> QED
    BY <1>5, <2>2, <2>3, <2>4, <2>5, <2>6 DEF ClientStarts
<1>6. CASE CallApply
  <2>1. CASE op = "start"
    BY <1>1, <1>4, <1>6, <2>1, ApplyStates DEF CallApply, InCall, Returns, Closes,
       SameSession, SessionInv, Asking, RpcStates, Successor
  <2>2. CASE op = "stop"
    BY <1>1, <1>4, <1>6, <2>2, ApplyStates DEF CallApply, InCall, Returns, Closes,
       SameSession, SessionInv, Asking, RpcStates, Successor
  <2> QED
    BY <1>2, <1>6, <2>1, <2>2 DEF CallApply, CallInv
<1>7. CASE SendWaitStatus
  BY <1>4, <1>7 DEF SendWaitStatus, CallArm, CallSend, CallWait, CallCollect,
     InCall, SameSession, SessionInv, Asking
<1>8. CASE CallConclude
  <2>1. CASE ConcludeStart
    BY <1>1, <1>4, <1>8, <2>1, ApplyStates DEF CallConclude, ConcludeStart, CallFails,
       LinkLost, Succeeds, Returns, ProxyTo, Closes, SessionInv, Asking, RpcStates,
       Successor
  <2>2. CASE ConcludeStop
    BY <1>1, <1>4, <1>8, <2>2, ApplyStates DEF CallConclude, ConcludeStop, CallFails,
       LinkLost, Succeeds, Returns, InCall, SameSession, Closes, SessionInv, Asking,
       RpcStates, Successor
  <2>3. CASE ConcludeData
    BY <1>4, <1>8, <2>3 DEF CallConclude, ConcludeData, CallFails, LinkLost, Returns,
       ProxyTo, SessionInv, Asking
  <2> QED
    BY <1>8, <2>1, <2>2, <2>3 DEF CallConclude
<1>9. CASE CallReset
  BY <1>4, <1>9 DEF CallReset, Returns, Closes, SessionInv, Asking, RpcStates
<1> QED
  BY <1>5, <1>6, <1>7, <1>8, <1>9 DEF ClientTask, ClientContinues

\* The supervisor and the client task never disagree about who moves the machine.
THEOREM OwnershipIsKept == Spec => []OwnershipInv
<1>1. Init => OwnershipInv
  BY DEF Init, OwnershipInv, MachineInv, SessionInv, EstablishmentOwnsMachine,
     InitialMachine, RpcStates
<1>2. TypeInv /\ OwnershipInv /\ [Next]_vars => OwnershipInv'
  <2> SUFFICES ASSUME TypeInv, OwnershipInv, [Next]_vars PROVE OwnershipInv'
    OBVIOUS
  <2>1. CASE RxTask \/ HeartbeatTask \/ WriterTask \/ Environment \/ UNCHANGED vars
    <3>1. UNCHANGED <<machine, sup, call, op, proxy>>
      BY <2>1 DEF RxTask, HeartbeatTask, WriterTask, Environment, vars, supVars,
         linkVars, callVars, proxyVars
    <3>2. "LOST" \in events => "LOST" \in events'
      BY <2>1 DEF RxTask, RxStop, RxReject, RxHeartbeat, RxStatus, RxGive, RxData,
         RxRefuse, RxAck, RxBreak, HeartbeatTask, HbStop, HbTimeout, HbSend, LinkLost,
         WriterTask, Environment, vars, linkVars
    <3> QED
      BY <3>1, <3>2 DEF OwnershipInv, MachineInv, SessionInv, EstablishmentOwnsMachine,
         RpcStates, Asking
  <2> QED
    BY <2>1, SupervisorOwnership, ClientOwnership DEF Next
<1> QED
  BY <1>1, <1>2, TypesAreKept, PTL DEF Spec

\* A client's begin_rpc or end_rpc left over from the previous link never moves the
\* machine under establish_expansion, whose events are therefore always accepted.
THEOREM EstablishmentIsUndisturbed == Spec => []EstablishmentOwnsMachine
<1>1. OwnershipInv => EstablishmentOwnsMachine
  BY DEF OwnershipInv, MachineInv
<1> QED
  BY <1>1, OwnershipIsKept, PTL

\* Whatever way begin_rpc, the proxy and end_rpc fail, an RPC state without a call
\* or a proxy is one whose link is already signalled lost.
THEOREM NoSessionIsStranded == Spec => []NotStranded
<1>1. OwnershipInv => NotStranded
  BY DEF OwnershipInv, SessionInv, NotStranded, Asking
<1> QED
  BY <1>1, OwnershipIsKept, PTL

-----------------------------------------------------------------------------
(* The transport implements ExpansionLink                                   *)

\* Which place in the life of a session each request belongs to.
PlaceInv ==
    /\ (call = "apply" \/ Asking) /\ op = "start" => proxy = "closed"
    /\ (call = "apply" \/ Asking) /\ op = "stop" => proxy = "closing"
    /\ Asking /\ op = "data" => proxy = "open"
    /\ call = "reset" => proxy = "closing"

\* begin_rpc runs without a proxy, send_rpc in an open one, end_rpc in a closing one.
THEOREM PlacesAreKept == Spec => []PlaceInv
<1>1. Init => PlaceInv
  BY DEF Init, PlaceInv, Asking
<1>2. TypeInv /\ PlaceInv /\ [Next]_vars => PlaceInv'
  <2> SUFFICES ASSUME TypeInv, PlaceInv, [Next]_vars PROVE PlaceInv'
    OBVIOUS
  <2> USE DEF PlaceInv, Asking
  <2>1. CASE ~ClientTask
    BY <2>1 DEF Next, Supervisor, RxTask, HeartbeatTask, WriterTask, Environment, vars,
       callVars, proxyVars
  <2>2. CASE ClientTask /\ ClientStarts
    BY <2>2 DEF ClientTask, ClientStarts, RequestReconnect, BeginRpc, ProxyRun, ProxyStop,
       EndRpc, SendRpc, InCall, SameSession, ProxyTo, Closes
  <2>3. CASE ClientTask /\ ClientContinues
    <3>1. CallInv
      BY DEF TypeInv
    <3>2. CASE CallApply
      BY <3>1, <3>2 DEF CallApply, CallInv, InCall, Returns, SameSession, Closes
    <3>3. CASE SendWaitStatus
      BY <3>3 DEF SendWaitStatus, CallArm, CallSend, CallWait, CallCollect, InCall,
         SameSession
    <3>4. CASE CallConclude
      BY <3>4 DEF CallConclude, ConcludeStart, ConcludeStop, ConcludeData, CallFails,
         InCall, Returns, SameSession, ProxyTo, Closes
    <3>5. CASE CallReset
      BY <3>5 DEF CallReset, Returns, Closes
    <3> QED
      BY <2>3, <3>2, <3>3, <3>4, <3>5 DEF ClientContinues
  <2> QED
    BY <2>1, <2>2, <2>3 DEF ClientTask
<1> QED
  BY <1>1, <1>2, TypesAreKept, PTL DEF Spec

\* The supervisor's steps are, for a user, a new establishment, a loss or nothing.
LEMMA SupervisorRefines ==
    ASSUME TypeInv, OwnershipInv, Supervisor
    PROVE  Link!LinkUp \/ Link!LinkDown \/ UNCHANGED Link!linkVars
<1>1. machine \in Machine
  BY DEF TypeInv, TypeOK, LinkTypeOK
<1>2. UserState' = UserState
  BY DEF Supervisor, callVars, proxyVars, UserState, Asking
<1>3. \/ machine' = machine
      \/ LinkState' = "down"
      \/ machine.state = "NegotiatingBaud" /\ machine'.state = "Ready"
  <2>1. CASE SupLoop
    BY <2>1 DEF SupLoop
  <2>2. CASE Establish
    BY <1>1, <2>2, ApplyStates DEF Establish, EstInit, EstStart, EstPulse,
       EstAwaitHeartbeat, EstSendBaud, EstAwaitBaud, EstSwitchBaud, EstablishApply,
       ReceiveFails, InitialMachine, Successor, LinkState
  <2>3. CASE SupRun
    BY <1>1, <2>3, ApplyStates DEF SupRun, SupFailed, SupSpawn, SupSpawnHeartbeat,
       SupLost, SupStopIo, SupTimeout, LinkState
  <2> QED
    BY <2>1, <2>2, <2>3 DEF Supervisor
<1>4. CASE machine' = machine
  BY <1>2, <1>4 DEF LinkState, Link!linkVars
<1>5. CASE LinkState' = "down"
  BY <1>2, <1>5 DEF Link!LinkDown, Link!linkVars
<1>6. CASE machine.state = "NegotiatingBaud" /\ machine'.state = "Ready"
  BY <1>2, <1>6 DEF LinkState, Link!LinkUp
<1> QED
  BY <1>3, <1>4, <1>5, <1>6

\* The client task's steps are the calls of ExpansionLink: each is entered and left
\* in the state of the link the abstract action names.
LEMMA ClientRefines ==
    ASSUME TypeInv, PlaceInv, ClientTask
    PROVE  Link!LinkNext \/ UNCHANGED Link!linkVars
<1>1. machine \in Machine /\ CallInv
  BY DEF TypeInv, TypeOK, LinkTypeOK
<1>2. CASE ClientStarts
  <2>1. LinkState' = LinkState /\ call = "idle"
    BY <1>2 DEF ClientStarts, LinkState
  <2>2. CASE RequestReconnect \/ BeginRpc \/ ProxyStop
    BY <2>1, <2>2 DEF RequestReconnect, BeginRpc, ProxyStop, InCall, SameSession, ProxyTo,
       UserState, Asking, Link!linkVars
  <2>3. CASE ProxyRun
    BY <2>1, <2>3 DEF ProxyRun, SessionUp, InCall, ProxyTo, Closes, UserState, Asking,
       LinkState, Link!linkVars, Link!LinkNext, Link!Leave
  <2>4. CASE EndRpc
    BY <2>1, <2>4 DEF EndRpc, SessionUp, InCall, ProxyTo, Closes, UserState, Asking,
       LinkState, Link!linkVars, Link!LinkNext, Link!Leave
  <2>5. ASSUME NEW n \in 1..MaxChunks, SendRpc(n) PROVE UNCHANGED Link!linkVars
    BY <2>1, <2>5 DEF SendRpc, InCall, ProxyTo, SameSession, UserState, Asking,
       Link!linkVars
  <2> QED
    BY <1>2, <2>2, <2>3, <2>4, <2>5 DEF ClientStarts
<1>3. CASE CallApply
  <2>1. CASE op = "start"
    BY <1>1, <1>3, <2>1, ApplyStates DEF CallApply, PlaceInv, InCall, Returns, Closes,
       SameSession, Successor, UserState, Asking, LinkState, Link!linkVars,
       Link!LinkNext, Link!Ask
  <2>2. CASE op = "stop"
    <3>1. UserState = "inside"
      BY <1>3, <2>2 DEF CallApply, PlaceInv, UserState, Asking
    <3>2. CASE Accepts(machine, "EndRpc")
      <4>1. machine.state = "RpcReady" /\ machine'.state = "StoppingRpc"
        BY <1>1, <1>3, <2>2, <3>2, ApplyStates DEF CallApply, Successor
      <4>2. UserState' = "stopping"
        BY <1>3, <2>2, <3>2 DEF CallApply, InCall, UserState, Asking
      <4> QED
        BY <3>1, <4>1, <4>2 DEF LinkState, Link!LinkNext, Link!Stop
    <3>3. CASE ~Accepts(machine, "EndRpc")
      <4>1. machine.state # "RpcReady" /\ machine' = machine
        BY <1>1, <1>3, <2>2, <3>3, ApplyStates DEF CallApply
      <4>2. UserState' = "away"
        BY <1>3, <2>2, <3>3 DEF CallApply, Returns, Closes, UserState, Asking
      <4> QED
        BY <3>1, <4>1, <4>2 DEF LinkState, Link!LinkNext, Link!Leave
    <3> QED
      BY <3>2, <3>3
  <2> QED
    BY <1>1, <1>3, <2>1, <2>2 DEF CallApply, CallInv
<1>4. CASE SendWaitStatus
  BY <1>4 DEF SendWaitStatus, CallArm, CallSend, CallWait, CallCollect, InCall,
     SameSession, UserState, Asking, LinkState, Link!linkVars
<1>5. CASE CallConclude
  <2>1. CASE ConcludeStart
    BY <1>1, <1>5, <2>1, ApplyStates DEF CallConclude, ConcludeStart, CallFails, PlaceInv,
       Succeeds, Returns, ProxyTo, Closes, Successor, UserState, Asking, LinkState,
       Link!LinkNext, Link!Open, Link!Refuse
  <2>2. CASE ConcludeStop
    <3>1. UserState = "stopping" /\ UserState' = "away"
      BY <1>5, <2>2 DEF CallConclude, ConcludeStop, CallFails, Returns, InCall, Closes,
         UserState, Asking
    <3>2. \/ machine.state = "StoppingRpc" /\ machine'.state = "Ready"
          \/ machine' = machine
      BY <1>1, <1>5, <2>2, ApplyStates DEF CallConclude, ConcludeStop, CallFails,
         Succeeds, Successor
    <3> QED
      BY <3>1, <3>2 DEF LinkState, Link!LinkNext, Link!Closed, Link!StopFails
  <2>3. CASE ConcludeData
    BY <1>5, <2>3 DEF CallConclude, ConcludeData, CallFails, PlaceInv, Returns, ProxyTo,
       UserState, Asking, LinkState, Link!linkVars
  <2> QED
    BY <1>5, <2>1, <2>2, <2>3 DEF CallConclude
<1>6. CASE CallReset
  BY <1>6 DEF CallReset, PlaceInv, Returns, Closes, UserState, Asking, LinkState,
     Link!linkVars
<1> QED
  BY <1>2, <1>3, <1>4, <1>5, <1>6 DEF ClientTask, ClientContinues

\* The transport implements ExpansionLink for every number of rates, retries, chunks
\* and sessions: begin_rpc and end_rpc move the link in the order its users rely on,
\* and whatever else happens to the link is an establishment or a loss.
THEOREM TransportImplementsLink == Spec => ImplementsLink
<1>1. Init => Link!LinkInit
  BY DEF Init, InitialMachine, Link!LinkInit, LinkState, UserState, Asking
<1>2. TypeInv /\ OwnershipInv /\ PlaceInv /\ [Next]_vars
        => [Link!LinkNext]_(Link!linkVars)
  <2> SUFFICES ASSUME TypeInv, OwnershipInv, PlaceInv, [Next]_vars
               PROVE  Link!LinkNext \/ UNCHANGED Link!linkVars
    OBVIOUS
  <2>1. CASE RxTask \/ HeartbeatTask \/ WriterTask \/ Environment \/ UNCHANGED vars
    BY <2>1 DEF RxTask, HeartbeatTask, WriterTask, Environment, vars, linkVars, callVars,
       proxyVars, UserState, Asking, LinkState, Link!linkVars
  <2> QED
    BY <2>1, SupervisorRefines, ClientRefines DEF Next, Link!LinkNext
<1> QED
  BY <1>1, <1>2, TypesAreKept, OwnershipIsKept, PlacesAreKept, PTL
     DEF Spec, ImplementsLink, Link!LinkSpec
=============================================================================
