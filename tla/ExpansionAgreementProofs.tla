----------------------- MODULE ExpansionAgreementProofs -----------------------
(***************************************************************************)
(* What the bridge believes about the Flipper is true, for every value of  *)
(* the constants of ExpansionTransport: both ends use the same rate, a     *)
(* session that began was opened by the Flipper, a chunk that was          *)
(* confirmed was received, and a link that is Ready is in no session.      *)
(*                                                                         *)
(* The argument is about STATUS frames: which request a STATUS that is on  *)
(* the line, or on its way through the RX task, can still be an answer to. *)
(***************************************************************************)
EXTENDS ExpansionTransportProofs

Lost == "LOST" \in events

\* From the moment both ends are at the negotiated rate until the link has been
\* taken down, and the two steps that lead there.
LinkedUp  == {"spawn_hb", "linked", "stop_io", "timeout"}
Switching == {"dead_time", "spawn"}

-----------------------------------------------------------------------------
(* The client task's request and its session                               *)

\* The locals of send_wait_status.
RequestInv ==
    /\ reply # "error" => call = "conclude"
    /\ awaiting_status <=> call \in {"send", "wait", "answered", "unanswered"}

\* A START or STOP is sent in the state its transport_apply led to, or while the
\* supervisor waits for it to be sent.
ControlInv ==
    call \in {"arm", "send"} /\ sup # "retry" =>
        /\ op = "start" => machine.state = "StartingRpc"
        /\ op = "stop" => machine.state = "StoppingRpc"

\* The RPC states belong to the call that asked for them, or to nobody any more.
RpcStateInv ==
    /\ machine.state = "StartingRpc" =>
          (Asking /\ op = "start") \/ (call = "idle" /\ proxy = "closed")
    /\ machine.state = "StoppingRpc" =>
          (Asking /\ op = "stop") \/ (call = "idle" /\ proxy = "closed")
    /\ machine.state = "RpcReady" => proxy # "closed" /\ ~(Asking /\ op = "stop")

\* What the place of a session says about its writer and its history.
WriterInv ==
    /\ proxy \in {"closed", "begun"}
          => writer = "none" /\ delivered = <<>> /\ confirmed = 0
    /\ proxy = "open" => writer # "none"
    /\ ((call = "apply" \/ Asking) /\ op = "stop") \/ call = "reset" => writer = "none"

\* A session begins only on a link that is up: an answer needs the RX task, and
\* the semaphore holds no token of an earlier link when a request is sent.
UpInv ==
    /\ machine.state \in {"RpcReady", "StoppingRpc"} => sup \in LinkedUp
    /\ sup \in Switching \cup {"failed"} /\ machine.state = "StartingRpc" =>
          /\ ~(awaiting_status /\ status_semaphore)
          /\ call # "answered" /\ reply = "error"
    /\ sup \in Establishing \cup {"init", "spawn"} /\ call = "send"
          => ~status_semaphore

CallerInv == RequestInv /\ ControlInv /\ RpcStateInv /\ WriterInv /\ UpInv

\* What the earlier theorems give for every reachable state.
Known == TypeInv /\ SingleUartReader /\ OwnershipInv /\ PlaceInv

\* The transport's types, its one reader of the UART, who owns which task and
\* where each task is, together.
THEOREM KnownIsKept == Spec => []Known
<1> QED
  BY TypesAreKept, UartHasOneReader, OwnershipIsKept, PlacesAreKept, PTL DEF Known

\* The supervisor takes an RPC state away only with a Timeout, which ends in
\* "retry", and leaves there only once the frame of a request has been sent.
LEMMA SupervisorCaller ==
    ASSUME Known, CallerInv, Supervisor
    PROVE  CallerInv'
<1>1. machine \in Machine
  BY DEF Known, TypeInv, TypeOK, LinkTypeOK
<1>2. UNCHANGED <<call, op, reply, left, proxy, session, confirmed, writer, delivered,
                  awaiting_status, last_status, status_semaphore>>
  BY DEF Supervisor, requestVars, callVars, proxyVars, writerVars
<1>3. MachineInv
  BY DEF Known, OwnershipInv
<1>4. RequestInv' /\ WriterInv'
  BY <1>2 DEF CallerInv, RequestInv, WriterInv, Asking
<1>5. CASE SupLoop
  <2>1. machine' = machine
    BY <1>5 DEF SupLoop
  <2>2. RpcStateInv'
    BY <1>2, <2>1 DEF CallerInv, RpcStateInv, Asking
  <2>3. ControlInv' /\ UpInv'
    BY <1>2, <1>3, <1>5, <2>1 DEF SupLoop, SupStartup, SupWake, SupRetry, CallerInv,
       ControlInv, UpInv, MachineInv, LinkedUp, Switching, Establishing
  <2> QED
    BY <1>4, <2>2, <2>3 DEF CallerInv
<1>6. CASE Establish
  <2>1. \/ machine' = machine
        \/ /\ machine.state \in {"Disconnected", "Backoff", "InitialUart", "NegotiatingBaud"}
           /\ machine'.state \in {"Disconnected", "InitialUart", "NegotiatingBaud", "Ready"}
    BY <1>1, <1>3, <1>6, ApplyStates DEF Establish, EstInit, EstStart, EstPulse,
       EstAwaitHeartbeat, EstSendBaud, EstAwaitBaud, EstSwitchBaud, EstablishApply,
       ReceiveFails, InitialMachine, Successor, MachineInv, EstablishmentOwnsMachine
  <2>2. sup \in {"init"} \cup Establishing /\ sup' \in {"failed", "spawn"} \cup Establishing
    BY <1>6 DEF Establish, EstInit, EstStart, EstPulse, EstAwaitHeartbeat, EstSendBaud,
       EstAwaitBaud, EstSwitchBaud, EstablishApply, ReceiveFails, Proceed,
       EstablishFails, Establishing
  <2>4. ControlInv'
    BY <1>2, <2>1, <2>2 DEF CallerInv, ControlInv, Establishing
  <2>5. RpcStateInv'
    BY <1>2, <2>1 DEF CallerInv, RpcStateInv, Asking
  <2>6. machine.state \notin {"RpcReady", "StoppingRpc"}
    BY <2>2 DEF CallerInv, UpInv, LinkedUp, Establishing
  <2>7. machine.state = "StartingRpc" => sup = "dead_time"
    BY <1>3, <2>2 DEF MachineInv, EstablishmentOwnsMachine, Establishing
  <2>8. UpInv'
    BY <1>2, <2>1, <2>2, <2>6, <2>7 DEF CallerInv, UpInv, Switching, Establishing
  <2> QED
    BY <1>4, <2>4, <2>5, <2>8 DEF CallerInv
<1>7. CASE SupRun
  <2>1. \/ machine' = machine /\ sup \in LinkedUp \cup {"spawn"} /\ sup' \in LinkedUp
        \/ machine'.state \in {"Disconnected", "Backoff"} /\ sup' = "retry"
    BY <1>1, <1>7, ApplyStates DEF SupRun, SupFailed, SupSpawn, SupSpawnHeartbeat,
       SupLost, SupStopIo, SupTimeout, LinkedUp
  <2>2. ControlInv' /\ UpInv' /\ RpcStateInv'
    BY <1>2, <2>1 DEF CallerInv, ControlInv, UpInv, RpcStateInv, LinkedUp, Switching,
       Establishing, Asking
  <2> QED
    BY <1>4, <2>2 DEF CallerInv
<1> QED
  BY <1>5, <1>6, <1>7 DEF Supervisor

\* The RX task, which alone gives the semaphore, exists only on a link that is up.
LEMMA OthersCaller ==
    ASSUME Known, CallerInv,
           RxTask \/ HeartbeatTask \/ WriterTask \/ Environment \/ UNCHANGED vars
    PROVE  CallerInv'
<1>1. UNCHANGED <<machine, sup, call, op, reply, proxy, confirmed, awaiting_status>>
  BY DEF RxTask, HeartbeatTask, WriterTask, Environment, vars, supVars, linkVars,
     callVars, proxyVars, requestVars
<1>2. RequestInv' /\ ControlInv' /\ RpcStateInv'
  BY <1>1 DEF CallerInv, RequestInv, ControlInv, RpcStateInv, Asking
<1>3. WriterInv'
  <2>1. CASE WriterTask
    BY <1>1, <2>1 DEF CallerInv, WriterInv, WriterTask, WriterForward, WriterEmpty,
       WriterCheck, WriterStop, Asking
  <2>2. CASE UNCHANGED writerVars
    BY <1>1, <2>2 DEF CallerInv, WriterInv, writerVars, Asking
  <2> QED
    BY <2>1, <2>2 DEF RxTask, HeartbeatTask, Environment, vars
<1>4. rx # "none" => sup \in LinkedUp
  BY DEF Known, SingleUartReader, LinkedUp
<1>5. status_semaphore' = status_semaphore \/ rx # "none"
  BY DEF RxTask, RxStop, RxReject, RxHeartbeat, RxStatus, RxGive, RxData, RxRefuse,
     RxAck, RxReads, HeartbeatTask, WriterTask, Environment, vars, requestVars
<1>6. UpInv'
  BY <1>1, <1>4, <1>5 DEF CallerInv, UpInv, LinkedUp, Switching, Establishing
<1> QED
  BY <1>2, <1>3, <1>6 DEF CallerInv

\* The client task between two calls.
LEMMA StartsCaller ==
    ASSUME Known, CallerInv, ClientTask, ClientStarts
    PROVE  CallerInv'
<1>1. /\ call = "idle" /\ reply = "error" /\ ~awaiting_status
      /\ UNCHANGED <<machine, sup, reply, awaiting_status, status_semaphore>>
  BY DEF ClientTask, ClientStarts, CallerInv, RequestInv, supVars, requestVars
<1>2. RequestInv' /\ ControlInv'
  BY <1>1 DEF CallerInv, RequestInv, ControlInv, ClientStarts, RequestReconnect, BeginRpc,
     ProxyRun, ProxyStop, EndRpc, SendRpc, InCall
<1>3. RpcStateInv'
  BY <1>1 DEF CallerInv, RpcStateInv, ClientStarts, RequestReconnect, BeginRpc, ProxyRun,
     ProxyStop, EndRpc, SendRpc, InCall, SameSession, ProxyTo, Closes, SessionUp, Asking
<1>4. WriterInv'
  BY <1>1 DEF CallerInv, WriterInv, ClientStarts, RequestReconnect, BeginRpc, ProxyRun,
     ProxyStop, EndRpc, SendRpc, InCall, SameSession, ProxyTo, Closes, Asking
<1>5. UpInv'
  BY <1>1 DEF CallerInv, UpInv, ClientStarts, RequestReconnect, BeginRpc, ProxyRun,
     ProxyStop, EndRpc, SendRpc, InCall
<1> QED
  BY <1>2, <1>3, <1>4, <1>5 DEF CallerInv

\* The client task inside begin_rpc, send_rpc and end_rpc.
LEMMA ContinuesCaller ==
    ASSUME Known, CallerInv, ClientTask, ClientContinues
    PROVE  CallerInv'
<1>1. machine \in Machine /\ CallInv /\ PlaceInv /\ MachineInv /\ SessionInv
  BY DEF Known, TypeInv, TypeOK, LinkTypeOK, OwnershipInv
<1>2. UNCHANGED <<sup, writer>>
  BY DEF ClientTask, ClientContinues, supVars
<1> USE DEF CallerInv
<1>3. CASE CallApply
  <2>1. /\ call = "apply" /\ op \in {"start", "stop"} /\ reply = "error"
        /\ ~awaiting_status /\ UNCHANGED <<reply, awaiting_status, status_semaphore>>
    BY <1>1, <1>3 DEF CallApply, CallInv, RequestInv, requestVars
  <2>2. CASE call' = "arm"
    <3>1. /\ UNCHANGED <<op, proxy, confirmed, delivered>>
          /\ op = "start" => machine.state = "Ready" /\ machine'.state = "StartingRpc"
          /\ op = "stop" => machine.state = "RpcReady" /\ machine'.state = "StoppingRpc"
      BY <1>1, <1>3, <2>1, <2>2, ApplyStates DEF CallApply, InCall, SameSession, Returns,
         Successor
    <3>2. RequestInv' /\ ControlInv' /\ RpcStateInv'
      BY <2>1, <2>2, <3>1 DEF RequestInv, ControlInv, RpcStateInv, Asking
    <3>3. WriterInv' /\ UpInv'
      BY <1>2, <2>1, <2>2, <3>1 DEF WriterInv, UpInv, Asking, LinkedUp, Switching,
         Establishing
    <3> QED
      BY <3>2, <3>3
  <2>3. CASE call' = "idle"
    <3>1. /\ machine' = machine /\ proxy' = "closed" /\ confirmed' = 0 /\ delivered' = <<>>
          /\ machine.state # "RpcReady" \/ op = "start"
      BY <1>1, <1>3, <2>1, <2>3, ApplyStates DEF CallApply, InCall, Closes, Returns
    <3>2. RequestInv' /\ ControlInv' /\ RpcStateInv'
      BY <1>1, <2>1, <2>3, <3>1 DEF RequestInv, ControlInv, RpcStateInv, PlaceInv, Asking
    <3>3. WriterInv' /\ UpInv'
      BY <1>1, <1>2, <2>1, <2>3, <3>1 DEF WriterInv, UpInv, PlaceInv, Asking
    <3> QED
      BY <3>2, <3>3
  <2> QED
    BY <1>3, <2>2, <2>3 DEF CallApply, InCall, Returns
<1>4. CASE SendWaitStatus
  <2>1. UNCHANGED <<machine, op, proxy, confirmed, delivered>>
    BY <1>4 DEF SendWaitStatus, SameSession, CallArm, CallSend, CallWait, CallCollect,
       InCall
  <2>2. RequestInv' /\ ControlInv' /\ RpcStateInv' /\ WriterInv'
    BY <1>2, <1>4, <2>1 DEF SendWaitStatus, CallArm, CallSend, CallWait, CallCollect,
       InCall, requestVars, RequestInv, ControlInv, RpcStateInv, WriterInv, Asking, Answer
  <2>3. UpInv'
    BY <1>2, <1>4, <2>1 DEF SendWaitStatus, CallArm, CallSend, CallWait, CallCollect,
       InCall, requestVars, RequestInv, UpInv, Answer, ForgetAnswer
  <2> QED
    BY <2>2, <2>3
<1>5. CASE CallConclude
  <2>1. /\ call = "conclude" /\ ~awaiting_status /\ reply' = "error"
        /\ UNCHANGED <<awaiting_status, status_semaphore>>
    BY <1>5 DEF CallConclude, RequestInv, requestVars
  <2>2. /\ call' \in {"idle", "reset", "arm"} /\ (call' = "arm" => op = "data" /\ op' = op)
        /\ RequestInv' /\ ControlInv'
    BY <1>5, <2>1 DEF CallConclude, ConcludeStart, ConcludeStop, ConcludeData, CallFails,
       Returns, InCall, RequestInv, ControlInv
  <2>3. CASE ConcludeStart
    <3>1. proxy = "closed" /\ op = "start" /\ call' = "idle"
      BY <1>1, <1>5, <2>1, <2>3 DEF ConcludeStart, CallFails, Returns, PlaceInv, Asking
    <3>2. \/ /\ machine.state = "StartingRpc" /\ machine'.state = "RpcReady"
             /\ proxy' = "begun" /\ UNCHANGED <<confirmed, delivered>> /\ reply = "None"
          \/ /\ machine' = machine /\ proxy' = "closed" /\ confirmed' = 0
             /\ delivered' = <<>>
      BY <1>1, <2>3, <3>1, ApplyStates DEF ConcludeStart, CallFails, Succeeds, ProxyTo,
         Closes, Successor
    <3>3. RpcStateInv' /\ WriterInv'
      BY <1>2, <3>1, <3>2 DEF RpcStateInv, WriterInv, Asking
    <3>4. machine.state = "StartingRpc" => sup \in LinkedUp \cup Switching \cup {"failed"}
      BY <1>1 DEF MachineInv, EstablishmentOwnsMachine, Known, TypeInv, TypeOK, SupTypeOK,
         Establishing, LinkedUp, Switching
    <3>5. UpInv'
      BY <1>2, <2>1, <3>1, <3>2, <3>4 DEF UpInv
    <3> QED
      BY <2>2, <3>3, <3>5
  <2>4. CASE ConcludeStop
    <3>1. proxy = "closing" /\ op = "stop" /\ writer = "none"
      BY <1>1, <1>5, <2>1, <2>4 DEF ConcludeStop, PlaceInv, WriterInv, Asking
    <3>2. \/ /\ machine.state = "StoppingRpc" /\ machine'.state = "Ready"
             /\ call' = "reset" /\ UNCHANGED <<proxy, confirmed, delivered>>
          \/ /\ machine' = machine /\ proxy' = "closed" /\ confirmed' = 0
             /\ delivered' = <<>> /\ call' = "idle"
      BY <1>1, <2>4, <3>1, ApplyStates DEF ConcludeStop, CallFails, Succeeds, InCall,
         SameSession, Returns, Closes, Successor
    <3>3. RpcStateInv' /\ WriterInv' /\ UpInv'
      BY <1>2, <2>1, <3>1, <3>2 DEF RpcStateInv, WriterInv, UpInv, Asking
    <3> QED
      BY <2>2, <3>3
  <2>5. CASE ConcludeData
    <3>1. proxy = "open" /\ op = "data" /\ machine' = machine
      BY <1>1, <1>5, <2>1, <2>5 DEF ConcludeData, CallFails, PlaceInv, Asking
    <3>2. proxy' \in {"open", "closing"} /\ delivered' = delivered /\ call' # "reset"
          /\ call' \in {"idle", "arm"}
      BY <2>5, <3>1 DEF ConcludeData, CallFails, Returns, ProxyTo
    <3>3. RpcStateInv' /\ WriterInv' /\ UpInv'
      BY <1>2, <2>1, <2>2, <3>1, <3>2 DEF RpcStateInv, WriterInv, UpInv, Asking
    <3> QED
      BY <2>2, <3>3
  <2> QED
    BY <1>5, <2>3, <2>4, <2>5 DEF CallConclude
<1>6. CASE CallReset
  <2>1. RequestInv' /\ ControlInv' /\ RpcStateInv'
    BY <1>1, <1>6 DEF CallReset, Returns, Closes, requestVars, RequestInv, ControlInv,
       RpcStateInv, SessionInv, RpcStates, Asking
  <2>2. WriterInv' /\ UpInv'
    BY <1>2, <1>6 DEF CallReset, Returns, Closes, requestVars, RequestInv, WriterInv,
       UpInv, Asking
  <2> QED
    BY <2>1, <2>2
<1> QED
  BY <1>3, <1>4, <1>5, <1>6 DEF ClientContinues

\* Who asked, in which state, with which writer: always.
THEOREM CallerIsKept == Spec => []CallerInv
<1>1. Init => CallerInv
  BY DEF Init, CallerInv, RequestInv, ControlInv, RpcStateInv, WriterInv, UpInv,
     InitialMachine, Asking
<1>2. Known /\ CallerInv /\ [Next]_vars => CallerInv'
  BY SupervisorCaller, OthersCaller, StartsCaller, ContinuesCaller DEF Next, ClientTask
<1> QED
  BY <1>1, <1>2, KnownIsKept, PTL DEF Spec

-----------------------------------------------------------------------------
(* The line: what a queue of frames holds                                   *)

HasNone(q)   == \E i \in 1..Len(q) : q[i] = StatusFrame("None")
HasStatus(q) == \E i \in 1..Len(q) : q[i].type = "status"
HasData(q)   == \E i \in 1..Len(q) : q[i].type = "data"

TwoStatuses(q) == \E i, j \in 1..Len(q) :
                      i < j /\ q[i].type = "status" /\ q[j].type = "status"
NoneBehind(q)  == \E i, j \in 1..Len(q) :
                      i < j /\ q[i].type = "status" /\ q[j] = StatusFrame("None")

\* The frames can be told apart by their types.
LEMMA FrameKinds ==
    /\ HeartbeatFrame.type = "heartbeat"
    /\ \A s : StatusFrame(s).type = "status" /\ StatusFrame(s).status = s
    /\ \A i : DataFrame(i).type = "data" /\ DataFrame(i).item = i
    /\ \A f \in Frames : f.type = "status" => f = StatusFrame(f.status)
<1>1. /\ HeartbeatFrame.type = "heartbeat"
      /\ \A s : StatusFrame(s).type = "status" /\ StatusFrame(s).status = s
      /\ \A i : DataFrame(i).type = "data" /\ DataFrame(i).item = i
  BY DEF HeartbeatFrame, StatusFrame, DataFrame
<1>2. ASSUME NEW f \in Frames, f.type = "status" PROVE f = StatusFrame(f.status)
  <2>1. f # HeartbeatFrame /\ \A i : f # DataFrame(i)
    BY <1>1, <1>2
  <2>2. PICK s \in Statuses : f = StatusFrame(s)
    BY <2>1 DEF Frames
  <2> QED
    BY <1>1, <2>2
<1> QED
  BY <1>1, <1>2

\* An empty line, and one with a heartbeat.
LEMMA QuietLine ==
    ASSUME NEW q, q = <<>> \/ q = <<HeartbeatFrame>>
    PROVE  ~HasNone(q) /\ ~HasStatus(q) /\ ~HasData(q) /\ ~TwoStatuses(q) /\ ~NoneBehind(q)
<1>1. \A i \in 1..Len(q) : q[i].type = "heartbeat"
  BY FrameKinds
<1> QED
  BY <1>1, FrameKinds DEF HasNone, HasStatus, HasData, TwoStatuses, NoneBehind

\* The Flipper sends one more frame.
LEMMA PushFrame ==
    ASSUME NEW q \in Seq(Frames), NEW f \in Frames, NEW p, p = Append(q, f)
    PROVE  /\ HasNone(p) <=> HasNone(q) \/ f = StatusFrame("None")
           /\ HasStatus(p) <=> HasStatus(q) \/ f.type = "status"
           /\ HasData(p) <=> HasData(q) \/ f.type = "data"
           /\ TwoStatuses(p) <=> TwoStatuses(q) \/ (HasStatus(q) /\ f.type = "status")
           /\ NoneBehind(p) <=> NoneBehind(q) \/ (HasStatus(q) /\ f = StatusFrame("None"))
<1>1. /\ Len(q) \in Nat /\ Len(p) = Len(q) + 1 /\ p[Len(q) + 1] = f
      /\ \A i \in 1..Len(q) : p[i] = q[i]
  BY AppendProperties, LenProperties
<1>2. HasNone(p) <=> HasNone(q) \/ f = StatusFrame("None")
  BY <1>1 DEF HasNone
<1>3. HasStatus(p) <=> HasStatus(q) \/ f.type = "status"
  BY <1>1 DEF HasStatus
<1>4. HasData(p) <=> HasData(q) \/ f.type = "data"
  BY <1>1 DEF HasData
<1>5. TwoStatuses(p) <=> TwoStatuses(q) \/ (HasStatus(q) /\ f.type = "status")
  <2>1. TwoStatuses(p) => TwoStatuses(q) \/ (HasStatus(q) /\ f.type = "status")
    BY <1>1 DEF TwoStatuses, HasStatus
  <2>2. TwoStatuses(q) => TwoStatuses(p)
    BY <1>1 DEF TwoStatuses
  <2>3. HasStatus(q) /\ f.type = "status" => TwoStatuses(p)
    BY <1>1 DEF TwoStatuses, HasStatus
  <2> QED
    BY <2>1, <2>2, <2>3
<1>6. NoneBehind(p) <=> NoneBehind(q) \/ (HasStatus(q) /\ f = StatusFrame("None"))
  <2>1. NoneBehind(p) => NoneBehind(q) \/ (HasStatus(q) /\ f = StatusFrame("None"))
    BY <1>1 DEF NoneBehind, HasStatus
  <2>2. NoneBehind(q) => NoneBehind(p)
    BY <1>1 DEF NoneBehind
  <2>3. HasStatus(q) /\ f = StatusFrame("None") => NoneBehind(p)
    BY <1>1 DEF NoneBehind, HasStatus
  <2> QED
    BY <2>1, <2>2, <2>3
<1> QED
  BY <1>2, <1>3, <1>4, <1>5, <1>6

\* The bridge takes a frame off the line.
LEMMA PopFrame ==
    ASSUME NEW q \in Seq(Frames), q # <<>>, NEW p, p = Tail(q)
    PROVE  /\ HasNone(p) => HasNone(q)
           /\ HasStatus(p) => HasStatus(q)
           /\ HasData(p) => HasData(q)
           /\ TwoStatuses(p) => TwoStatuses(q)
           /\ NoneBehind(p) => NoneBehind(q)
           /\ Head(q) = StatusFrame("None") => HasNone(q)
           /\ Head(q).type = "data" => HasData(q)
           /\ Head(q).type = "status" =>
                 /\ HasStatus(q)
                 /\ HasStatus(p) => TwoStatuses(q)
                 /\ HasNone(p) => NoneBehind(q)
<1>1. /\ Len(q) \in Nat \ {0} /\ Len(p) = Len(q) - 1 /\ Head(q) = q[1]
      /\ \A i \in 1..Len(p) : p[i] = q[i + 1]
  BY HeadTailProperties, LenProperties, EmptySeq
<1>2. (HasNone(p) => HasNone(q)) /\ (Head(q) = StatusFrame("None") => HasNone(q))
  BY <1>1 DEF HasNone
<1>3. (HasStatus(p) => HasStatus(q)) /\ (Head(q).type = "status" => HasStatus(q))
  BY <1>1 DEF HasStatus
<1>4. (HasData(p) => HasData(q)) /\ (Head(q).type = "data" => HasData(q))
  BY <1>1 DEF HasData
<1>5. TwoStatuses(p) => TwoStatuses(q)
  <2> SUFFICES ASSUME NEW i \in 1..Len(p), NEW j \in 1..Len(p), i < j,
                      p[i].type = "status", p[j].type = "status"
               PROVE  TwoStatuses(q)
    BY DEF TwoStatuses
  <2>1. i + 1 \in 1..Len(q) /\ j + 1 \in 1..Len(q) /\ i + 1 < j + 1
    BY <1>1
  <2>2. q[i + 1].type = "status" /\ q[j + 1].type = "status"
    BY <1>1
  <2> QED
    BY <2>1, <2>2 DEF TwoStatuses
<1>6. NoneBehind(p) => NoneBehind(q)
  <2> SUFFICES ASSUME NEW i \in 1..Len(p), NEW j \in 1..Len(p), i < j,
                      p[i].type = "status", p[j] = StatusFrame("None")
               PROVE  NoneBehind(q)
    BY DEF NoneBehind
  <2>1. i + 1 \in 1..Len(q) /\ j + 1 \in 1..Len(q) /\ i + 1 < j + 1
    BY <1>1
  <2>2. q[i + 1].type = "status" /\ q[j + 1] = StatusFrame("None")
    BY <1>1
  <2> QED
    BY <2>1, <2>2 DEF NoneBehind
<1>7. Head(q).type = "status" /\ HasStatus(p) => TwoStatuses(q)
  <2> SUFFICES ASSUME Head(q).type = "status", NEW i \in 1..Len(p), p[i].type = "status"
               PROVE  TwoStatuses(q)
    BY DEF HasStatus
  <2>1. 1 \in 1..Len(q) /\ i + 1 \in 1..Len(q) /\ 1 < i + 1
    BY <1>1
  <2> QED
    BY <1>1, <2>1 DEF TwoStatuses
<1>8. Head(q).type = "status" /\ HasNone(p) => NoneBehind(q)
  <2> SUFFICES ASSUME Head(q).type = "status", NEW i \in 1..Len(p),
                      p[i] = StatusFrame("None")
               PROVE  NoneBehind(q)
    BY DEF HasNone
  <2>1. 1 \in 1..Len(q) /\ i + 1 \in 1..Len(q) /\ 1 < i + 1
    BY <1>1
  <2> QED
    BY <1>1, <2>1 DEF NoneBehind
<1> QED
  BY <1>2, <1>3, <1>4, <1>5, <1>6, <1>7, <1>8

-----------------------------------------------------------------------------
(* What a frame the bridge writes can do                                    *)

\* The Flipper's own account of the session stays as it was.
SameAccount ==
    /\ flipper'.session = flipper.session /\ flipper'.sent = flipper.sent
    /\ flipper'.acked = flipper.acked /\ flipper'.received = flipper.received

\* The Flipper ends its session, with or without an answer.
HangsUp ==
    /\ flipper.mode # "away" /\ flipper'.mode = "away" /\ flipper'.baud = InitialBaud
    /\ SameAccount
    /\ uart_rx' = uart_rx \/ uart_rx' = Append(uart_rx, StatusFrame("Unknown"))

\* It answers a request it heard and stays, or carries it out.
Declines ==
    /\ flipper' = flipper /\ uart_rx' = Append(uart_rx, StatusFrame("Unknown"))
    /\ \/ op = "start" /\ flipper.mode = "connected"
       \/ op = "data" /\ flipper.mode = "rpc"
CarriesOutStart ==
    /\ op = "start" /\ flipper.mode = "connected"
    /\ flipper'.mode = "rpc" /\ flipper'.baud = flipper.baud
    /\ flipper'.session = session /\ flipper'.sent = 0 /\ flipper'.acked = 0
    /\ flipper'.received = 0
    /\ uart_rx' = Append(uart_rx, StatusFrame("None"))
CarriesOutStop ==
    /\ op = "stop" /\ flipper.mode = "rpc"
    /\ flipper'.mode = "connected" /\ flipper'.baud = flipper.baud /\ SameAccount
    /\ uart_rx' = Append(uart_rx, StatusFrame("None"))
CarriesOutData ==
    /\ op = "data" /\ flipper.mode = "rpc"
    /\ flipper'.mode = "rpc" /\ flipper'.baud = flipper.baud
    /\ flipper'.session = flipper.session /\ flipper'.sent = flipper.sent
    /\ flipper'.acked = flipper.acked /\ flipper'.received = flipper.received + 1
    /\ uart_rx' = Append(uart_rx, StatusFrame("None"))

\* What the Flipper does about a frame it does not expect.
LEMMA Unheard ==
    ASSUME flipper \in Flippers, uart_rx \in Seq(Frames), NEW expected, NEW S,
           Transmit(Heard(expected, S))
    PROVE  \/ UNCHANGED lineVars /\ (~PinsAttached \/ flipper.mode = "away")
           \/ HangsUp
           \/ /\ expected /\ Transmit(S) /\ flipper.mode # "away"
              /\ PinsAttached /\ flipper.baud = uart_baud
<1>1. /\ Gone.mode = "away" /\ Gone.baud = InitialBaud /\ Gone.session = flipper.session
      /\ Gone.sent = flipper.sent /\ Gone.acked = flipper.acked
      /\ Gone.received = flipper.received
  BY DEF Gone, Flippers
<1>2. uart_rx \o <<>> = uart_rx /\ \A f : uart_rx \o <<f>> = Append(uart_rx, f)
  BY AppendIsConcat, ConcatEmptySeq
<1>3. PICK o \in Heard(expected, S) : flipper' = o.flipper /\ uart_rx' = uart_rx \o o.answer
  BY DEF Transmit
<1>4. CASE ~PinsAttached \/ flipper.mode = "away"
  BY <1>2, <1>3, <1>4 DEF Heard, Outcome, lineVars
<1>5. CASE ~(~PinsAttached \/ flipper.mode = "away") /\ flipper.baud # uart_baud
  BY <1>1, <1>2, <1>3, <1>5 DEF Heard, Outcome, HangsUp, SameAccount
<1>6. CASE ~(~PinsAttached \/ flipper.mode = "away") /\ flipper.baud = uart_baud /\ expected
  BY <1>3, <1>6 DEF Heard, Transmit
<1>7. CASE ~(~PinsAttached \/ flipper.mode = "away") /\ flipper.baud = uart_baud /\ ~expected
  BY <1>1, <1>2, <1>3, <1>7 DEF Heard, Outcome, Answers, HangsUp, SameAccount
<1> QED
  BY <1>4, <1>5, <1>6, <1>7

\* send_frame of a request: the frame is lost, or the Flipper does one of the above.
\* A request that is now being waited for has reached the Flipper.
LEMMA RequestEffects ==
    ASSUME Known, CallSend
    PROVE  /\ call' \in {"wait", "unanswered"}
           /\ \/ /\ UNCHANGED lineVars
                 /\ call' = "wait" => ~PinsAttached \/ flipper.mode = "away"
              \/ HangsUp
              \/ /\ PinsAttached /\ flipper.baud = uart_baud
                 /\ Declines \/ CarriesOutStart \/ CarriesOutStop \/ CarriesOutData
<1>1. flipper \in Flippers /\ uart_rx \in Seq(Frames) /\ session \in 0..MaxSessions
  BY DEF Known, TypeInv, TypeOK, LineTypeOK, ProxyTypeOK
<1>2. op \in {"start", "data", "stop"}
  BY DEF Known, TypeInv, CallInv, CallSend, Asking
<1> DEFINE outcomes == IF op = "data" THEN OnData ELSE OnControl(op)
<1>3. \/ Transmit(outcomes) /\ call' = "wait"
      \/ TransmitFails(outcomes) /\ call' = "unanswered"
  BY DEF CallSend, InCall
<1> HIDE DEF outcomes
<1>4. \A f : uart_rx \o <<f>> = Append(uart_rx, f)
  BY <1>1
<1>5. ASSUME Transmit(outcomes)
      PROVE  \/ UNCHANGED lineVars /\ (~PinsAttached \/ flipper.mode = "away")
             \/ HangsUp
             \/ /\ PinsAttached /\ flipper.baud = uart_baud
                /\ Declines \/ CarriesOutStart \/ CarriesOutStop \/ CarriesOutData
  <2>1. CASE op = "start"
    <3> DEFINE S == {Answers(InSession, "None"), Answers(flipper, "Unknown")}
    <3>1. Transmit(Heard(flipper.mode = "connected", S))
      BY <1>5, <2>1 DEF outcomes, OnControl
    <3>2. ASSUME flipper.mode = "connected", Transmit(S)
          PROVE  Declines \/ CarriesOutStart
      <4>1. PICK o \in S : flipper' = o.flipper /\ uart_rx' = uart_rx \o o.answer
        BY <3>2 DEF Transmit
      <4>2. CASE o = Answers(InSession, "None")
        BY <1>4, <2>1, <3>2, <4>1, <4>2 DEF Answers, Outcome, InSession, CarriesOutStart
      <4>3. CASE o = Answers(flipper, "Unknown")
        BY <1>4, <2>1, <3>2, <4>1, <4>3 DEF Answers, Outcome, Declines
      <4> QED
        BY <4>2, <4>3
    <3> QED
      BY <1>1, <3>1, <3>2, Unheard
  <2>2. CASE op = "stop"
    <3> DEFINE S == {Answers([flipper EXCEPT !.mode = "connected"], "None")}
    <3>1. Transmit(Heard(flipper.mode = "rpc", S))
      BY <1>5, <2>2 DEF outcomes, OnControl
    <3>2. ASSUME flipper.mode = "rpc", Transmit(S)
          PROVE  CarriesOutStop
      <4>1. PICK o \in S : flipper' = o.flipper /\ uart_rx' = uart_rx \o o.answer
        BY <3>2 DEF Transmit
      <4>2. o = Answers([flipper EXCEPT !.mode = "connected"], "None")
        OBVIOUS
      <4> QED
        BY <1>1, <1>4, <2>2, <3>2, <4>1, <4>2 DEF Answers, Outcome, CarriesOutStop,
           SameAccount, Flippers
    <3> QED
      BY <1>1, <3>1, <3>2, Unheard
  <2>3. CASE op = "data"
    <3> DEFINE S == {Answers([flipper EXCEPT !.received = @ + 1], "None"),
                     Answers(flipper, "Unknown")}
    <3>1. Transmit(Heard(flipper.mode = "rpc", S))
      BY <1>5, <2>3 DEF outcomes, OnData
    <3>2. ASSUME flipper.mode = "rpc", Transmit(S)
          PROVE  Declines \/ CarriesOutData
      <4>1. PICK o \in S : flipper' = o.flipper /\ uart_rx' = uart_rx \o o.answer
        BY <3>2 DEF Transmit
      <4>2. CASE o = Answers([flipper EXCEPT !.received = @ + 1], "None")
        BY <1>1, <1>4, <2>3, <3>2, <4>1, <4>2 DEF Answers, Outcome, CarriesOutData, Flippers
      <4>3. CASE o = Answers(flipper, "Unknown")
        BY <1>4, <2>3, <3>2, <4>1, <4>3 DEF Answers, Outcome, Declines
      <4> QED
        BY <4>2, <4>3
    <3> QED
      BY <1>1, <3>1, <3>2, Unheard
  <2> QED
    BY <1>2, <2>1, <2>2, <2>3
<1> QED
  BY <1>3, <1>5 DEF TransmitFails

\* send_status: the Flipper takes an acknowledgement it waits for, or hangs up.
TakesAck ==
    /\ flipper.mode = "rpc" /\ flipper.sent > flipper.acked
    /\ flipper'.mode = "rpc" /\ flipper'.baud = flipper.baud
    /\ flipper'.session = flipper.session /\ flipper'.sent = flipper.sent
    /\ flipper'.acked = flipper.acked + 1 /\ flipper'.received = flipper.received
    /\ UNCHANGED uart_rx

\* A STATUS frame the bridge sends is lost with the link, makes the Flipper hang up
\* or, carrying no error, acknowledges its DATA frame.
LEMMA StatusEffects ==
    ASSUME Known, NEW s \in Statuses, TransmitFails(OnStatus(s))
    PROVE  \/ UNCHANGED lineVars
           \/ HangsUp
           \/ s = "None" /\ TakesAck
<1>1. flipper \in Flippers /\ uart_rx \in Seq(Frames)
  BY DEF Known, TypeInv, TypeOK, LineTypeOK
<1>2. uart_rx \o <<>> = uart_rx
  BY <1>1, ConcatEmptySeq
<1> DEFINE S == {Outcome(IF s = "None" THEN [flipper EXCEPT !.acked = @ + 1] ELSE Gone,
                         <<>>)}
<1>3. CASE Transmit(OnStatus(s))
  <2>1. Transmit(Heard(flipper.mode = "rpc" /\ flipper.sent > flipper.acked, S))
    BY <1>3 DEF OnStatus
  <2>2. ASSUME flipper.mode = "rpc", flipper.sent > flipper.acked, Transmit(S)
        PROVE  HangsUp \/ (s = "None" /\ TakesAck)
    <3>1. PICK o \in S : flipper' = o.flipper /\ uart_rx' = uart_rx \o o.answer
      BY <2>2 DEF Transmit
    <3>2. o = Outcome(IF s = "None" THEN [flipper EXCEPT !.acked = @ + 1] ELSE Gone, <<>>)
      OBVIOUS
    <3> QED
      BY <1>1, <1>2, <2>2, <3>1, <3>2 DEF Outcome, TakesAck, Gone, HangsUp, SameAccount, Flippers
  <2> QED
    BY <1>1, <2>1, <2>2, Unheard
<1> QED
  BY <1>3 DEF TransmitFails

\* A heartbeat frame: nothing, or the Flipper hangs up.
LEMMA HeartbeatEffects ==
    ASSUME Known, TransmitFails(OnHeartbeat)
    PROVE  UNCHANGED lineVars \/ HangsUp
<1>1. flipper \in Flippers /\ uart_rx \in Seq(Frames)
  BY DEF Known, TypeInv, TypeOK, LineTypeOK
<1>2. uart_rx \o <<>> = uart_rx
  BY <1>1, ConcatEmptySeq
<1>3. ASSUME Transmit({Outcome(flipper, <<>>)}) PROVE UNCHANGED lineVars
  <2>1. PICK o \in {Outcome(flipper, <<>>)} :
            flipper' = o.flipper /\ uart_rx' = uart_rx \o o.answer
    BY <1>3 DEF Transmit
  <2>2. o = Outcome(flipper, <<>>)
    OBVIOUS
  <2> QED
    BY <1>2, <2>1, <2>2 DEF Outcome, lineVars
<1> QED
  BY <1>1, <1>3, Unheard DEF TransmitFails, OnHeartbeat

-----------------------------------------------------------------------------
(* The rate                                                                 *)

\* receive_frame_sync waits for the Flipper, or the BAUD RATE request goes out.
Greeting == {"await_hb", "send_baud", "await_baud"}

\* No frame of a request that began on the previous link can be sent any more.
Quiet ==
    /\ call \notin {"arm", "send", "answered"} /\ reply = "error"
    /\ ~(call = "wait" /\ status_semaphore)

\* Where each end is while the rate is negotiated, and that they meet.
RateInv ==
    /\ flipper.mode \in {"away", "greeted"} => flipper.baud = InitialBaud
    /\ sup \in Greeting \cup {"dead_time"} => uart_baud = InitialBaud
    /\ sup = "await_baud" =>
          /\ flipper.mode # "rpc"
          /\ flipper.mode = "connected" => flipper.baud = BaudRates[baud_index]
    /\ sup = "dead_time" =>
          /\ flipper.mode # "greeted"
          /\ flipper.mode # "away" => flipper.baud = BaudRates[baud_index]
    /\ sup \in LinkedUp \cup {"spawn"} =>
          /\ flipper.mode # "greeted"
          /\ flipper.mode # "away"
                => flipper.baud = uart_baud /\ uart_baud = negotiated_baud

\* What is on the line then: a None is the answer to the BAUD RATE request of a
\* Flipper that has taken the rate, even when a client that has not noticed the
\* loss of the previous link sends a chunk in between.
GreetingInv ==
    sup \in Greeting =>
        /\ ~NoneBehind(uart_rx)
        /\ flipper.mode = "greeted" =>
              /\ ~HasNone(uart_rx) /\ ~HasData(uart_rx)
              /\ sup # "await_baud" => ~HasStatus(uart_rx)
        /\ sup = "await_baud" /\ flipper.mode \in {"greeted", "connected"}
              => ~TwoStatuses(uart_rx) /\ ~HasData(uart_rx)
        /\ sup = "await_baud" /\ TwoStatuses(uart_rx) => Quiet
        /\ sup # "await_baud" /\ HasStatus(uart_rx) => Quiet

NegotiationInv == RateInv /\ GreetingInv

\* The BAUD RATE request.
LEMMA BaudEffects ==
    ASSUME Known, sup = "send_baud", NEW b \in STRING, Transmit(OnBaud(b))
    PROVE  \/ UNCHANGED lineVars /\ flipper.mode = "away"
           \/ HangsUp
           \/ /\ flipper.mode = "greeted"
              /\ flipper'.mode = "connected" /\ flipper'.baud = b /\ SameAccount
              /\ uart_rx' = Append(uart_rx, StatusFrame("None"))
           \/ /\ flipper.mode = "greeted" /\ flipper' = flipper
              /\ uart_rx' = Append(uart_rx, StatusFrame("BaudRate"))
<1>1. flipper \in Flippers /\ uart_rx \in Seq(Frames)
  BY DEF Known, TypeInv, TypeOK, LineTypeOK
<1>2. PinsAttached /\ \A f : uart_rx \o <<f>> = Append(uart_rx, f)
  BY <1>1 DEF PinsAttached
<1> DEFINE S == {Answers([flipper EXCEPT !.mode = "connected", !.baud = b], "None"),
                 Answers(flipper, "BaudRate")}
<1>3. Transmit(Heard(flipper.mode = "greeted", S))
  BY DEF OnBaud
<1>4. CASE flipper.mode = "greeted" /\ Transmit(S)
  <2>1. PICK o \in S : flipper' = o.flipper /\ uart_rx' = uart_rx \o o.answer
    BY <1>4 DEF Transmit
  <2>2. CASE o = Answers([flipper EXCEPT !.mode = "connected", !.baud = b], "None")
    BY <1>1, <1>2, <1>4, <2>1, <2>2 DEF Answers, Outcome, SameAccount, Flippers
  <2>3. CASE o = Answers(flipper, "BaudRate")
    BY <1>2, <1>4, <2>1, <2>3 DEF Answers, Outcome
  <2> QED
    BY <2>2, <2>3
<1> QED
  BY <1>1, <1>2, <1>3, <1>4, Unheard

\* Outside the supervisor, the Flipper keeps its rate or goes away, and enters RPC
\* mode only by carrying out a START.
LEMMA FlipperMoves ==
    ASSUME Known, RxTask \/ HeartbeatTask \/ ClientTask \/ WriterTask \/ Environment
                    \/ UNCHANGED vars
    PROVE  \/ flipper' = flipper
           \/ flipper'.mode = "away" /\ flipper'.baud = InitialBaud
           \/ /\ flipper'.baud = flipper.baud
              /\ flipper.mode \in {"connected", "rpc"}
              /\ flipper'.mode \in {"connected", "rpc"}
              /\ flipper.mode = "connected" => CallSend /\ CarriesOutStart
<1>1. flipper \in Flippers
  BY DEF Known, TypeInv, TypeOK, LineTypeOK
<1>2. CASE CallSend
  BY <1>2, RequestEffects DEF HangsUp, Declines, CarriesOutStart, CarriesOutStop,
     CarriesOutData, lineVars
<1>3. CASE RxRefuse \/ RxAck
  BY <1>3, StatusEffects DEF RxRefuse, RxAck, TransmitFails, HangsUp, TakesAck, lineVars,
     Statuses
<1>4. CASE HbSend
  BY <1>4, HeartbeatEffects DEF HbSend, TransmitFails, HangsUp, lineVars
<1>5. CASE Environment
  BY <1>1, <1>5 DEF Environment, FlipperHeartbeat, FlipperData, FlipperLeaves, Gone,
     Flippers
<1>6. CASE flipper' = flipper
  BY <1>6
<1> QED
  BY <1>2, <1>3, <1>4, <1>5, <1>6 DEF RxTask, RxStop, RxReject, RxHeartbeat, RxStatus,
     RxGive, RxData, RxReads, HeartbeatTask, HbStop, HbTimeout, ClientTask, ClientStarts,
     ClientContinues, CallApply, SendWaitStatus, CallArm, CallWait, CallCollect,
     CallConclude, CallReset, WriterTask, vars, lineVars

\* A client that is quiet stays so while the link is being established, and is
\* quiet once it has sent its frame.
LEMMA QuietStays ==
    ASSUME Known, CallerInv, ClientTask, sup \in Greeting, Quiet \/ CallSend
    PROVE  Quiet'
<1>1. machine \in Machine /\ machine.state \in {"InitialUart", "NegotiatingBaud"}
  BY DEF Known, TypeInv, TypeOK, LinkTypeOK, OwnershipInv, MachineInv,
     EstablishmentOwnsMachine, Greeting
<1>2. CASE CallSend
  BY <1>2, RequestEffects DEF CallSend, CallerInv, RequestInv, UpInv, Quiet, Greeting,
     Establishing, requestVars
<1>3. CASE Quiet /\ ClientStarts
  BY <1>1, <1>3 DEF ClientStarts, RequestReconnect, BeginRpc, ProxyRun, ProxyStop, EndRpc,
     SendRpc, SessionUp, InCall, Quiet
<1>4. CASE Quiet /\ CallApply
  <2>1. CallInv
    BY DEF Known, TypeInv
  <2> QED
    BY <1>1, <1>4, <2>1, ApplyStates DEF CallApply, CallInv, Returns, Quiet
<1>5. CASE Quiet /\ SendWaitStatus
  BY <1>2, <1>5 DEF SendWaitStatus, CallArm, CallWait, CallCollect, InCall, Answer, Quiet
<1>6. CASE Quiet /\ CallConclude
  BY <1>6 DEF CallConclude, ConcludeStart, ConcludeStop, ConcludeData, CallFails, Succeeds,
     Returns, Quiet
<1>7. CASE Quiet /\ CallReset
  BY <1>7 DEF CallReset, Returns, Quiet
<1> QED
  BY <1>2, <1>3, <1>4, <1>5, <1>6, <1>7 DEF ClientTask, ClientContinues

\* The tasks other than the supervisor keep the rate.
LEMMA OthersRate ==
    ASSUME Known, CallerInv, RateInv,
           RxTask \/ HeartbeatTask \/ ClientTask \/ WriterTask \/ Environment
             \/ UNCHANGED vars
    PROVE  RateInv'
<1>1. UNCHANGED <<sup, baud_index, uart_baud, negotiated_baud>>
  BY DEF RxTask, HeartbeatTask, ClientTask, WriterTask, Environment, vars, supVars,
     linkVars
<1>2. sup = "await_baud" => ~(CallSend /\ CarriesOutStart)
  BY DEF CallSend, CarriesOutStart, CallerInv, ControlInv, Known, OwnershipInv, MachineInv,
     EstablishmentOwnsMachine
<1> QED
  BY <1>1, <1>2, FlipperMoves DEF RateInv

\* And, while the supervisor reads the UART, what is on the line.
LEMMA OthersGreeting ==
    ASSUME Known, CallerInv, NegotiationInv,
           RxTask \/ HeartbeatTask \/ ClientTask \/ WriterTask \/ Environment
             \/ UNCHANGED vars
    PROVE  GreetingInv'
<1> SUFFICES ASSUME sup \in Greeting PROVE GreetingInv'
  BY DEF RxTask, HeartbeatTask, ClientTask, WriterTask, Environment, vars, supVars,
     GreetingInv
<1>1. rx = "none" /\ hb = "none" /\ sup' = sup
  BY DEF Known, SingleUartReader, Greeting, RxTask, HeartbeatTask, ClientTask, WriterTask,
     Environment, vars, supVars
<1>2. ~RxTask /\ ~HeartbeatTask
  BY <1>1 DEF RxTask, RxStop, RxReject, RxHeartbeat, RxStatus, RxGive, RxData, RxRefuse,
     RxAck, RxReads, HeartbeatTask, HbStop, HbTimeout, HbSend
<1>3. uart_rx \in Seq(Frames) /\ flipper \in Flippers
  BY DEF Known, TypeInv, TypeOK, LineTypeOK
<1>4. GreetingInv /\ RateInv
  BY DEF NegotiationInv
<1>5. CASE ClientTask /\ CallSend
  <2>1. Quiet'
    BY <1>5, QuietStays
  <2>2. HasStatus(uart_rx) => sup = "await_baud"
    BY <1>4, <1>5 DEF GreetingInv, Quiet, CallSend
  <2>3. op = "data"
    BY <1>5 DEF CallSend, Known, TypeInv, CallInv, Asking, CallerInv, ControlInv,
       OwnershipInv, MachineInv, EstablishmentOwnsMachine, Greeting
  <2>4. CASE UNCHANGED lineVars
    BY <1>1, <1>4, <2>1, <2>4 DEF GreetingInv, lineVars
  <2>5. CASE HangsUp
    <3>1. /\ StatusFrame("Unknown") \in Frames /\ StatusFrame("Unknown").type = "status"
          /\ StatusFrame("Unknown") # StatusFrame("None")
      BY FrameTypes, FrameKinds DEF Statuses
    <3>2. NoneBehind(uart_rx') => NoneBehind(uart_rx)
      BY <1>3, <2>5, <3>1, PushFrame DEF HangsUp
    <3> QED
      BY <1>1, <1>4, <2>1, <2>5, <3>2 DEF GreetingInv, HangsUp
  <2>6. CASE flipper.mode = "rpc" /\ flipper'.mode = "rpc" /\
             \E s \in {"None", "Unknown"} : uart_rx' = Append(uart_rx, StatusFrame(s))
    <3>1. PICK s \in {"None", "Unknown"} : uart_rx' = Append(uart_rx, StatusFrame(s))
      BY <2>6
    <3>2. StatusFrame(s) \in Frames
      BY FrameTypes DEF Statuses
    <3>3. sup # "await_baud"
      BY <1>4, <2>6 DEF RateInv
    <3>4. ~NoneBehind(uart_rx')
      BY <1>3, <1>4, <2>2, <3>1, <3>2, <3>3, PushFrame DEF GreetingInv
    <3> QED
      BY <1>1, <2>1, <2>6, <3>3, <3>4 DEF GreetingInv
  <2> QED
    BY <1>5, <2>3, <2>4, <2>5, <2>6, RequestEffects DEF Declines, CarriesOutStart,
       CarriesOutStop, CarriesOutData
<1>6. CASE ClientTask /\ ~CallSend
  <2>1. UNCHANGED lineVars
    BY <1>6 DEF ClientTask, ClientStarts, ClientContinues, CallApply, SendWaitStatus,
       CallArm, CallWait, CallCollect, CallConclude, CallReset
  <2> QED
    BY <1>1, <1>4, <1>6, <2>1, QuietStays DEF GreetingInv, lineVars
<1>7. CASE Environment
  <2>1. Quiet' = Quiet
    BY <1>7 DEF Environment, callVars, requestVars, Quiet
  <2>2. CASE FlipperHeartbeat
    BY <1>1, <1>4, <2>1, <2>2, QuietLine DEF FlipperHeartbeat, GreetingInv
  <2>3. CASE FlipperData
    <3>1. flipper.mode = "rpc" /\ flipper'.mode = "rpc" /\ sup # "await_baud"
      BY <1>3, <1>4, <2>3 DEF FlipperData, RateInv, Flippers
    <3> DEFINE f == DataFrame([session |-> flipper.session, n |-> flipper.sent + 1])
    <3>2. f \in Frames /\ f.type = "data" /\ f # StatusFrame("None")
      <4>1. [session |-> flipper.session, n |-> flipper.sent + 1] \in Items
        BY <1>3, <2>3, BoundsAssumption DEF FlipperData, Flippers, Items
      <4> QED
        BY <4>1, FrameTypes, FrameKinds
    <3>3. uart_rx' = Append(uart_rx, f)
      BY <2>3 DEF FlipperData
    <3> HIDE DEF f
    <3>4. /\ NoneBehind(uart_rx') => NoneBehind(uart_rx)
          /\ HasStatus(uart_rx') => HasStatus(uart_rx)
      BY <1>3, <3>2, <3>3, PushFrame
    <3> QED
      BY <1>1, <1>4, <2>1, <3>1, <3>4 DEF GreetingInv
  <2>4. CASE FlipperLeaves
    BY <1>1, <1>3, <1>4, <2>1, <2>4 DEF FlipperLeaves, Gone, Flippers, GreetingInv
  <2> QED
    BY <1>7, <2>2, <2>3, <2>4 DEF Environment
<1>8. CASE WriterTask \/ UNCHANGED vars
  BY <1>1, <1>4, <1>8 DEF WriterTask, vars, lineVars, callVars, requestVars, GreetingInv,
     Quiet
<1> QED
  BY <1>2, <1>5, <1>6, <1>7, <1>8

\* Each step of establish_expansion keeps the negotiation in order: a None it
\* receives after the request is the Flipper's consent to the rate it sent.
LEMMA EstablishNegotiation ==
    ASSUME Known, CallerInv, NegotiationInv, Supervisor, Establish
    PROVE  NegotiationInv'
<1>1. uart_rx \in Seq(Frames) /\ flipper \in Flippers /\ baud_index \in 1..Len(BaudRates)
  BY DEF Known, TypeInv, TypeOK, LineTypeOK, SupTypeOK
<1>2. Quiet' = Quiet
  BY DEF Supervisor, callVars, requestVars, Quiet
<1>3. RateInv /\ GreetingInv
  BY DEF NegotiationInv
<1> USE DEF NegotiationInv
<1>4. CASE EstInit \/ EstStart
  BY <1>3, <1>4 DEF EstInit, EstStart, EstablishApply, Proceed, EstablishFails, lineVars,
     RateInv, GreetingInv, Greeting, LinkedUp
<1>5. CASE EstPulse
  <2>1. uart_rx' = <<>> \/ uart_rx' = <<HeartbeatFrame>>
    <3>1. ASSUME NEW o \in OnPulse PROVE o.answer \in {<<>>, <<HeartbeatFrame>>}
      BY DEF OnPulse, Outcome
    <3> QED
      BY <1>5, <3>1 DEF EstPulse
  <2>2. flipper'.mode \in {"away", "greeted"} => flipper'.baud = InitialBaud
    <3>1. ASSUME NEW o \in OnPulse
          PROVE  o.flipper.mode \in {"away", "greeted"} => o.flipper.baud = InitialBaud
      <4>1. Gone.baud = InitialBaud /\ [Absent EXCEPT !.mode = "greeted"].baud = InitialBaud
        BY <1>1 DEF Gone, Absent, Flippers
      <4>2. o.flipper \in {flipper, Gone, [Absent EXCEPT !.mode = "greeted"]}
        BY DEF OnPulse, Outcome
      <4> QED
        BY <1>3, <4>1, <4>2 DEF RateInv
    <3> QED
      BY <1>3, <1>5, <3>1 DEF EstPulse, RateInv
  <2>3. uart_baud' = InitialBaud /\ sup' \in {"await_hb", "failed"}
    BY <1>5 DEF EstPulse, SetBaudrate, Proceed, EstablishFails
  <2> QED
    BY <2>1, <2>2, <2>3, QuietLine DEF RateInv, GreetingInv, Greeting, LinkedUp
<1>6. CASE EstAwaitHeartbeat
  <2>1. UNCHANGED <<uart_baud, negotiated_baud>> /\ sup = "await_hb"
    BY <1>6 DEF EstAwaitHeartbeat
  <2>2. CASE Receives(HeartbeatFrame) /\ sup' = "send_baud"
    <3>1. /\ HasNone(uart_rx') => HasNone(uart_rx)
          /\ HasStatus(uart_rx') => HasStatus(uart_rx)
          /\ HasData(uart_rx') => HasData(uart_rx)
          /\ NoneBehind(uart_rx') => NoneBehind(uart_rx)
      BY <1>1, <2>2, PopFrame DEF Receives
    <3> QED
      BY <1>2, <1>3, <2>1, <2>2, <3>1 DEF Receives, RateInv, GreetingInv, Greeting, LinkedUp
  <2>3. CASE sup' = "failed"
    <3>1. flipper' = flipper \/ (flipper'.mode = "away" /\ flipper'.baud = InitialBaud)
      BY <1>6, <2>1, <2>3, StatusEffects DEF EstAwaitHeartbeat, Receives, ReceiveFails,
         TransmitFails, HangsUp, lineVars, Statuses
    <3> QED
      BY <1>3, <2>3, <3>1 DEF RateInv, GreetingInv, Greeting, LinkedUp
  <2> QED
    BY <1>6, <2>2, <2>3 DEF EstAwaitHeartbeat, EstablishApply, Proceed, EstablishFails,
       ReceiveFails
<1>7. CASE EstSendBaud
  <2>1. /\ UNCHANGED <<uart_baud, negotiated_baud>> /\ sup = "send_baud"
        /\ uart_baud = InitialBaud /\ BaudRates[baud_index] \in STRING
    BY <1>1, <1>3, <1>7, BaudAssumption, ElementOfSeq DEF EstSendBaud, RateInv, Greeting
  <2>2. CASE sup' = "failed"
    <3>1. \/ flipper' = flipper
          \/ flipper'.mode = "away" /\ flipper'.baud = InitialBaud
          \/ flipper'.mode = "connected"
      BY <1>7, <2>1, <2>2, BaudEffects DEF EstSendBaud, Proceed, TransmitFails, HangsUp,
         lineVars
    <3> QED
      BY <1>3, <2>2, <3>1 DEF RateInv, GreetingInv, Greeting, LinkedUp
  <2>3. CASE sup' = "await_baud"
    <3>1. baud_index' = baud_index /\ Transmit(OnBaud(BaudRates[baud_index]))
      BY <1>7, <2>3 DEF EstSendBaud, Proceed, EstablishFails
    <3>2. /\ \A s \in Statuses : StatusFrame(s) \in Frames /\ StatusFrame(s).type = "status"
          /\ StatusFrame("BaudRate") # StatusFrame("None")
          /\ StatusFrame("Unknown") # StatusFrame("None")
      BY FrameTypes, FrameKinds
    <3>3. CASE UNCHANGED lineVars /\ flipper.mode = "away"
      <4>1. TwoStatuses(uart_rx) => HasStatus(uart_rx)
        BY DEF TwoStatuses, HasStatus
      <4> QED
        BY <1>2, <1>3, <2>1, <2>3, <3>1, <3>3, <4>1 DEF RateInv, GreetingInv, Greeting,
           LinkedUp, lineVars
    <3>4. CASE HangsUp
      <4>1. /\ NoneBehind(uart_rx') => NoneBehind(uart_rx)
            /\ TwoStatuses(uart_rx') => TwoStatuses(uart_rx) \/ HasStatus(uart_rx)
        BY <1>1, <3>2, <3>4, PushFrame DEF HangsUp, Statuses
      <4>2. TwoStatuses(uart_rx) => HasStatus(uart_rx)
        BY DEF TwoStatuses, HasStatus
      <4> QED
        BY <1>2, <1>3, <2>1, <2>3, <3>1, <3>4, <4>1, <4>2 DEF RateInv, GreetingInv,
           Greeting, LinkedUp, HangsUp
    <3>5. CASE /\ flipper.mode = "greeted"
               /\ flipper'.mode = "connected" /\ flipper'.baud = BaudRates[baud_index]
               /\ uart_rx' = Append(uart_rx, StatusFrame("None"))
      <4>1. ~HasStatus(uart_rx) /\ ~HasData(uart_rx) /\ ~NoneBehind(uart_rx)
        BY <1>3, <2>1, <3>5 DEF GreetingInv, Greeting
      <4>2. ~TwoStatuses(uart_rx)
        BY <4>1 DEF TwoStatuses, HasStatus
      <4>3. ~HasData(uart_rx') /\ ~NoneBehind(uart_rx') /\ ~TwoStatuses(uart_rx')
        BY <1>1, <3>2, <3>5, <4>1, <4>2, PushFrame DEF Statuses
      <4> QED
        BY <2>1, <2>3, <3>1, <3>5, <4>3 DEF RateInv, GreetingInv, Greeting, LinkedUp
    <3>6. CASE /\ flipper.mode = "greeted" /\ flipper' = flipper
               /\ uart_rx' = Append(uart_rx, StatusFrame("BaudRate"))
      <4>1. /\ ~HasStatus(uart_rx) /\ ~HasData(uart_rx) /\ ~NoneBehind(uart_rx)
            /\ ~HasNone(uart_rx)
        BY <1>3, <2>1, <3>6 DEF GreetingInv, Greeting
      <4>2. ~TwoStatuses(uart_rx)
        BY <4>1 DEF TwoStatuses, HasStatus
      <4>3. /\ ~HasData(uart_rx') /\ ~NoneBehind(uart_rx') /\ ~TwoStatuses(uart_rx')
            /\ ~HasNone(uart_rx')
        BY <1>1, <3>2, <3>6, <4>1, <4>2, PushFrame DEF Statuses
      <4> QED
        BY <1>3, <2>1, <2>3, <3>1, <3>6, <4>3 DEF RateInv, GreetingInv, Greeting, LinkedUp
    <3> QED
      BY <2>1, <3>1, <3>3, <3>4, <3>5, <3>6, BaudEffects
  <2> QED
    BY <1>7, <2>2, <2>3 DEF EstSendBaud, Proceed, EstablishFails
<1>8. CASE EstAwaitBaud
  <2>1. UNCHANGED <<uart_baud, negotiated_baud>> /\ sup = "await_baud"
    BY <1>8 DEF EstAwaitBaud
  <2>2. CASE sup' = "failed"
    <3>1. flipper' = flipper \/ (flipper'.mode = "away" /\ flipper'.baud = InitialBaud)
      BY <1>8, <2>1, <2>2, StatusEffects DEF EstAwaitBaud, Receives, ReceiveFails,
         TransmitFails, HangsUp, lineVars, Statuses
    <3> QED
      BY <1>3, <2>2, <3>1 DEF RateInv, GreetingInv, Greeting, LinkedUp
  <2>3. CASE Receives(StatusFrame("None")) /\ sup' = "dead_time" /\ UNCHANGED baud_index
    <3>1. HasNone(uart_rx) /\ flipper' = flipper
      BY <1>1, <2>3, PopFrame DEF Receives
    <3>2. flipper.mode \in {"away", "connected"}
      BY <1>1, <1>3, <2>1, <3>1 DEF RateInv, GreetingInv, Greeting, Flippers
    <3> QED
      BY <1>3, <2>1, <2>3, <3>1, <3>2 DEF RateInv, GreetingInv, Greeting, LinkedUp
  <2>4. CASE Receives(StatusFrame("BaudRate")) /\ sup' = "send_baud"
    <3>1. flipper' = flipper /\ uart_rx # <<>> /\ uart_rx' = Tail(uart_rx)
      BY <2>4 DEF Receives
    <3>2. Head(uart_rx).type = "status"
      BY <2>4, FrameKinds DEF Receives
    <3>3. /\ HasNone(uart_rx') => HasNone(uart_rx)
          /\ HasData(uart_rx') => HasData(uart_rx)
          /\ NoneBehind(uart_rx') => NoneBehind(uart_rx)
          /\ HasStatus(uart_rx') => TwoStatuses(uart_rx)
      BY <1>1, <3>1, <3>2, PopFrame
    <3>4. RateInv'
      BY <1>3, <2>1, <2>4, <3>1 DEF RateInv, Greeting, LinkedUp
    <3>5. GreetingInv'
      BY <1>2, <1>3, <2>1, <2>4, <3>1, <3>3 DEF GreetingInv, Greeting
    <3> QED
      BY <3>4, <3>5
  <2> QED
    BY <1>8, <2>2, <2>3, <2>4 DEF EstAwaitBaud, EstablishApply, Proceed, EstablishFails,
       ReceiveFails
<1>9. CASE EstSwitchBaud
  BY <1>3, <1>9 DEF EstSwitchBaud, SetBaudrate, EstablishFails, lineVars, RateInv,
     GreetingInv, Greeting, LinkedUp
<1> QED
  BY <1>4, <1>5, <1>6, <1>7, <1>8, <1>9 DEF Establish

\* The negotiation is in order in every behaviour.
THEOREM NegotiationIsKept == Spec => []NegotiationInv
<1>1. Init => NegotiationInv
  BY DEF Init, NegotiationInv, RateInv, GreetingInv, Greeting, LinkedUp, Absent
<1>2. Known /\ CallerInv /\ NegotiationInv /\ [Next]_vars => NegotiationInv'
  <2> SUFFICES ASSUME Known, CallerInv, NegotiationInv, [Next]_vars PROVE NegotiationInv'
    OBVIOUS
  <2>1. CASE Supervisor /\ SupLoop
    BY <2>1 DEF SupLoop, SupStartup, SupWake, SupRetry, lineVars, NegotiationInv, RateInv,
       GreetingInv, Greeting, LinkedUp
  <2>2. CASE Supervisor /\ SupRun
    BY <2>2 DEF SupRun, SupFailed, SupSpawn, SupSpawnHeartbeat, SupLost, SupStopIo,
       SupTimeout, NegotiationInv, RateInv, GreetingInv, Greeting, LinkedUp
  <2> QED
    BY <2>1, <2>2, EstablishNegotiation, OthersRate, OthersGreeting
       DEF Next, Supervisor, NegotiationInv
<1> QED
  BY <1>1, <1>2, KnownIsKept, CallerIsKept, PTL DEF Spec

\* On an established link both ends use the negotiated rate, whatever rates are
\* offered, refused or answered too late.
THEOREM RatesAgree == Spec => []BaudIsAgreed
<1>1. NegotiationInv => BaudIsAgreed
  BY DEF NegotiationInv, RateInv, LinkedUp, BaudIsAgreed
<1> QED
  BY <1>1, NegotiationIsKept, PTL

-----------------------------------------------------------------------------
(* Whose answer a STATUS frame is                                           *)

\* Frames on the line can still reach the RX task of this link.
LineOpen == rx # "none" \/ sup \in Switching

\* A request has been sent, and no answer to it has been passed on.
Pending ==
    \/ call \in {"wait", "unanswered"}
    \/ call = "conclude" /\ reply = "error"

\* A STATUS has been passed on to the request in progress.
Answered ==
    \/ awaiting_status /\ status_semaphore
    \/ call = "answered"
    \/ reply # "error"

\* A None the request in progress has got or may still get.
NoneInSight ==
    \/ LineOpen /\ HasNone(uart_rx)
    \/ awaiting_status /\ last_status = "None"
    \/ reply = "None"

\* As long as no loss is signalled, at most one STATUS is under way, and only while
\* a request is pending; any other one comes from a Flipper that has hung up.
UnderWayInv ==
    LineOpen /\ ~Lost =>
        /\ HasStatus(uart_rx) \/ rx = "give" => flipper.mode = "away" \/ Pending
        /\ HasNone(uart_rx) => Pending
        /\ ~NoneBehind(uart_rx)
        /\ TwoStatuses(uart_rx) => flipper.mode = "away"
        /\ rx = "give" /\ HasStatus(uart_rx) => flipper.mode = "away"
        /\ rx = "give" => ~HasNone(uart_rx)
        /\ Answered /\ (HasStatus(uart_rx) \/ rx = "give") => flipper.mode = "away"

\* Even after a loss, no None is left for the request after an answered one, and a
\* token that comes before the request is sent comes from a Flipper that hung up.
AnsweredInv ==
    /\ Answered /\ LineOpen => ~HasNone(uart_rx)
    /\ call = "send" /\ status_semaphore /\ rx # "none" => flipper.mode = "away"
    /\ rx = "give" /\ awaiting_status /\ Answered => last_status # "None"

\* A session starts and a chunk is sent with no None under way, and a link becomes
\* Ready only with the Flipper out of RPC mode.
FreshInv ==
    /\ ReadyIsAgreed
    /\ machine.state = "Ready" /\ LineOpen => ~HasNone(uart_rx)
    /\ /\ machine.state = "RpcReady" /\ proxy \in {"begun", "open"}
       /\ call \in {"idle", "arm", "send"} /\ LineOpen
       => ~HasNone(uart_rx)
    /\ /\ machine.state = "StoppingRpc" /\ op = "stop"
       /\ call \in {"wait", "answered"} \/ reply = "None"
       => flipper.mode # "rpc"

\* A None for START means that the Flipper opened this session, and a None for a
\* chunk that it has received one more than was confirmed.
EarnedInv ==
    /\ Asking /\ op = "start" /\ machine.state = "StartingRpc" /\ NoneInSight
          => flipper.session = session
    /\ Asking /\ op = "data" /\ machine.state = "RpcReady" /\ NoneInSight
          => confirmed + 1 <= flipper.received
    /\ machine.state = "RpcReady"
          => flipper.session = session /\ confirmed <= flipper.received

AnswerInv == UnderWayInv /\ AnsweredInv /\ FreshInv /\ EarnedInv

\* What the theorems so far give for every reachable state.
Established == Known /\ CallerInv /\ NegotiationInv

\* After a step that leaves the line closed and the machine outside Ready and the
\* RPC states there is nothing to show.
LEMMA ClosedLine ==
    ASSUME ~LineOpen', machine'.state \notin RpcStates \cup {"Ready"}
    PROVE  AnswerInv'
BY DEF AnswerInv, UnderWayInv, AnsweredInv, FreshInv, EarnedInv, ReadyIsAgreed, LineOpen,
   RpcStates

\* The steps that leave the request alone: frames are taken off the line, the
\* Flipper hangs up, tasks end.
LEMMA LineSettles ==
    ASSUME AnswerInv,
           HasNone(uart_rx') => HasNone(uart_rx),
           NoneBehind(uart_rx') => NoneBehind(uart_rx),
           HasStatus(uart_rx') => HasStatus(uart_rx) \/ flipper'.mode = "away",
           TwoStatuses(uart_rx') => TwoStatuses(uart_rx) \/ flipper'.mode = "away",
           flipper.mode = "away" => flipper'.mode = "away",
           flipper'.mode = "rpc" => flipper.mode = "rpc",
           flipper'.session = flipper.session, flipper'.received = flipper.received,
           UNCHANGED <<machine, call, op, reply, proxy, session, confirmed,
                       awaiting_status, last_status, status_semaphore>>,
           LineOpen' => LineOpen,
           Lost => Lost',
           rx' # "none" =>
               \/ rx' = rx
               \/ rx' # "give" /\ (call = "send" /\ status_semaphore
                                     => flipper.mode = "away")
    PROVE  AnswerInv'
<1> USE DEF AnswerInv
<1>0. /\ Pending' = Pending /\ Answered' = Answered /\ Asking' = Asking
      /\ NoneInSight' => NoneInSight
  BY DEF Pending, Answered, Asking, NoneInSight
<1>1. UnderWayInv'
  BY <1>0 DEF UnderWayInv, LineOpen
<1>2. AnsweredInv'
  BY <1>0 DEF AnsweredInv
<1>3. FreshInv'
  BY <1>0 DEF FreshInv, ReadyIsAgreed
<1>4. EarnedInv'
  BY <1>0 DEF EarnedInv
<1> QED
  BY <1>1, <1>2, <1>3, <1>4

\* A step that changes nothing on the line.
LEMMA LineSame ==
    ASSUME AnswerInv, uart_rx' = uart_rx, flipper' = flipper,
           UNCHANGED <<machine, call, op, reply, proxy, session, confirmed,
                       awaiting_status, last_status, status_semaphore>>,
           LineOpen' => LineOpen,
           Lost => Lost',
           rx' # "none" =>
               \/ rx' = rx
               \/ rx' # "give" /\ (call = "send" /\ status_semaphore
                                     => flipper.mode = "away")
    PROVE  AnswerInv'
BY LineSettles

\* The Flipper refuses: no None and no DATA is added to the line.
LEMMA UnknownIsPushed ==
    ASSUME NEW q \in Seq(Frames), NEW p, p = Append(q, StatusFrame("Unknown"))
    PROVE  /\ HasNone(p) => HasNone(q)
           /\ NoneBehind(p) => NoneBehind(q)
           /\ HasData(p) => HasData(q)
<1>1. /\ StatusFrame("Unknown") \in Frames /\ StatusFrame("Unknown").type = "status"
      /\ StatusFrame("Unknown") # StatusFrame("None")
  BY FrameTypes, FrameKinds DEF Statuses
<1> QED
  BY <1>1, PushFrame

\* The Flipper hangs up.
LEMMA HangingUp ==
    ASSUME uart_rx \in Seq(Frames), HangsUp
    PROVE  /\ HasNone(uart_rx') => HasNone(uart_rx)
           /\ NoneBehind(uart_rx') => NoneBehind(uart_rx)
           /\ HasData(uart_rx') => HasData(uart_rx)
BY UnknownIsPushed DEF HangsUp

\* The supervisor: the line opens with the answer to the BAUD RATE request taken off
\* it, and closes before an RPC state is taken away.
LEMMA SupervisorAnswer ==
    ASSUME Established, Established', AnswerInv, Supervisor
    PROVE  AnswerInv'
<1>1. machine \in Machine /\ uart_rx \in Seq(Frames)
  BY DEF Established, Known, TypeInv, TypeOK, LinkTypeOK, LineTypeOK
<1>2. UNCHANGED <<call, op, reply, proxy, session, confirmed, awaiting_status,
                  last_status, status_semaphore>>
  BY DEF Supervisor, callVars, proxyVars, requestVars
<1>3. /\ rx # "none" => sup \in {"spawn_hb", "linked", "stop_io"}
      /\ rx' # "none" => sup' \in {"spawn_hb", "linked", "stop_io"}
  BY DEF Established, Known, SingleUartReader
<1>4. MachineInv /\ MachineInv'
  BY DEF Established, Known, OwnershipInv
<1>5. CASE SupLoop
  <2>1. ~LineOpen'
    BY <1>3, <1>5 DEF SupLoop, SupStartup, SupWake, SupRetry, LineOpen, Switching
  <2>2. machine'.state \notin RpcStates \cup {"Ready"}
    BY <1>4, <1>5 DEF SupLoop, SupStartup, SupWake, SupRetry, MachineInv, RpcStates
  <2> QED
    BY <2>1, <2>2, ClosedLine
<1>6. CASE Establish /\ sup \notin {"await_baud", "dead_time"}
  <2>1. ~LineOpen' /\ machine'.state \notin RpcStates \cup {"Ready"}
    <3>1. sup' \notin LinkedUp \cup Switching
      BY <1>6 DEF Establish, EstInit, EstStart, EstPulse, EstAwaitHeartbeat, EstSendBaud,
         EstAwaitBaud, EstSwitchBaud, EstablishApply, ReceiveFails, Proceed,
         EstablishFails, LinkedUp, Switching
    <3>2. machine'.state \notin RpcStates \cup {"Ready"}
      BY <1>1, <1>4, <1>6, ApplyStates DEF Establish, EstInit, EstStart, EstPulse,
         EstAwaitHeartbeat, EstSendBaud, EstAwaitBaud, EstSwitchBaud, EstablishApply,
         ReceiveFails, InitialMachine, Successor, MachineInv, EstablishmentOwnsMachine,
         RpcStates
    <3> QED
      BY <1>3, <3>1, <3>2 DEF LineOpen, LinkedUp
  <2> QED
    BY <2>1, ClosedLine
<1>7. CASE EstAwaitBaud /\ sup' # "dead_time"
  <2>1. sup' \in {"failed", "send_baud"} /\ machine'.state = "NegotiatingBaud"
    BY <1>1, <1>4, <1>7, ApplyStates DEF EstAwaitBaud, EstablishApply, ReceiveFails,
       Proceed, EstablishFails, Successor, MachineInv, EstablishmentOwnsMachine
  <2> QED
    BY <1>3, <2>1, ClosedLine DEF LineOpen, Switching, RpcStates
<1>8. CASE EstAwaitBaud /\ sup' = "dead_time"
  <2>1. /\ Receives(StatusFrame("None")) /\ sup = "await_baud"
        /\ machine' = Apply(machine, "BaudAccepted")
    BY <1>8 DEF EstAwaitBaud, EstablishApply, ReceiveFails, EstablishFails
  <2>2. machine'.state = "Ready"
    BY <1>1, <1>4, <2>1, ApplyStates DEF Successor, MachineInv, EstablishmentOwnsMachine
  <2>3. Head(uart_rx).type = "status"
    BY <2>1, FrameKinds DEF Receives
  <2>4. /\ HasNone(uart_rx) /\ flipper' = flipper
        /\ HasStatus(uart_rx') => TwoStatuses(uart_rx)
        /\ TwoStatuses(uart_rx') => TwoStatuses(uart_rx)
        /\ HasNone(uart_rx') => NoneBehind(uart_rx)
        /\ NoneBehind(uart_rx') => NoneBehind(uart_rx)
    BY <1>1, <2>1, <2>3, PopFrame DEF Receives
  <2>5. /\ flipper.mode \in {"away", "connected"}
        /\ ~NoneBehind(uart_rx) /\ (TwoStatuses(uart_rx) => flipper.mode = "away")
    BY <2>1, <2>4 DEF Established, Known, TypeInv, TypeOK, LineTypeOK, Flippers,
       NegotiationInv, RateInv, GreetingInv, Greeting
  <2>6. rx' = "none"
    BY <1>3, <1>8
  <2> QED
    BY <2>2, <2>4, <2>5, <2>6 DEF AnswerInv, UnderWayInv, AnsweredInv, FreshInv, EarnedInv,
       ReadyIsAgreed
<1>9. CASE \/ Establish /\ EstSwitchBaud
           \/ SupRun /\ (SupSpawn \/ SupSpawnHeartbeat \/ SupLost \/ SupStopIo)
  <2>1. uart_rx' = uart_rx /\ flipper' = flipper /\ machine' = machine
    BY <1>9 DEF SupRun, EstSwitchBaud, SupSpawn, SupSpawnHeartbeat, SupLost, SupStopIo,
       lineVars
  <2>2. Lost => Lost'
    BY <1>9 DEF Establish, SupSpawn, SupSpawnHeartbeat, SupLost, SupStopIo, LinkLost, Lost
  <2>3. rx' # "none" => rx' = rx \/ (rx' = "read" /\ sup = "spawn")
    BY <1>9 DEF Establish, SupSpawn, SupSpawnHeartbeat, SupLost, SupStopIo, RxLoops,
       StopIoTasks
  <2>4. LineOpen' => LineOpen
    BY <1>9, <2>3 DEF EstSwitchBaud, EstablishFails, SupSpawn, SupSpawnHeartbeat, SupLost,
       SupStopIo, LineOpen, Switching
  <2>5. sup = "spawn" /\ call = "send" => ~status_semaphore
    BY DEF Established, CallerInv, UpInv
  <2> QED
    BY <1>2, <2>1, <2>2, <2>3, <2>4, <2>5, LineSame
<1>10. CASE SupFailed \/ SupTimeout
  <2>1. sup' = "retry" /\ machine'.state \in {"Disconnected", "Backoff"}
    BY <1>1, <1>10, ApplyStates DEF SupFailed, SupTimeout
  <2> QED
    BY <1>3, <2>1, ClosedLine DEF LineOpen, Switching, RpcStates
<1> QED
  BY <1>5, <1>6, <1>7, <1>8, <1>9, <1>10 DEF Supervisor, Establish, EstInit, EstStart,
     EstPulse, EstAwaitHeartbeat, EstSendBaud, SupRun

\* The RX task passes a STATUS on to the request that awaits one; if it was not the
\* answer to that request, the Flipper had hung up or the loss is signalled, and the
\* task looks at no further frame.
LEMMA RxAnswer ==
    ASSUME Established, AnswerInv, RxTask
    PROVE  AnswerInv'
<1>1. uart_rx \in Seq(Frames) /\ CallerInv /\ sup \in LinkedUp /\ rx # "none"
  <2>1. rx # "none"
    BY DEF RxTask, RxStop, RxReject, RxHeartbeat, RxStatus, RxGive, RxData, RxRefuse, RxAck,
       RxReads
  <2> QED
    BY <2>1 DEF Established, Known, TypeInv, TypeOK, LineTypeOK, SingleUartReader, LinkedUp
<1>2. /\ LineOpen /\ sup' = sup
      /\ LineOpen' => rx' # "none"
      /\ UNCHANGED <<machine, call, op, reply, proxy, session, confirmed, awaiting_status>>
  BY <1>1 DEF RxTask, supVars, callVars, proxyVars, LineOpen, LinkedUp, Switching
<1>3. Lost => Lost'
  BY DEF RxTask, RxStop, RxReject, RxHeartbeat, RxStatus, RxGive, RxData, RxRefuse, RxAck,
     RxBreak, LinkLost, Lost
<1>4. call = "send" /\ status_semaphore => flipper.mode = "away"
  BY <1>1 DEF AnswerInv, AnsweredInv
<1>5. CASE RxStop \/ RxReject
  BY <1>2, <1>3, <1>5, LineSame DEF RxStop, RxReject, RxBreak, lineVars
<1>6. CASE RxHeartbeat \/ RxData
  <2>1. /\ uart_rx # <<>> /\ uart_rx' = Tail(uart_rx) /\ flipper' = flipper
        /\ UNCHANGED <<last_status, status_semaphore>> /\ rx' # "give"
    BY <1>6 DEF RxHeartbeat, RxData, RxReads, RxLoops
  <2>2. /\ HasNone(uart_rx') => HasNone(uart_rx)
        /\ NoneBehind(uart_rx') => NoneBehind(uart_rx)
        /\ HasStatus(uart_rx') => HasStatus(uart_rx)
        /\ TwoStatuses(uart_rx') => TwoStatuses(uart_rx)
    BY <1>1, <2>1, PopFrame
  <2> QED
    BY <1>2, <1>3, <1>4, <2>1, <2>2, LineSettles
<1>7. CASE RxRefuse \/ RxAck
  <2>1. UNCHANGED <<last_status, status_semaphore>> /\ rx' # "give"
    BY <1>7 DEF RxRefuse, RxAck, RxBreak, RxLoops
  <2>2. UNCHANGED lineVars \/ HangsUp \/ TakesAck
    BY <1>7, StatusEffects DEF RxRefuse, RxAck, TransmitFails, Established, Statuses
  <2>3. CASE UNCHANGED lineVars
    BY <1>2, <1>3, <1>4, <2>1, <2>3, LineSame DEF lineVars
  <2>4. CASE HangsUp
    BY <1>1, <1>2, <1>3, <1>4, <2>1, <2>4, HangingUp, LineSettles DEF HangsUp, SameAccount
  <2>5. CASE TakesAck
    BY <1>2, <1>3, <1>4, <2>1, <2>5, LineSettles DEF TakesAck
  <2> QED
    BY <2>2, <2>3, <2>4, <2>5
<1>8. CASE RxStatus /\ ~awaiting_status
  <2>1. rx' = "none" /\ UNCHANGED <<last_status, status_semaphore, flipper>>
    BY <1>8 DEF RxStatus, RxReads, RxBreak
  <2>2. uart_rx # <<>> /\ uart_rx' = Tail(uart_rx)
    BY <1>8 DEF RxStatus, RxReads
  <2>3. /\ HasNone(uart_rx') => HasNone(uart_rx)
        /\ NoneBehind(uart_rx') => NoneBehind(uart_rx)
        /\ HasStatus(uart_rx') => HasStatus(uart_rx)
        /\ TwoStatuses(uart_rx') => TwoStatuses(uart_rx)
    BY <1>1, <2>2, PopFrame
  <2> QED
    BY <1>2, <1>3, <2>1, <2>3, LineSettles
<1>9. CASE RxStatus /\ awaiting_status
  <2>1. /\ uart_rx # <<>> /\ uart_rx' = Tail(uart_rx) /\ flipper' = flipper
        /\ Head(uart_rx).type = "status" /\ last_status' = Head(uart_rx).status
        /\ rx = "read" /\ rx' = "give" /\ UNCHANGED <<events, status_semaphore>>
    BY <1>9 DEF RxStatus, RxReads
  <2>2. last_status' = "None" => Head(uart_rx) = StatusFrame("None")
    BY <1>1, <2>1, FrameKinds, HeadTailProperties
  <2>3. /\ HasNone(uart_rx') => HasNone(uart_rx) /\ NoneBehind(uart_rx)
        /\ NoneBehind(uart_rx') => NoneBehind(uart_rx)
        /\ HasStatus(uart_rx) /\ (HasStatus(uart_rx') => TwoStatuses(uart_rx))
        /\ TwoStatuses(uart_rx') => TwoStatuses(uart_rx)
        /\ last_status' = "None" => HasNone(uart_rx)
    BY <1>1, <2>1, <2>2, PopFrame
  <2>4. Pending' = Pending /\ Answered' = Answered /\ Lost' = Lost /\ Asking' = Asking
    BY <1>2, <2>1 DEF Pending, Answered, Lost, Asking
  <2>5. UnderWayInv' /\ AnsweredInv'
    BY <1>2, <2>1, <2>3, <2>4 DEF AnswerInv, UnderWayInv, AnsweredInv
  <2>6. FreshInv'
    BY <1>2, <2>1, <2>3 DEF AnswerInv, FreshInv, ReadyIsAgreed
  <2>7. NoneInSight' => NoneInSight
    BY <1>2, <2>3 DEF NoneInSight
  <2>8. EarnedInv'
    BY <1>2, <2>1, <2>4, <2>7 DEF AnswerInv, EarnedInv
  <2> QED
    BY <2>5, <2>6, <2>8 DEF AnswerInv
<1>10. CASE RxGive
  <2>1. /\ rx = "give" /\ rx' = (IF Lost THEN "none" ELSE "read") /\ status_semaphore'
        /\ UNCHANGED <<events, last_status, uart_rx, flipper>>
    BY <1>10 DEF RxGive, RxLoops, Lost, lineVars
  <2>2. Pending' = Pending /\ Lost' = Lost /\ Asking' = Asking
    BY <1>2, <2>1 DEF Pending, Lost, Asking
  <2>3. Answered => Answered'
    BY <1>2, <2>1 DEF Answered
  <2>4. UnderWayInv'
    BY <1>2, <2>1, <2>2, <2>3 DEF AnswerInv, UnderWayInv
  <2>5. call = "send" => ~Pending
    BY <1>1 DEF Pending, CallerInv, RequestInv
  <2>6. AnsweredInv'
    BY <1>2, <2>1, <2>2, <2>3, <2>5 DEF AnswerInv, UnderWayInv, AnsweredInv
  <2>7. FreshInv'
    BY <1>2, <2>1 DEF AnswerInv, FreshInv, ReadyIsAgreed
  <2>8. NoneInSight' => NoneInSight
    BY <1>2, <2>1 DEF NoneInSight
  <2>9. EarnedInv'
    BY <1>2, <2>1, <2>2, <2>8 DEF AnswerInv, EarnedInv
  <2> QED
    BY <2>4, <2>6, <2>7, <2>9 DEF AnswerInv
<1> QED
  BY <1>5, <1>6, <1>7, <1>8, <1>9, <1>10 DEF RxTask

\* The heartbeat task, the writer and the Flipper by itself add no STATUS, unless
\* the Flipper hangs up.
LEMMA OthersAnswer ==
    ASSUME Established, AnswerInv,
           HeartbeatTask \/ WriterTask \/ Environment \/ UNCHANGED vars
    PROVE  AnswerInv'
<1>1. uart_rx \in Seq(Frames) /\ flipper \in Flippers
  BY DEF Established, Known, TypeInv, TypeOK, LineTypeOK
<1>2. UNCHANGED <<machine, call, op, reply, proxy, session, confirmed, awaiting_status,
                  last_status, status_semaphore, rx, sup>>
  BY DEF HeartbeatTask, WriterTask, Environment, vars, supVars, linkVars, callVars,
     proxyVars, requestVars
<1>3. (Lost => Lost') /\ LineOpen' = LineOpen
  BY <1>2 DEF HeartbeatTask, HbStop, HbTimeout, HbSend, LinkLost, WriterTask, Environment,
     vars, linkVars, Lost, LineOpen
<1>4. CASE HbSend
  <2>1. UNCHANGED lineVars \/ HangsUp
    BY <1>4, HeartbeatEffects DEF HbSend, TransmitFails, Established
  <2>2. CASE UNCHANGED lineVars
    BY <1>2, <1>3, <2>2, LineSame DEF lineVars
  <2>3. CASE HangsUp
    BY <1>1, <1>2, <1>3, <2>3, HangingUp, LineSettles DEF HangsUp, SameAccount
  <2> QED
    BY <2>1, <2>2, <2>3
<1>5. CASE FlipperHeartbeat
  BY <1>2, <1>3, <1>5, QuietLine, LineSettles DEF FlipperHeartbeat
<1>6. CASE FlipperData
  <2> DEFINE f == DataFrame([session |-> flipper.session, n |-> flipper.sent + 1])
  <2>1. f \in Frames /\ f.type = "data" /\ f # StatusFrame("None")
    <3>1. [session |-> flipper.session, n |-> flipper.sent + 1] \in Items
      BY <1>1, <1>6, BoundsAssumption DEF FlipperData, Flippers, Items
    <3> QED
      BY <3>1, FrameTypes, FrameKinds
  <2>2. /\ uart_rx' = Append(uart_rx, f) /\ flipper'.mode = flipper.mode
        /\ flipper'.session = flipper.session /\ flipper'.received = flipper.received
    BY <1>1, <1>6 DEF FlipperData, Flippers
  <2> HIDE DEF f
  <2>3. /\ HasNone(uart_rx') => HasNone(uart_rx)
        /\ NoneBehind(uart_rx') => NoneBehind(uart_rx)
        /\ HasStatus(uart_rx') => HasStatus(uart_rx)
        /\ TwoStatuses(uart_rx') => TwoStatuses(uart_rx)
    BY <1>1, <2>1, <2>2, PushFrame
  <2> QED
    BY <1>2, <1>3, <2>2, <2>3, LineSettles
<1>7. CASE FlipperLeaves
  <2>1. /\ uart_rx' = uart_rx /\ flipper'.mode = "away"
        /\ flipper'.session = flipper.session /\ flipper'.received = flipper.received
    BY <1>1, <1>7 DEF FlipperLeaves, Gone, Flippers
  <2> QED
    BY <1>2, <1>3, <2>1, LineSettles
<1>8. CASE UNCHANGED lineVars
  BY <1>2, <1>3, <1>8, LineSame DEF lineVars
<1> QED
  BY <1>4, <1>5, <1>6, <1>7, <1>8 DEF HeartbeatTask, HbStop, HbTimeout, WriterTask,
     Environment, vars

\* A request goes out: whatever the Flipper answers, this request is pending now, and
\* a None among the answers is one it has earned.
LEMMA SendAnswer ==
    ASSUME Established, Established', AnswerInv, ClientTask, CallSend, SendWaitStatus
    PROVE  AnswerInv'
<1>1. /\ uart_rx \in Seq(Frames) /\ flipper \in Flippers /\ confirmed \in Nat
      /\ session \in Nat
  BY DEF Established, Known, TypeInv, TypeOK, LineTypeOK, ProxyTypeOK
<1>2. /\ call = "send" /\ reply = "error" /\ awaiting_status /\ Asking /\ Asking'
      /\ call' \in {"wait", "unanswered"}
      /\ UNCHANGED <<machine, op, reply, proxy, session, confirmed, events, rx, sup,
                     awaiting_status, last_status, status_semaphore>>
  BY RequestEffects DEF CallSend, InCall, SendWaitStatus, SameSession, ClientTask, supVars,
     requestVars, Established, CallerInv, RequestInv, Asking
<1>3. /\ ~Pending /\ Pending' /\ Answered' = Answered /\ Lost' = Lost
      /\ LineOpen' = LineOpen /\ (Answered <=> status_semaphore)
  BY <1>2 DEF Pending, Answered, Lost, LineOpen
<1>4. LineOpen /\ status_semaphore => flipper.mode = "away"
  BY <1>2 DEF AnswerInv, AnsweredInv, LineOpen, Established, CallerInv, UpInv, Switching,
     Establishing
<1>5. LineOpen => PinsAttached
  BY DEF LineOpen, PinsAttached, Switching, Established, Known, SingleUartReader
<1>6. LineOpen /\ ~Lost /\ (HasStatus(uart_rx) \/ rx = "give") => flipper.mode = "away"
  BY <1>3 DEF AnswerInv, UnderWayInv
<1>7. /\ op = "start" => machine.state = "StartingRpc" \/ sup = "retry"
      /\ op = "stop" => machine.state = "StoppingRpc" \/ sup = "retry"
      /\ sup = "retry" => machine.state \notin RpcStates \cup {"Ready"}
  BY <1>2 DEF Established, CallerInv, ControlInv, Known, OwnershipInv, MachineInv, RpcStates
<1>8. machine.state = "StoppingRpc" => PinsAttached /\ op = "stop"
  BY <1>2 DEF Established, CallerInv, UpInv, RpcStateInv, LinkedUp, PinsAttached
<1>9. CASE UNCHANGED lineVars
  <2>1. uart_rx' = uart_rx /\ flipper' = flipper
    BY <1>9 DEF lineVars
  <2>2. call' = "wait" /\ machine.state = "StoppingRpc" => flipper.mode # "rpc"
    <3>1. CASE call' = "wait" /\ machine.state = "StoppingRpc" /\ flipper.mode = "rpc"
      BY <1>8, <2>1, <3>1, RequestEffects DEF HangsUp, Declines, CarriesOutStart,
         CarriesOutStop, CarriesOutData, Established
    <3> QED
      BY <3>1
  <2>3. UnderWayInv'
    BY <1>2, <1>3, <2>1 DEF AnswerInv, UnderWayInv
  <2>4. AnsweredInv'
    BY <1>2, <1>3, <2>1 DEF AnswerInv, AnsweredInv
  <2>5. FreshInv'
    BY <1>2, <1>3, <2>1, <2>2 DEF AnswerInv, FreshInv, ReadyIsAgreed
  <2>6. EarnedInv'
    BY <1>2, <1>3, <2>1 DEF AnswerInv, EarnedInv, NoneInSight
  <2> QED
    BY <2>3, <2>4, <2>5, <2>6 DEF AnswerInv
<1>10. CASE HangsUp
  <2>1. /\ flipper'.mode = "away" /\ flipper'.session = flipper.session
        /\ flipper'.received = flipper.received
    BY <1>10 DEF HangsUp, SameAccount
  <2>2. /\ HasNone(uart_rx') => HasNone(uart_rx)
        /\ NoneBehind(uart_rx') => NoneBehind(uart_rx)
    BY <1>1, <1>10, HangingUp
  <2>3. UnderWayInv'
    BY <1>2, <1>3, <2>1, <2>2 DEF AnswerInv, UnderWayInv
  <2>4. AnsweredInv'
    BY <1>2, <1>3, <2>1, <2>2 DEF AnswerInv, AnsweredInv
  <2>5. FreshInv'
    BY <1>2, <1>3, <2>1, <2>2 DEF AnswerInv, FreshInv, ReadyIsAgreed
  <2>6. EarnedInv'
    BY <1>2, <1>3, <2>1, <2>2 DEF AnswerInv, EarnedInv, NoneInSight
  <2> QED
    BY <2>3, <2>4, <2>5, <2>6 DEF AnswerInv
<1>11. CASE Declines \/ CarriesOutStart \/ CarriesOutStop \/ CarriesOutData
  <2>1. PICK s \in {"None", "Unknown"} : uart_rx' = Append(uart_rx, StatusFrame(s))
    BY <1>11 DEF Declines, CarriesOutStart, CarriesOutStop, CarriesOutData
  <2>2. /\ StatusFrame(s) \in Frames /\ StatusFrame(s).type = "status"
        /\ StatusFrame(s) = StatusFrame("None") <=> s = "None"
    BY FrameTypes, FrameKinds DEF Statuses
  <2>3. /\ HasNone(uart_rx') <=> HasNone(uart_rx) \/ s = "None"
        /\ NoneBehind(uart_rx') => NoneBehind(uart_rx) \/ HasStatus(uart_rx)
        /\ TwoStatuses(uart_rx') => TwoStatuses(uart_rx) \/ HasStatus(uart_rx)
    BY <1>1, <2>1, <2>2, PushFrame
  <2>4. flipper.mode # "away" /\ flipper'.mode # "away"
    BY <1>11 DEF Declines, CarriesOutStart, CarriesOutStop, CarriesOutData
  <2>5. UnderWayInv'
    BY <1>2, <1>3, <1>4, <1>6, <2>3, <2>4 DEF AnswerInv, UnderWayInv
  <2>6. AnsweredInv'
    BY <1>2, <1>3, <1>4, <2>3, <2>4 DEF AnswerInv, AnsweredInv
  <2>7. CASE Declines
    <3>1. /\ flipper' = flipper /\ machine.state # "StoppingRpc"
          /\ uart_rx' = Append(uart_rx, StatusFrame("Unknown"))
      BY <1>8, <2>7 DEF Declines
    <3>2. HasNone(uart_rx') => HasNone(uart_rx)
      BY <1>1, <3>1, UnknownIsPushed
    <3>3. FreshInv'
      BY <1>2, <1>3, <3>1, <3>2 DEF AnswerInv, FreshInv, ReadyIsAgreed
    <3>4. EarnedInv'
      BY <1>2, <1>3, <3>1, <3>2 DEF AnswerInv, EarnedInv, NoneInSight
    <3> QED
      BY <2>5, <2>6, <3>3, <3>4 DEF AnswerInv
  <2>8. CASE CarriesOutStart
    <3>1. machine.state \notin {"Ready", "RpcReady", "StoppingRpc"} /\ op = "start"
      BY <1>7, <2>8 DEF CarriesOutStart, RpcStates
    <3>2. FreshInv' /\ EarnedInv'
      BY <1>2, <2>8, <3>1 DEF CarriesOutStart, FreshInv, ReadyIsAgreed, EarnedInv
    <3> QED
      BY <2>5, <2>6, <3>2 DEF AnswerInv
  <2>9. CASE CarriesOutStop
    <3>1. /\ machine.state \notin {"Ready", "RpcReady", "StartingRpc"} /\ op = "stop"
          /\ flipper'.mode = "connected"
      BY <1>7, <2>9 DEF CarriesOutStop, RpcStates
    <3>2. FreshInv' /\ EarnedInv'
      BY <1>2, <3>1 DEF FreshInv, ReadyIsAgreed, EarnedInv
    <3> QED
      BY <2>5, <2>6, <3>2 DEF AnswerInv
  <2>10. CASE CarriesOutData
    <3>1. /\ flipper.mode = "rpc" /\ op = "data" /\ machine.state # "StoppingRpc"
          /\ flipper'.session = flipper.session /\ flipper'.received = flipper.received + 1
          /\ flipper.received \in Nat
      BY <1>1, <1>8, <2>10 DEF CarriesOutData, Flippers
    <3>2. machine.state # "Ready"
      BY <3>1 DEF AnswerInv, FreshInv, ReadyIsAgreed
    <3>3. FreshInv'
      BY <1>2, <3>1, <3>2 DEF FreshInv, ReadyIsAgreed
    <3>4. machine.state = "RpcReady"
            => flipper.session = session /\ confirmed <= flipper.received
      BY DEF AnswerInv, EarnedInv
    <3>5. EarnedInv'
      BY <1>1, <1>2, <3>1, <3>4 DEF EarnedInv
    <3> QED
      BY <2>5, <2>6, <3>3, <3>5 DEF AnswerInv
  <2> QED
    BY <1>11, <2>7, <2>8, <2>9, <2>10
<1> QED
  BY <1>9, <1>10, <1>11, RequestEffects DEF Established

\* Between two calls no request is in progress; a chunk is sent only in a session,
\* with no None left on the line.
LEMMA StartsAnswer ==
    ASSUME Established, AnswerInv, ClientTask, ClientStarts
    PROVE  AnswerInv'
<1>1. /\ call = "idle" /\ reply = "error" /\ ~awaiting_status /\ call' \in {"idle", "apply", "arm"}
      /\ UNCHANGED <<machine, reply, session, rx, sup, awaiting_status, last_status,
                     status_semaphore, uart_rx, flipper>>
  BY DEF ClientTask, ClientStarts, RequestReconnect, BeginRpc, ProxyRun, ProxyStop, EndRpc,
     SendRpc, InCall, supVars, requestVars, lineVars, Established, CallerInv, RequestInv
<1>2. /\ ~Pending /\ ~Pending' /\ ~Answered /\ ~Answered' /\ LineOpen' = LineOpen
      /\ (NoneInSight' <=> LineOpen /\ HasNone(uart_rx)) /\ (Lost => Lost')
  <2>1. Lost => Lost'
    BY DEF ClientStarts, RequestReconnect, BeginRpc, ProxyRun, ProxyStop, EndRpc, SendRpc, Lost
  <2> QED
    BY <1>1, <2>1 DEF Pending, Answered, LineOpen, NoneInSight
<1>3. /\ confirmed' \in {confirmed, 0}
      /\ proxy' \in {"begun", "open"} => proxy \in {"begun", "open"}
      /\ Asking' => op' = "data" /\ proxy = "open"
  BY <1>1 DEF ClientStarts, RequestReconnect, BeginRpc, ProxyRun, ProxyStop, EndRpc, SendRpc,
     InCall, SameSession, ProxyTo, Closes, Asking
<1>4. flipper.received \in Nat
  BY DEF Established, Known, TypeInv, TypeOK, LineTypeOK, Flippers
<1>5. UnderWayInv' /\ AnsweredInv'
  BY <1>1, <1>2 DEF AnswerInv, UnderWayInv, AnsweredInv
<1>6. FreshInv'
  BY <1>1, <1>2, <1>3 DEF AnswerInv, FreshInv, ReadyIsAgreed
<1>7. EarnedInv'
  BY <1>1, <1>2, <1>3, <1>4 DEF AnswerInv, FreshInv, EarnedInv
<1> QED
  BY <1>5, <1>6, <1>7 DEF AnswerInv

\* transport_apply of begin_rpc and end_rpc: the new state finds no None that could
\* be taken for its answer.
LEMMA ApplyAnswer ==
    ASSUME Established, AnswerInv, ClientTask, CallApply
    PROVE  AnswerInv'
<1>1. /\ call = "apply" /\ op \in {"start", "stop"} /\ reply = "error" /\ ~awaiting_status
      /\ UNCHANGED <<events, reply, rx, sup, awaiting_status, last_status,
                     status_semaphore, uart_rx, flipper>>
  BY DEF ClientTask, CallApply, supVars, requestVars, lineVars, Established, CallerInv,
     RequestInv, Known, TypeInv, CallInv
<1>2. machine \in Machine /\ flipper.received \in Nat
  BY DEF Established, Known, TypeInv, TypeOK, LinkTypeOK, LineTypeOK, Flippers
<1>3. /\ call' \in {"arm", "idle"}
      /\ ~Pending /\ ~Pending' /\ ~Answered /\ ~Answered' /\ LineOpen' = LineOpen
      /\ (NoneInSight' <=> LineOpen /\ HasNone(uart_rx)) /\ Lost' = Lost
  <2>1. call' \in {"arm", "idle"}
    BY DEF CallApply, InCall, Returns
  <2> QED
    BY <1>1, <2>1 DEF Pending, Answered, LineOpen, NoneInSight, Lost
<1>4. UnderWayInv' /\ AnsweredInv'
  BY <1>1, <1>3 DEF AnswerInv, UnderWayInv, AnsweredInv
<1>5. CASE call' = "arm"
  <2>1. /\ op' = op
        /\ op = "start" => machine.state = "Ready" /\ machine'.state = "StartingRpc"
        /\ op = "stop" => machine'.state = "StoppingRpc"
    BY <1>1, <1>2, <1>5, ApplyStates DEF CallApply, InCall, Returns, Successor
  <2>2. FreshInv'
    BY <1>1, <1>5, <2>1 DEF FreshInv, ReadyIsAgreed
  <2>3. EarnedInv'
    BY <1>1, <1>3, <2>1 DEF AnswerInv, FreshInv, EarnedInv
  <2> QED
    BY <1>4, <2>2, <2>3 DEF AnswerInv
<1>6. CASE call' = "idle"
  <2>1. /\ machine' = machine /\ session' = session /\ confirmed' = 0
        /\ proxy' = "closed" /\ op' = "none"
    BY <1>1, <1>2, <1>6, ApplyStates DEF CallApply, InCall, Returns, Closes
  <2>2. FreshInv'
    BY <1>1, <1>3, <2>1 DEF AnswerInv, FreshInv, ReadyIsAgreed
  <2>3. EarnedInv'
    BY <1>1, <1>2, <2>1 DEF AnswerInv, EarnedInv
  <2> QED
    BY <1>4, <2>2, <2>3 DEF AnswerInv
<1> QED
  BY <1>3, <1>5, <1>6

\* send_wait_status up to the frame, and from there to its return: the token that is
\* taken was given for this request.
LEMMA WaitAnswer ==
    ASSUME Established, Established', AnswerInv, ClientTask, SendWaitStatus, ~CallSend
    PROVE  AnswerInv'
<1>1. /\ Asking /\ Asking'
      /\ UNCHANGED <<machine, op, proxy, session, confirmed, events, rx, sup, uart_rx,
                     flipper>>
  BY DEF SendWaitStatus, CallArm, CallWait, CallCollect, InCall, SameSession, ClientTask,
     supVars, lineVars, Asking
<1>2. LineOpen' = LineOpen /\ Lost' = Lost
  BY <1>1 DEF LineOpen, Lost
<1>3. RequestInv /\ RequestInv'
  BY DEF Established, CallerInv
<1>4. CASE CallArm
  <2>1. /\ call = "arm" /\ call' = "send" /\ reply = "error" /\ reply' = "error"
        /\ ~awaiting_status /\ ~status_semaphore' /\ last_status' = "Unknown"
    BY <1>3, <1>4 DEF CallArm, InCall, ForgetAnswer, RequestInv
  <2>2. /\ ~Pending /\ ~Pending' /\ ~Answered'
        /\ NoneInSight' => NoneInSight
    BY <1>1, <1>2, <2>1 DEF Pending, Answered, NoneInSight
  <2>3. UnderWayInv' /\ AnsweredInv'
    BY <1>1, <1>2, <2>1, <2>2 DEF AnswerInv, UnderWayInv, AnsweredInv
  <2>4. FreshInv'
    BY <1>1, <1>2, <2>1 DEF AnswerInv, FreshInv, ReadyIsAgreed
  <2>5. EarnedInv'
    BY <1>1, <2>2 DEF AnswerInv, EarnedInv
  <2> QED
    BY <2>3, <2>4, <2>5 DEF AnswerInv
<1>5. CASE CallWait
  <2>1. /\ call = "wait" /\ reply = "error" /\ reply' = "error" /\ awaiting_status
        /\ awaiting_status' /\ last_status' = last_status /\ ~status_semaphore'
        /\ call' = IF status_semaphore THEN "answered" ELSE "unanswered"
    BY <1>3, <1>5 DEF CallWait, InCall, RequestInv
  <2>2. /\ Pending /\ Answered' = Answered /\ (Pending' <=> ~Answered)
        /\ NoneInSight' = NoneInSight
    BY <1>1, <1>2, <2>1 DEF Pending, Answered, NoneInSight
  <2>3. UnderWayInv'
    BY <1>1, <1>2, <2>2 DEF AnswerInv, UnderWayInv, AnsweredInv
  <2>4. AnsweredInv'
    BY <1>1, <1>2, <2>1, <2>2 DEF AnswerInv, AnsweredInv
  <2>5. FreshInv'
    BY <1>1, <1>2, <2>1 DEF AnswerInv, FreshInv, ReadyIsAgreed
  <2>6. EarnedInv'
    BY <1>1, <2>2 DEF AnswerInv, EarnedInv
  <2> QED
    BY <2>3, <2>4, <2>5, <2>6 DEF AnswerInv
<1>6. CASE CallCollect
  <2>1. /\ call \in {"answered", "unanswered"} /\ reply = "error" /\ awaiting_status
        /\ ~awaiting_status' /\ last_status' = last_status /\ call' = "conclude"
        /\ UNCHANGED status_semaphore
        /\ reply' = IF call = "answered" THEN last_status ELSE "error"
        /\ last_status # "error"
    BY <1>3, <1>6 DEF CallCollect, InCall, RequestInv, Answer, Established, Known, TypeInv,
       TypeOK, RequestTypeOK, Statuses
  <2>2. /\ Pending => Pending'
        /\ Answered' => Answered /\ call = "answered"
        /\ NoneInSight' => NoneInSight
    BY <1>1, <1>2, <2>1 DEF Pending, Answered, NoneInSight
  <2>3. UnderWayInv'
    BY <1>1, <1>2, <2>2 DEF AnswerInv, UnderWayInv, AnsweredInv
  <2>4. AnsweredInv'
    BY <1>1, <1>2, <2>1, <2>2 DEF AnswerInv, AnsweredInv
  <2>5. FreshInv'
    BY <1>1, <1>2, <2>1 DEF AnswerInv, FreshInv, ReadyIsAgreed
  <2>6. EarnedInv'
    BY <1>1, <2>2 DEF AnswerInv, EarnedInv
  <2> QED
    BY <2>3, <2>4, <2>5, <2>6 DEF AnswerInv
<1> QED
  BY <1>4, <1>5, <1>6 DEF SendWaitStatus

\* begin_rpc, send_rpc and end_rpc judge what came back; a failure is signalled before
\* anything else can begin.
LEMMA ConcludeAnswer ==
    ASSUME Established, AnswerInv, ClientTask, CallConclude
    PROVE  AnswerInv'
<1>1. /\ call = "conclude" /\ Asking /\ ~awaiting_status /\ reply' = "error"
      /\ UNCHANGED <<session, rx, sup, awaiting_status, last_status, status_semaphore,
                     uart_rx, flipper>>
  BY DEF ClientTask, CallConclude, supVars, requestVars, lineVars, Asking, Established,
     CallerInv, RequestInv
<1>2. /\ machine \in Machine /\ confirmed \in Nat /\ flipper.received \in Nat
      /\ op = "start" => proxy = "closed" /\ confirmed = 0
  BY <1>1 DEF Established, Known, TypeInv, TypeOK, LinkTypeOK, LineTypeOK, ProxyTypeOK,
     Flippers, PlaceInv, CallerInv, WriterInv
<1>3. call' \in {"idle", "reset", "arm"}
  BY DEF CallConclude, ConcludeStart, ConcludeStop, ConcludeData, CallFails, Returns, InCall
<1>4. /\ ~Pending' /\ ~Answered' /\ LineOpen' = LineOpen
      /\ (NoneInSight' <=> LineOpen /\ HasNone(uart_rx))
  BY <1>1, <1>3 DEF Pending, Answered, LineOpen, NoneInSight
<1>5. AnsweredInv'
  BY <1>3, <1>4, <1>1 DEF AnsweredInv
<1>6. CASE CallFails
  <2>1. /\ Lost' /\ call' = "idle" /\ op' = "none" /\ machine' = machine
        /\ proxy' \in {"closing", "closed"} /\ confirmed' \in {confirmed, 0}
    BY <1>6 DEF CallFails, LinkLost, Lost, Returns, ProxyTo, Closes
  <2>2. UnderWayInv' /\ FreshInv'
    BY <1>1, <1>4, <2>1 DEF AnswerInv, UnderWayInv, FreshInv, ReadyIsAgreed
  <2>3. EarnedInv'
    BY <1>1, <1>2, <2>1 DEF AnswerInv, EarnedInv, Asking
  <2> QED
    BY <1>5, <2>2, <2>3 DEF AnswerInv
<1>7. CASE reply = "None" /\ events' = events
  <2>1. /\ Answered /\ ~Pending /\ NoneInSight /\ (LineOpen => ~HasNone(uart_rx))
        /\ Lost' = Lost
    BY <1>1, <1>7 DEF Answered, Pending, NoneInSight, AnswerInv, AnsweredInv, Lost
  <2>2. UnderWayInv'
    BY <1>1, <1>4, <2>1 DEF AnswerInv, UnderWayInv
  <2>3. CASE ConcludeStart /\ ~CallFails
    <3>1. /\ op = "start" /\ machine.state = "StartingRpc" /\ machine'.state = "RpcReady"
          /\ call' = "idle" /\ confirmed' = 0
      BY <1>2, <2>3, ApplyStates DEF ConcludeStart, Succeeds, Returns, ProxyTo, Successor
    <3>2. FreshInv'
      BY <1>1, <1>4, <2>1, <3>1 DEF FreshInv, ReadyIsAgreed
    <3>3. EarnedInv'
      BY <1>1, <1>2, <2>1, <3>1 DEF AnswerInv, EarnedInv, Asking
    <3> QED
      BY <1>5, <2>2, <3>2, <3>3 DEF AnswerInv
  <2>4. CASE ConcludeStop /\ ~CallFails
    <3>1. /\ op = "stop" /\ machine.state = "StoppingRpc" /\ machine'.state = "Ready"
          /\ call' = "reset"
      BY <1>2, <2>4, ApplyStates DEF ConcludeStop, Succeeds, InCall, Successor
    <3>2. FreshInv'
      BY <1>1, <1>4, <1>7, <2>1, <3>1 DEF AnswerInv, FreshInv, ReadyIsAgreed
    <3>3. EarnedInv'
      BY <3>1 DEF EarnedInv
    <3> QED
      BY <1>5, <2>2, <3>2, <3>3 DEF AnswerInv
  <2>5. CASE ConcludeData /\ ~CallFails
    <3>1. /\ op = "data" /\ machine' = machine /\ confirmed' = confirmed + 1
          /\ call' \in {"idle", "arm"} /\ (op' = "data" \/ op' = "none")
      BY <2>5 DEF ConcludeData, Returns
    <3>2. FreshInv'
      BY <1>1, <1>4, <2>1, <3>1 DEF AnswerInv, FreshInv, ReadyIsAgreed
    <3>3. EarnedInv'
      BY <1>1, <1>2, <1>4, <2>1, <3>1 DEF AnswerInv, EarnedInv, Asking
    <3> QED
      BY <1>5, <2>2, <3>2, <3>3 DEF AnswerInv
  <2> QED
    BY <1>6, <2>3, <2>4, <2>5 DEF CallConclude
<1> QED
  BY <1>6, <1>7 DEF CallConclude, ConcludeStart, ConcludeStop, ConcludeData, Succeeds

\* end_rpc resets the buffer and returns.
LEMMA ResetAnswer ==
    ASSUME Established, AnswerInv, ClientTask, CallReset
    PROVE  AnswerInv'
<1>1. /\ call = "reset" /\ reply = "error" /\ ~awaiting_status /\ call' = "idle"
      /\ op' = "none" /\ proxy' = "closed" /\ confirmed' = 0
      /\ UNCHANGED <<machine, events, reply, session, rx, sup, awaiting_status,
                     last_status, status_semaphore, uart_rx, flipper>>
  BY DEF ClientTask, CallReset, Returns, Closes, supVars, requestVars, lineVars,
     Established, CallerInv, RequestInv
<1>2. flipper.received \in Nat
  BY DEF Established, Known, TypeInv, TypeOK, LineTypeOK, Flippers
<1>3. ~Pending /\ ~Pending' /\ ~Answered' /\ LineOpen' = LineOpen /\ Lost' = Lost
  BY <1>1 DEF Pending, Answered, LineOpen, Lost
<1> QED
  BY <1>1, <1>2, <1>3 DEF AnswerInv, UnderWayInv, AnsweredInv, FreshInv, ReadyIsAgreed,
     EarnedInv, Asking

\* In every reachable state the bridge takes no STATUS for the answer to a request it
\* does not answer.
THEOREM AnswersAreKept == Spec => []AnswerInv
<1>1. Init => AnswerInv
  BY DEF Init, AnswerInv, UnderWayInv, AnsweredInv, FreshInv, ReadyIsAgreed, EarnedInv,
     LineOpen, Switching, InitialMachine, Answered, Absent
<1>2. Established /\ Established' /\ AnswerInv /\ [Next]_vars => AnswerInv'
  <2> SUFFICES ASSUME Established, Established', AnswerInv, [Next]_vars PROVE AnswerInv'
    OBVIOUS
  <2>1. CASE ClientTask
    BY <2>1, StartsAnswer, ApplyAnswer, SendAnswer, WaitAnswer, ConcludeAnswer, ResetAnswer
       DEF ClientTask, ClientContinues
  <2> QED
    BY <2>1, SupervisorAnswer, RxAnswer, OthersAnswer DEF Next
<1>3. Spec => []Established
  BY KnownIsKept, CallerIsKept, NegotiationIsKept, PTL DEF Established
<1> QED
  BY <1>1, <1>2, <1>3, PTL DEF Spec

\* A link that is offered as Ready is never still in a session on the Flipper's side.
THEOREM ReadyAgrees == Spec => []ReadyIsAgreed
<1>1. AnswerInv => ReadyIsAgreed
  BY DEF AnswerInv, FreshInv
<1> QED
  BY <1>1, AnswersAreKept, PTL

\* While begin_rpc's success stands, the Flipper did open this very session.
THEOREM SessionsAgree == Spec => []RpcReadyIsAgreed
<1>1. AnswerInv => RpcReadyIsAgreed
  BY DEF AnswerInv, EarnedInv, RpcReadyIsAgreed
<1> QED
  BY <1>1, AnswersAreKept, PTL

\* Every chunk send_rpc reported as sent was received by the Flipper in this session.
THEOREM ConfirmationsHold == Spec => []ConfirmedMeansReceived
<1>1. AnswerInv => ConfirmedMeansReceived
  BY DEF AnswerInv, EarnedInv, ConfirmedMeansReceived
<1> QED
  BY <1>1, AnswersAreKept, PTL
=============================================================================
