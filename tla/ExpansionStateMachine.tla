------------------------ MODULE ExpansionStateMachine ------------------------
(***************************************************************************)
(* The Expansion connection state machine of                               *)
(* main/expansion_state_machine.c, as operators on a machine value: the    *)
(* code's functions only read and write the struct they are given, and     *)
(* transport_apply calls them under the transport's state mutex.           *)
(***************************************************************************)
EXTENDS Naturals

CONSTANT MaxRetries      \* BRIDGE_EXPANSION_MAX_RETRIES

ASSUME MaxRetriesAssumption == MaxRetries \in Nat \ {0}

States == {"Disconnected", "InitialUart", "NegotiatingBaud", "Ready",
           "StartingRpc", "RpcReady", "StoppingRpc", "Backoff"}

Events == {"Start", "HeartbeatReceived", "BaudAccepted", "BaudRejected",
           "BeginRpc", "RpcStarted", "EndRpc", "RpcStopped", "Timeout",
           "FrameError", "BackoffElapsed"}

Machine == [state : States, reconnect_attempts : 0..MaxRetries]

\* expansion_state_machine_init
InitialMachine == [state |-> "Disconnected", reconnect_attempts |-> 0]

\* fail_connection: the answer to Timeout and FrameError in every state.
FailConnection(m) ==
    IF m.reconnect_attempts >= MaxRetries
      THEN [m EXCEPT !.state = "Disconnected"]
      ELSE [state |-> "Backoff",
            reconnect_attempts |-> m.reconnect_attempts + 1]

\* The state each accepted pair of state and event leads to.
Successor(s, e) ==
    CASE s = "Disconnected"    /\ e = "Start"             -> "InitialUart"
      [] s = "InitialUart"     /\ e = "HeartbeatReceived" -> "NegotiatingBaud"
      [] s = "NegotiatingBaud" /\ e = "BaudRejected"      -> "NegotiatingBaud"
      [] s = "NegotiatingBaud" /\ e = "BaudAccepted"      -> "Ready"
      [] s = "Ready"           /\ e = "BeginRpc"          -> "StartingRpc"
      [] s = "StartingRpc"     /\ e = "RpcStarted"        -> "RpcReady"
      [] s = "RpcReady"        /\ e = "EndRpc"            -> "StoppingRpc"
      [] s = "StoppingRpc"     /\ e = "RpcStopped"        -> "Ready"
      [] s = "Backoff"         /\ e = "BackoffElapsed"    -> "InitialUart"
      [] OTHER                                            -> "rejected"

\* Mutant: RpcStarted is not tied to StartingRpc.
AcceptsStartedAnywhere(m, e) ==
    e \in {"Timeout", "FrameError", "RpcStarted"} \/ Successor(m.state, e) # "rejected"

\* Whether expansion_state_machine_apply returns true.
Accepts(m, e) ==
    e \in {"Timeout", "FrameError"} \/ Successor(m.state, e) # "rejected"

\* The machine expansion_state_machine_apply leaves behind; a rejected event
\* changes nothing.
Apply(m, e) ==
    IF e \in {"Timeout", "FrameError"} THEN FailConnection(m)
    ELSE IF ~Accepts(m, e) THEN m
    ELSE [state |-> Successor(m.state, e),
          reconnect_attempts |->
              IF e = "BaudAccepted" THEN 0 ELSE m.reconnect_attempts]
=============================================================================
