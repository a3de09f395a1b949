----------------------------- MODULE LinkTiming -----------------------------
(***************************************************************************)
(* The clocks of an established Expansion link (expansion_transport.c).    *)
(*                                                                         *)
(* The Flipper drops a module that is silent for longer than its timeout.  *)
(* expansion_heartbeat_task keeps the link alive, but it looks only every  *)
(* Interval, sends nothing while a request waits for its status, and acts  *)
(* on values it read before it sends.  The same task gives the link up     *)
(* when nothing was received for longer than the timeout.                  *)
(*                                                                         *)
(* Clocks are ages, all advanced by Tick.  A task that is ready runs       *)
(* within Latency; writing a frame to the UART takes no time of its own.   *)
(***************************************************************************)
EXTENDS Naturals

CONSTANTS
  Timeout,    \* BRIDGE_EXPANSION_TIMEOUT_MS, and the Flipper's own timeout
  AckTimeout, \* BRIDGE_EXPANSION_ACK_TIMEOUT_MS
  Heartbeat,  \* BRIDGE_EXPANSION_HEARTBEAT_MS
  Interval,   \* BRIDGE_EXPANSION_HEARTBEAT_MS / 4, the task's sleep
  Latency,    \* the longest a ready task waits for the processor
  AnswerTime  \* the time in which a healthy Flipper answers a frame

\* The first two bounds are what 250 ms, 200 ms, 100 ms and 25 ms leave room
\* for: a latency of 5 ms.  The last is the Flipper's share.
ASSUME TimingAssumption ==
  /\ Timeout \in Nat /\ AckTimeout \in Nat /\ Heartbeat \in Nat
  /\ Interval \in Nat \ {0} /\ Latency \in Nat /\ AnswerTime \in Nat
  /\ Heartbeat + Interval + 3 * Latency <= Timeout
  /\ AckTimeout + Interval + 5 * Latency <= Timeout
  /\ AnswerTime + Heartbeat + Interval + 3 * Latency <= Timeout
  /\ AnswerTime + AnswerTime + Interval + 5 * Latency <= Timeout

VARIABLES
  link,      \* "up", or why it was lost: "heartbeat_timeout" or "other"
  rxAge,     \* time since last_rx_us
  txAge,     \* time since last_tx_us
  hb,        \* the heartbeat task: "sleep" or "send"
  hbAge,     \* time it has been there
  request,   \* send_wait_status: "none", "begun", "waiting" or "answered"
  reqAge,    \* time it has been there
  current,   \* the waiting request was sent on this link
  echo,      \* a heartbeat the Flipper has not answered
  echoAge,   \* time since the oldest such heartbeat, as far as it matters
  late       \* history: the Flipper left a frame of this link unanswered too long

timingVars == <<link, rxAge, txAge, hb, hbAge, request, reqAge, current, echo,
                echoAge, late>>

\* awaiting_status
Awaiting == request # "none"

TimingInit ==
  /\ link = "up" /\ rxAge = 0 /\ txAge = 0
  /\ hb = "sleep" /\ hbAge = Interval
  /\ request = "none" /\ reqAge = 0 /\ current = FALSE
  /\ echo = FALSE /\ echoAge = 0 /\ late = FALSE

\* Time passes, unless a task that is ready has waited for Latency.
Tick ==
  /\ link = "up" => hbAge < (IF hb = "sleep" THEN Interval ELSE 0) + Latency
  /\ Awaiting => reqAge < (IF request = "waiting" THEN AckTimeout ELSE 0) + Latency
  /\ rxAge'   = IF link = "up" THEN rxAge + 1 ELSE 0
  /\ txAge'   = IF link = "up" THEN txAge + 1 ELSE 0
  /\ hbAge'   = IF link = "up" THEN hbAge + 1 ELSE 0
  /\ reqAge'  = IF Awaiting THEN reqAge + 1 ELSE 0
  /\ echoAge' = IF echo /\ echoAge <= AnswerTime THEN echoAge + 1 ELSE echoAge
  /\ late' = (\/ late
              \/ echo /\ echoAge' > AnswerTime
              \/ request = "waiting" /\ current /\ reqAge' > AnswerTime)
  /\ UNCHANGED <<link, hb, request, current, echo>>

\* signal_link_lost, for the heartbeat task to end and the link to be given up.
Lose(why) ==
  /\ link' = why
  /\ hb' = "sleep" /\ hbAge' = 0
  /\ echo' = FALSE /\ echoAge' = 0 /\ current' = FALSE
  /\ rxAge' = 0 /\ txAge' = 0

\* establish_expansion and the start of the tasks.  The detection pulse and
\* the dead time are longer than Latency: of the requests of the lost link
\* only one that waits for its status may still be there.
Establish ==
  /\ link # "up"
  /\ request \in {"none", "waiting"}
  /\ link' = "up" /\ rxAge' = 0 /\ txAge' = 0
  /\ hb' = "sleep" /\ hbAge' = Interval
  /\ late' = FALSE
  /\ UNCHANGED <<request, reqAge, current, echo, echoAge>>

-----------------------------------------------------------------------------
(* The heartbeat task. *)

\* Mutant: the reception is compared with the heartbeat's period.
SilentForAPeriod == rxAge > Heartbeat

\* Mutant: no reception is missed while a request is pending.
SilentUnlessAwaiting == rxAge > Timeout /\ ~Awaiting

\* The Flipper was silent for too long.
Silent == rxAge > Timeout

\* Mutant: a heartbeat is due only after the timeout.
DueAtTimeout == txAge >= Timeout

HeartbeatDue == txAge >= Heartbeat

\* One look at the clocks: give up, send a heartbeat, or sleep again.
Look ==
  /\ link = "up" /\ hb = "sleep" /\ hbAge >= Interval
  /\ \/ /\ Silent
        /\ Lose("heartbeat_timeout")
        /\ UNCHANGED <<request, reqAge, late>>
     \/ /\ ~Silent
        /\ hb' = IF HeartbeatDue /\ ~Awaiting THEN "send" ELSE "sleep"
        /\ hbAge' = 0
        /\ UNCHANGED <<link, rxAge, txAge, request, reqAge, current, echo, echoAge, late>>

\* The frame is sent, whatever happened since the look.
SendHeartbeat ==
  /\ link = "up" /\ hb = "send"
  /\ hb' = "sleep" /\ hbAge' = 0
  /\ txAge' = 0
  /\ echo' = TRUE
  /\ UNCHANGED <<link, rxAge, request, reqAge, current, echoAge, late>>

SendHeartbeatFails ==
  /\ link = "up" /\ hb = "send"
  /\ Lose("other")
  /\ UNCHANGED <<request, reqAge, late>>

-----------------------------------------------------------------------------
(* A request: START RPC, STOP RPC or DATA. *)

BeginRequest ==
  /\ link = "up" /\ request = "none"
  /\ request' = "begun" /\ reqAge' = 0
  /\ UNCHANGED <<link, rxAge, txAge, hb, hbAge, current, echo, echoAge, late>>

\* send_frame; on a link that is lost the frame reaches nobody.
SendRequest ==
  /\ request = "begun"
  /\ request' = "waiting" /\ reqAge' = 0
  /\ current' = (link = "up")
  /\ txAge' = 0
  /\ UNCHANGED <<link, rxAge, hb, hbAge, echo, echoAge, late>>

\* The semaphore is taken, or the wait is over: the call fails and, on
\* whatever link there is now, signals its loss.
RequestReturns ==
  /\ request = "answered"
  /\ request' = "none" /\ reqAge' = 0
  /\ UNCHANGED <<link, rxAge, txAge, hb, hbAge, current, echo, echoAge, late>>

RequestTimesOut ==
  /\ request = "waiting" /\ reqAge >= AckTimeout
  /\ request' = "none" /\ reqAge' = 0
  /\ IF link = "up" THEN Lose("other")
     ELSE UNCHANGED <<link, rxAge, txAge, hb, hbAge, current, echo, echoAge>>
  /\ UNCHANGED late

SendRequestFails ==
  /\ request = "begun"
  /\ request' = "none" /\ reqAge' = 0
  /\ IF link = "up" THEN Lose("other")
     ELSE UNCHANGED <<link, rxAge, txAge, hb, hbAge, current, echo, echoAge>>
  /\ UNCHANGED late

-----------------------------------------------------------------------------
(* What expansion_rx_task receives. *)

ReceiveEcho ==
  /\ link = "up" /\ echo
  /\ rxAge' = 0
  /\ echo' = FALSE /\ echoAge' = 0
  /\ UNCHANGED <<link, txAge, hb, hbAge, request, reqAge, current, late>>

ReceiveStatus ==
  /\ link = "up" /\ request = "waiting" /\ current
  /\ rxAge' = 0
  /\ request' = "answered" /\ reqAge' = 0 /\ current' = FALSE
  /\ UNCHANGED <<link, txAge, hb, hbAge, echo, echoAge, late>>

\* A DATA frame, confirmed with a STATUS frame.
ReceiveData ==
  /\ link = "up"
  /\ rxAge' = 0 /\ txAge' = 0
  /\ UNCHANGED <<link, hb, hbAge, request, reqAge, current, echo, echoAge, late>>

\* A frame that cannot be decoded, or one that is not expected.
ReceiveFails ==
  /\ link = "up"
  /\ Lose("other")
  /\ UNCHANGED <<request, reqAge, late>>

TimingNext ==
  \/ Tick \/ Establish
  \/ Look \/ SendHeartbeat \/ SendHeartbeatFails
  \/ BeginRequest \/ SendRequest \/ RequestReturns \/ RequestTimesOut \/ SendRequestFails
  \/ ReceiveEcho \/ ReceiveStatus \/ ReceiveData \/ ReceiveFails

TimingSpec == TimingInit /\ [][TimingNext]_timingVars

-----------------------------------------------------------------------------
(* Properties *)

\* The bridge is never silent for longer than the Flipper's timeout, even when
\* a request that took its whole AckTimeout held back the heartbeats (README:
\* "maintains the link with heartbeats below the official 250 ms timeout").
SilenceIsShort == link = "up" => txAge <= Timeout

\* The heartbeat task gives a link up only when the Flipper is at fault: as
\* long as every frame is answered within AnswerTime, no combination of
\* suppressed heartbeats and late looks at the clock makes it time out.
OnlyLateLinksTimeOut == link = "heartbeat_timeout" => late

\* A Flipper that is gone is noticed: no link outlives the last frame it
\* received by more than the timeout and one period of the task.
LossIsNoticed == link = "up" => rxAge <= Timeout + Interval + 2 * Latency

=============================================================================
