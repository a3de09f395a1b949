-------------------------- MODULE LinkTimingProofs --------------------------
(***************************************************************************)
(* The timing of the link, for every choice of the times TimingAssumption  *)
(* admits: 250, 200, 100 and 25 ms among them.                             *)
(***************************************************************************)
EXTENDS LinkTiming, TLAPS

TimingTyped ==
  /\ link \in {"up", "heartbeat_timeout", "other"}
  /\ rxAge \in Nat /\ txAge \in Nat /\ hbAge \in Nat /\ reqAge \in Nat /\ echoAge \in Nat
  /\ hb \in {"sleep", "send"}
  /\ request \in {"none", "begun", "waiting", "answered"}
  /\ current \in BOOLEAN /\ echo \in BOOLEAN /\ late \in BOOLEAN

\* Nothing ready waits for longer than Latency.
ScheduleInv ==
  /\ link = "up" => hbAge <= (IF hb = "sleep" THEN Interval ELSE 0) + Latency
  /\ request = "waiting" => reqAge <= AckTimeout + Latency
  /\ request \in {"begun", "answered"} => reqAge <= Latency
  /\ current => request = "waiting" /\ link = "up"
  /\ ~echo => echoAge = 0

\* Time since the heartbeat task last looked, or an upper bound of it.
SinceLook == IF hb = "sleep" THEN hbAge ELSE Interval + Latency + hbAge

\* The silence q at the end of a suppression of the heartbeats is the most the
\* task can have seen at its last look, except for a silence below Heartbeat.
SilenceUpTo(q) ==
  /\ request = "none" =>
       txAge <= Heartbeat + SinceLook \/ txAge <= q + SinceLook
  /\ request = "begun" =>
       \/ txAge <= Heartbeat + Interval + 2 * Latency + reqAge
       \/ txAge <= q + Interval + 2 * Latency + reqAge

\* How long the bridge has been silent, whatever the Flipper does.
SilenceInv ==
  link = "up" =>
    /\ SilenceUpTo(AckTimeout + 2 * Latency)
    /\ request = "waiting" => txAge <= reqAge
    /\ request = "answered" => txAge <= AckTimeout + Latency + reqAge

\* The same when the Flipper answers in time; a request of an earlier link
\* then holds the heartbeats back until it ends this link too.
PromptInv ==
  link = "up" /\ ~late =>
    /\ SilenceUpTo(AnswerTime + Latency)
    /\ request = "answered" => txAge <= AnswerTime + reqAge
    /\ current => reqAge <= AnswerTime
    /\ echo => echoAge <= AnswerTime
    /\ request = "waiting" /\ ~current => hb = "sleep"

\* The largest silence that a frame may end, seen from the last reception.
Ended(age) ==
  \/ rxAge <= age + Heartbeat + Interval + 3 * Latency
  \/ rxAge <= age + AnswerTime + Interval + 4 * Latency

\* What was received is not older than the last frame, or than the oldest
\* frame the Flipper has still to answer by more than such a silence.
ReceptionInv ==
  link = "up" /\ ~late =>
    \/ ~echo /\ ~current /\ rxAge <= txAge
    \/ echo /\ Ended(echoAge)
    \/ current /\ Ended(reqAge)

NoticeInv ==
  link = "up" => rxAge <= Timeout + hbAge + (IF hb = "sleep" THEN Latency ELSE 0)

LostInv == link # "up" => ~echo

TimingInv ==
  /\ TimingTyped /\ ScheduleInv /\ SilenceInv /\ PromptInv /\ ReceptionInv /\ NoticeInv
  /\ LostInv
  /\ OnlyLateLinksTimeOut

-----------------------------------------------------------------------------

\* The invariant holds at first.
LEMMA TimingInitial == TimingInit => TimingInv
<1> SUFFICES ASSUME TimingInit PROVE TimingInv
  OBVIOUS
<1>1. /\ current \in BOOLEAN /\ echo \in BOOLEAN /\ late \in BOOLEAN
      /\ ~current /\ ~echo
  BY Zenon DEF TimingInit
<1>2. /\ link = "up" /\ rxAge = 0 /\ txAge = 0 /\ hb = "sleep" /\ hbAge = Interval
      /\ request = "none" /\ reqAge = 0 /\ echoAge = 0
  BY Zenon DEF TimingInit
<1>3. QED
  BY <1>1, <1>2, TimingAssumption
     DEF TimingInv, TimingTyped, ScheduleInv, SilenceInv, SilenceUpTo, SinceLook, PromptInv,
         ReceptionInv, NoticeInv, OnlyLateLinksTimeOut, LostInv

\* With a Flipper that answers in time the heartbeat task never finds the
\* link silent.
LEMMA PromptIsNotSilent == TimingInv /\ link = "up" /\ ~late => ~Silent
BY TimingAssumption
   DEF TimingInv, TimingTyped, ScheduleInv, SilenceInv, SilenceUpTo, SinceLook, PromptInv,
       ReceptionInv, Ended, Silent

\* A lost link owes nothing to the invariant.
LEMMA LosingKeeps ==
  ASSUME TimingInv, NEW why \in {"heartbeat_timeout", "other"}, Lose(why),
         late' = late, why = "heartbeat_timeout" => late,
         (request' = request /\ reqAge' = reqAge) \/ (request' = "none" /\ reqAge' = 0)
  PROVE  TimingInv'
<1>1. /\ link' = why /\ link' # "up" /\ hb' = "sleep"
      /\ hbAge' = 0 /\ rxAge' = 0 /\ txAge' = 0 /\ echoAge' = 0
  BY DEF Lose
<1>2. echo' \in BOOLEAN /\ ~echo' /\ current' \in BOOLEAN /\ ~current'
  BY Zenon DEF Lose
<1>3. TimingTyped' /\ ScheduleInv'
  BY <1>1, <1>2, TimingAssumption DEF TimingInv, TimingTyped, ScheduleInv
<1>4. SilenceInv' /\ PromptInv' /\ ReceptionInv' /\ NoticeInv'
  BY <1>1 DEF SilenceInv, PromptInv, ReceptionInv, NoticeInv
<1>5. OnlyLateLinksTimeOut' /\ LostInv'
  BY <1>1, <1>2 DEF OnlyLateLinksTimeOut, LostInv
<1>6. QED
  BY <1>3, <1>4, <1>5 DEF TimingInv

\* Every tick and every step of a task keeps it.
LEMMA TimingStep == TimingInv /\ [TimingNext]_timingVars => TimingInv'
<1> SUFFICES ASSUME TimingInv, [TimingNext]_timingVars PROVE TimingInv'
  OBVIOUS
<1> USE TimingAssumption
<1>1. CASE Tick
  <2>1. TimingTyped' /\ ScheduleInv'
    BY <1>1 DEF Tick, Awaiting, TimingInv, TimingTyped, ScheduleInv
  <2>2. SilenceInv'
    BY <1>1 DEF Tick, Awaiting, TimingInv, TimingTyped, ScheduleInv, SilenceInv,
                SilenceUpTo, SinceLook
  <2>3. PromptInv'
    BY <1>1 DEF Tick, Awaiting, TimingInv, TimingTyped, ScheduleInv, PromptInv,
                SilenceUpTo, SinceLook
  <2>4. ReceptionInv'
    BY <1>1 DEF Tick, Awaiting, TimingInv, TimingTyped, ScheduleInv, PromptInv,
                ReceptionInv, Ended
  <2>5. NoticeInv' /\ OnlyLateLinksTimeOut' /\ LostInv'
    BY <1>1 DEF Tick, TimingInv, TimingTyped, NoticeInv, OnlyLateLinksTimeOut, LostInv
  <2>6. QED
    BY <2>1, <2>2, <2>3, <2>4, <2>5 DEF TimingInv
<1>2. CASE Establish
  <2>1. /\ link # "up" /\ request \in {"none", "waiting"}
        /\ link' = "up" /\ rxAge' = 0 /\ txAge' = 0
        /\ hb' = "sleep" /\ hbAge' = Interval
        /\ request' = request /\ reqAge' = reqAge
        /\ current' = current /\ echo' = echo /\ echoAge' = echoAge
    BY <1>2 DEF Establish
  <2>2. late' \in BOOLEAN
    BY <1>2, Zenon DEF Establish
  <2>3. ~echo
    BY <2>1 DEF TimingInv, LostInv
  <2>4. QED
    BY <2>1, <2>2, <2>3
       DEF TimingInv, TimingTyped, ScheduleInv, SilenceInv, SilenceUpTo, SinceLook,
           PromptInv, ReceptionInv, NoticeInv, OnlyLateLinksTimeOut, LostInv
<1>3. CASE Look
  <2>1. CASE Silent
    <3>1. Lose("heartbeat_timeout") /\ request' = request /\ reqAge' = reqAge /\ late' = late
      BY <1>3, <2>1 DEF Look
    <3>2. late
      BY <1>3, <2>1, PromptIsNotSilent DEF Look
    <3>3. /\ "heartbeat_timeout" \in {"heartbeat_timeout", "other"}
          /\ "heartbeat_timeout" = "heartbeat_timeout" => late
          /\ (request' = request /\ reqAge' = reqAge) \/ (request' = "none" /\ reqAge' = 0)
      BY <3>1, <3>2
    <3>4. QED
      BY <3>1, <3>3, LosingKeeps, Zenon
  <2>2. CASE ~Silent
    BY <1>3, <2>2 DEF Look, Silent, HeartbeatDue, Awaiting, TimingInv, TimingTyped,
                      ScheduleInv, SilenceInv, SilenceUpTo, SinceLook, PromptInv,
                      ReceptionInv, Ended, NoticeInv, OnlyLateLinksTimeOut, LostInv
  <2>3. QED
    BY <2>1, <2>2
<1>4. CASE SendHeartbeat
  BY <1>4 DEF SendHeartbeat, TimingInv, TimingTyped, ScheduleInv, SilenceInv, SilenceUpTo,
              SinceLook, PromptInv, ReceptionInv, Ended, NoticeInv, OnlyLateLinksTimeOut, LostInv
<1>5. CASE SendHeartbeatFails \/ ReceiveFails
  <2>1. Lose("other") /\ request' = request /\ reqAge' = reqAge /\ late' = late
    BY <1>5 DEF SendHeartbeatFails, ReceiveFails
  <2>2. /\ "other" \in {"heartbeat_timeout", "other"}
        /\ "other" = "heartbeat_timeout" => late
        /\ (request' = request /\ reqAge' = reqAge) \/ (request' = "none" /\ reqAge' = 0)
    BY <2>1
  <2>3. QED
    BY <2>1, <2>2, LosingKeeps, Zenon
<1>6. CASE BeginRequest
  BY <1>6 DEF BeginRequest, TimingInv, TimingTyped, ScheduleInv, SilenceInv, SilenceUpTo,
              SinceLook, PromptInv, ReceptionInv, Ended, NoticeInv, OnlyLateLinksTimeOut, LostInv
<1>7. CASE SendRequest
  <2>1. /\ request = "begun" /\ request' = "waiting" /\ reqAge' = 0 /\ txAge' = 0
        /\ UNCHANGED <<link, rxAge, hb, hbAge, echo, echoAge, late>>
    BY <1>7 DEF SendRequest
  <2>2. current' \in BOOLEAN /\ (current' <=> link = "up")
    BY <1>7, Zenon DEF SendRequest
  <2>3. QED
    BY <2>1, <2>2
       DEF TimingInv, TimingTyped, ScheduleInv, SilenceInv, SilenceUpTo, SinceLook,
           PromptInv, ReceptionInv, Ended, NoticeInv, OnlyLateLinksTimeOut, LostInv
<1>8. CASE RequestReturns
  BY <1>8 DEF RequestReturns, TimingInv, TimingTyped, ScheduleInv, SilenceInv, SilenceUpTo,
              SinceLook, PromptInv, ReceptionInv, Ended, NoticeInv, OnlyLateLinksTimeOut, LostInv
<1>9. CASE RequestTimesOut \/ SendRequestFails
  <2>1. CASE link = "up"
    BY <1>9, <2>1, LosingKeeps DEF RequestTimesOut, SendRequestFails
  <2>2. CASE link # "up"
    BY <1>9, <2>2 DEF RequestTimesOut, SendRequestFails, TimingInv, TimingTyped, ScheduleInv,
                      SilenceInv, PromptInv, ReceptionInv, NoticeInv, OnlyLateLinksTimeOut, LostInv
  <2>3. QED
    BY <2>1, <2>2
<1>10. CASE ReceiveEcho
  <2>1. /\ link = "up" /\ rxAge' = 0 /\ echoAge' = 0
        /\ UNCHANGED <<link, txAge, hb, hbAge, request, reqAge, current, late>>
    BY <1>10 DEF ReceiveEcho
  <2>2. echo' \in BOOLEAN /\ ~echo'
    BY <1>10, Zenon DEF ReceiveEcho
  <2>3. QED
    BY <2>1, <2>2
       DEF TimingInv, TimingTyped, ScheduleInv, SilenceInv, SilenceUpTo, SinceLook,
           PromptInv, ReceptionInv, Ended, NoticeInv, OnlyLateLinksTimeOut, LostInv
<1>11. CASE ReceiveStatus
  <2>1. /\ link = "up" /\ request = "waiting" /\ current
        /\ rxAge' = 0 /\ request' = "answered" /\ reqAge' = 0
        /\ UNCHANGED <<link, txAge, hb, hbAge, echo, echoAge, late>>
    BY <1>11 DEF ReceiveStatus
  <2>2. current' \in BOOLEAN /\ ~current'
    BY <1>11, Zenon DEF ReceiveStatus
  <2>3. QED
    BY <2>1, <2>2
       DEF TimingInv, TimingTyped, ScheduleInv, SilenceInv, SilenceUpTo, SinceLook,
           PromptInv, ReceptionInv, Ended, NoticeInv, OnlyLateLinksTimeOut, LostInv
<1>12. CASE ReceiveData
  BY <1>12 DEF ReceiveData, TimingInv, TimingTyped, ScheduleInv, SilenceInv, SilenceUpTo,
               SinceLook, PromptInv, ReceptionInv, Ended, NoticeInv, OnlyLateLinksTimeOut, LostInv
<1>13. CASE UNCHANGED timingVars
  BY <1>13 DEF timingVars, TimingInv, TimingTyped, ScheduleInv, SilenceInv, SilenceUpTo,
               SinceLook, PromptInv, ReceptionInv, Ended, NoticeInv, OnlyLateLinksTimeOut, LostInv
<1>14. QED
  BY <1>1, <1>2, <1>3, <1>4, <1>5, <1>6, <1>7, <1>8, <1>9, <1>10, <1>11, <1>12, <1>13
     DEF TimingNext

\* The inductive invariant of the timed link.
LEMMA TimingInvariant == TimingSpec => []TimingInv
BY TimingInitial, TimingStep, PTL DEF TimingSpec

\* The bridge's silence stays within the Flipper's timeout: with heartbeats
\* due every 100 ms, looks every 25 ms and requests of up to 200 ms the
\* expansion_heartbeat_task leaves 25 ms for the scheduler.
THEOREM HeartbeatsAreInTime == TimingSpec => []SilenceIsShort
<1>1. TimingInv => SilenceIsShort
  BY TimingAssumption DEF TimingInv, TimingTyped, ScheduleInv, SilenceInv, SilenceUpTo,
                          SinceLook, SilenceIsShort
<1>2. QED
  BY <1>1, TimingInvariant, PTL

\* expansion_heartbeat_task signals heartbeat_timeout only when the Flipper
\* let a frame wait for longer than AnswerTime.
THEOREM NoFalseAlarm == TimingSpec => []OnlyLateLinksTimeOut
<1>1. TimingInv => OnlyLateLinksTimeOut
  BY DEF TimingInv
<1>2. QED
  BY <1>1, TimingInvariant, PTL

\* A Flipper that stops answering is noticed within the timeout and a period.
THEOREM AlarmIsInTime == TimingSpec => []LossIsNoticed
<1>1. TimingInv => LossIsNoticed
  BY TimingAssumption DEF TimingInv, TimingTyped, ScheduleInv, NoticeInv, LossIsNoticed
<1>2. QED
  BY <1>1, TimingInvariant, PTL

=============================================================================
