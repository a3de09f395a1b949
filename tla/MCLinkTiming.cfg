SPECIFICATION TimingSpec
CONSTANTS
  Timeout = 50
  AckTimeout = 40
  Heartbeat = 20
  Interval = 5
  Latency = 1
  AnswerTime = 20
INVARIANTS SilenceIsShort OnlyLateLinksTimeOut LossIsNoticed
