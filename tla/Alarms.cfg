CONSTANTS
  Sms = {m1, m2, m3}
  Values = {"low", "normal", "high", "text"}
  Below = {"low"}
  AtLeastMin = {"normal", "high"}
  Above = {"high"}
  AtMostMax = {"low", "normal"}
  Expected = {"normal"}
  NoValue = "none"
  Configs <- MCConfigs
  NoLimit = NoLimit
  MaxEvents = 1
SPECIFICATION FairSpec
INVARIANTS TimersMatchState MessagesPerPeriod QueueKeepsMoving AlarmFollowsControl
PROPERTY EverySmsSent
