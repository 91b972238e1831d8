CONSTANTS
  MaxTimers = 1
  Names = {"t"}
  NoName = "no name"
  Contexts = {"x.js"}
  QueueLen = 2
  OtherThunk = OtherThunk
  Nothing = Nothing
SPECIFICATION FairSpec
PROPERTIES StopsReturn TimersFire
CHECK_DEADLOCK FALSE
