CONSTANTS
  MaxTimers = 2
  Names = {"t"}
  NoName = "no name"
  Contexts = {x, y}
  QueueLen = 1
  OtherThunk = OtherThunk
  Nothing = Nothing
SPECIFICATION Spec
INVARIANTS StoppedForGood OneTimerPerName CleanupsKnowTheTimers NoPanicWhileRunning OnlyLateTimersSurvive
PROPERTY FiresOnlyWhileWanted
CHECK_DEADLOCK FALSE
