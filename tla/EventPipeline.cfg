CONSTANTS
  QueueLen = 2
  MaxEvents = 4
  MaxCalls = 1
  OtherThunk = OtherThunk
  Nothing = Nothing
SPECIFICATION FairSpec
INVARIANTS NothingLostOrReordered NoLostWakeup BufferDrainedAtStop
PROPERTIES Implements EveryEventHandled StopTerminates
CHECK_DEADLOCK FALSE
