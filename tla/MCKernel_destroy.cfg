CONSTANTS
  NULL = NULL
  Clock = Clock
  NumSlots = 4
  NumPriorities = 2
  NumEnvelopes = 2
  NumBlocks = 5
  Generations = 1
  Events = {Clock}
  FirstPriority = 1
  Calls <- MessageCalls
  DestroyStates <- AnyState
  WaitOnce = FALSE
  Creators = {0}
  MaxTasks = 4
SPECIFICATION HistorySpec
INVARIANT RecycledCleanly
CHECK_DEADLOCK FALSE
