CONSTANTS
  NULL = NULL
  Clock = Clock
  NumSlots = 4
  NumPriorities = 3
  NumEnvelopes = 1
  NumBlocks = 5
  Generations = 2
  Events = {Clock}
  FirstPriority = 2
  Calls <- AllWaitCalls
  DestroyStates <- CleanDestroy
  WaitOnce = TRUE
  Creators = {0}
  MaxTasks = 4
SPECIFICATION FairHistorySpec
INVARIANTS NoSleepingReceiver RunsHighest TidsFindTheirTask
PROPERTY TopPriorityRuns
CHECK_DEADLOCK FALSE
