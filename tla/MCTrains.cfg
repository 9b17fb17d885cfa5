SPECIFICATION Spec
CONSTANTS
  Nodes <- MCNodes
  Kind <- MCKind
  Twin <- MCTwin
  Straight <- MCStraight
  Curved <- MCCurved
  NULL = NULL
  Trains = {me, other}
  NOBODY = NOBODY
  TurnCost = 1
  SensorIds <- MCSensors
  Clients = {c, f}
  NOTASK = NOTASK
  Me = me
  Couriers = {c}
  TopSpeed = 1
  GotoSpeed = 1
  Missable = 1
  Wants = {2}
  PathLength = 2
  Ground = {2}
  PollSize = 1
  Attributed = {0}
  Drivers = {"user", "conductor"}
  Requests = 4
  Chances = 2
INVARIANTS TrainOK NoLeak SlotsAreLive ListensAhead WaitersKeepTheirPlace
PROPERTY NeverTaken
CHECK_DEADLOCK FALSE
