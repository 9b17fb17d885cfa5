SPECIFICATION Spec
CONSTANTS
  SensorIds = {0, 1}
  Clients <- MCClients
  NOTASK = NOTASK
  Numbers = {1, 2}
  MaxTrains = 3
  Pool <- MCPool
  User = User
  Courier = Courier
  Awaited = {0}
  Placed = {1}
  Stops = FALSE
  AddsAgain = TRUE
  RoutesLost = FALSE
  Commands = 4
INVARIANT OneTaskPerTrain
CHECK_DEADLOCK FALSE
