SPECIFICATION FairSpec
CONSTANTS
  SensorIds = {0, 1}
  Clients <- MCClients
  NOTASK = NOTASK
  Numbers = {1, 2}
  MaxTrains = 2
  Pool <- MCPool
  User = User
  Courier = Courier
  Awaited = {0}
  Placed = {1}
  Stops = FALSE
  AddsAgain = FALSE
  RoutesLost = FALSE
  Commands = 4
INVARIANTS DispatchOK SomeoneIsCreating OneTaskPerTrain BusyIsRouted ConductorsUnderstand PathsShortest
PROPERTIES AttributedElsewhere AddsAreAnswered
CHECK_DEADLOCK FALSE
