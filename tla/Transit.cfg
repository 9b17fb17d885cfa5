SPECIFICATION Spec
CONSTANTS
  Places = {0, 1, 2}
  Numbers = {1, 2, 3}
  Seats = 2
  MaxStations = 3
  MaxPeople = 3
  Groups = {1, 2}
  NONE = NONE
  Requests = 6
INVARIANTS TransitOK EnoughPeople BusyTrainsCome
CHECK_DEADLOCK FALSE
