\* Three clients on a bank of two nodes, a word of 8, two ticks.
SPECIFICATION FairSpec
CONSTANTS
  Clients = {c1, c2, c3}
  Notifier = Notifier
  BankSize = 2
  Word = 8
  Amounts <- FewAmounts
  MaxTicks = 2
INVARIANTS
  ClockTypeOK
  OneAnswerEach
  NodesConserved
  CountKeepsUp
PROPERTIES
  ImplementsAlarm
  NobodyWokenEarly
  SleepersWake
CHECK_DEADLOCK FALSE
