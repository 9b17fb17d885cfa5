\* Two tasks that write, rings of two bytes, answers of two bytes.
SPECIFICATION FairSpec
CONSTANTS
  Slave = Slave
  Writers = {Slave, Train}
  Xmt = Xmt
  Poll = "poll"
  Command <- SpeedCommand
  Bytes = {"poll", "speed", "train"}
  Answers <- AFewAnswers
  OutCapacity = 2
  InCapacity = 2
  AnswerSize = 2
  MaxPolls = 2
  MaxCommands = 1
INVARIANTS
  TypeOK
  NothingLost
  NoOverrun
  FirstUnreturned
  AnswersInStep
PROPERTIES
  EveryByteSent
  PollsAnswered
CHECK_DEADLOCK FALSE
