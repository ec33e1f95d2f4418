SPECIFICATION Spec
CONSTANTS
  Thread = {fsm, poller}
  Command = {motor}
  Query = {floor, obstruction}
  Value = {0, 1}
  MaxTries = 1
  MaxFlips = 1
  MaxCalls = 3
PROPERTIES
  AnswersAreOwn
  AnswerMeansDone
CHECK_DEADLOCK FALSE
