SPECIFICATION FairSpec
CONSTANTS
  REQUEST_QUEUE_CAPACITY = 2
  Commands <- SmallCommands
  MaxCalls = 4
  MaxModems = 2
INVARIANTS AnswerIsForCall RunsInOrder OnlyQueries
PROPERTIES CallReturns UsersEnd
CHECK_DEADLOCK FALSE
