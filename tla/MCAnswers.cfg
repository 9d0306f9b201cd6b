SPECIFICATION Spec
CONSTANTS
  Handles <- MCHandles
  Flows <- MCFlows
INVARIANTS
  TypeOK
  AnswersInOrder
  StreamedIsAnswer
  BegunAnswersRun
  AnswersFollowGraph
  AssignedFirst
CHECK_DEADLOCK FALSE
