CONSTANTS
  Agents = {a1}
  Ids = {"id1", "id2", "id4"}
  MAX_STEPS = 2
  Replies <- MCReplies
SPECIFICATION FairAgentSpec
INVARIANT TypeOK
INVARIANT AnsweredInOrder
INVARIANT NothingLeftOpen
INVARIANT StepsCountTurns
PROPERTY EventuallyExits
CHECK_DEADLOCK FALSE
