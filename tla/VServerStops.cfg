CONSTANTS
  Agents = {"create", "factorial"}
  Clients = {"create", "factorial"}
  Matched = {"create", "factorial"}
  Writers = {"create"}
  Ids = {"call_bash"}
  MAX_STEPS = 2
  Backlog = 1
  Cuts = {1, 2, 3}
  KillsGroup = TRUE
  Checks <- MCChecks
  Replies <- MCReplies
SPECIFICATION FairSpec
PROPERTY ServerStops
CHECK_DEADLOCK FALSE
