CONSTANTS
  Agents = {"create", "factorial"}
  Clients = {"create", "factorial"}
  Matched = {"create", "factorial"}
  Writers = {"create"}
  Ids = {"call_bash"}
  MAX_STEPS = 2
  Backlog = 1
  Cuts = {}
  KillsGroup = TRUE
  Checks <- MCChecks
  Replies <- MCReplies
SPECIFICATION FairSpec
PROPERTY GroupPromise
PROPERTY QueuedIsServed
INVARIANT CleanUnlessOrphaned
CHECK_DEADLOCK FALSE
