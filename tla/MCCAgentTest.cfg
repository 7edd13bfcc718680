CONSTANTS
  Agents = {"create", "factorial"}
  Clients = {"create", "factorial"}
  Matched = {"create", "factorial"}
  Writers = {"create"}
  Ids = {"call_bash"}
  MAX_STEPS = 3
  Backlog = 1
  Cuts = {1, 2, 3}
  KillsGroup = FALSE
  Checks <- MCChecks
  Replies <- MCReplies
SPECIFICATION Spec
INVARIANT TestTypeOK
INVARIANT OneClientAtATime
INVARIANT CommandAtMostOnce
INVARIANT PassIsEarned
INVARIANT RejectHasCause
INVARIANT CleanUnlessOrphaned
CHECK_DEADLOCK FALSE
