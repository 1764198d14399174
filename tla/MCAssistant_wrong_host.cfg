SPECIFICATION Spec
CONSTANTS
  Targets = {"A", "B"}
  Chains = {1}
  Replies <- SomeReplies
  MaxToolRounds = 6
  MaxSubmits = 1
  MaxEvents = 3
INVARIANTS HostAsShown
CHECK_DEADLOCK FALSE
