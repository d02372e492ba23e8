SPECIFICATION Spec
CONSTANTS
  Uuid = {u1}
  Targets = {"unitctl"}
  REQUEST_CAPACITY = 1
  EVENT_CHANNEL_CAPACITY = 1
  ClaimFirst = FALSE
  MaxBoots = 1
  MaxRequests = 1
  MaxIoErrors = 0
INVARIANT CompletionJustified
CHECK_DEADLOCK FALSE
