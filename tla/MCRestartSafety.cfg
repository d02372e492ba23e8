SPECIFICATION Spec
CONSTANTS
  Uuid = {u1, u2}
  Targets = {"camera", "modem", "unitctl", "reboot"}
  REQUEST_CAPACITY = 1
  EVENT_CHANNEL_CAPACITY = 1
  ClaimFirst = TRUE
  MaxBoots = 3
  MaxRequests = 2
  MaxIoErrors = 2
SYMMETRY Symmetry
INVARIANTS CompletionJustified AcceptedNotForgotten
CHECK_DEADLOCK FALSE
