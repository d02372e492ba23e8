SPECIFICATION ServedSpec
CONSTANTS
  Uuid = {u1}
  Targets = {"unitctl"}
  REQUEST_CAPACITY = 1
  EVENT_CHANNEL_CAPACITY = 2
  ClaimFirst = TRUE
  MaxBoots = 3
  MaxRequests = 2
  MaxIoErrors = 1
PROPERTY OwedReported
CHECK_DEADLOCK FALSE
