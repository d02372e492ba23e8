SPECIFICATION HandlersSpec
CONSTANTS
  u1 = u1
  u2 = u2
  path = path
  setting = setting
  Uuid = {u1, u2}
  Body = {}
  Config <- NodeConfig
  Envelope <- Sent
  Times = {4, 5}
  I64_MAX = 4
  MAX_TTL_SEC = 3
  Name = {"get_config", "config_update", "update_request", "modem_commands", "restart"}
  Registered = {"get_config", "config_update", "update_request", "modem_commands", "restart"}
  Parking = {}
  Garbage = Garbage
  Messages <- SentMessages
  DEDUP_CAPACITY = 1
  BRIDGE_CHANNEL_CAPACITY = 1
  EVENT_CHANNEL_CAPACITY = 2
  REQUEST_CAPACITY = 1
  MaxIssued = 3
  MaxErrors = 0
  MaxBoots = 2
INVARIANTS HandlersTypeOK StatusFollowsControl DedupWindow NoDuplicateExecution PipelineOrdered EventsAccounted AnswersFit LifetimeExact
PROPERTY ImplementsLifecycle
CHECK_DEADLOCK FALSE
