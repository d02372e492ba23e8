SPECIFICATION FairSpec
CONSTANTS
  Uuid = {u1}
  Name = {"get_config", "restart", "unknown"}
  Registered = {"get_config", "restart"}
  Parking <- RestartsOfUnitctl
  Garbage = Garbage
  Messages <- AllCommands
  DEDUP_CAPACITY = 1
  BRIDGE_CHANNEL_CAPACITY = 1
  EVENT_CHANNEL_CAPACITY = 1
  REQUEST_CAPACITY = 1
  MaxIssued = 1
  MaxErrors = 1
  MaxBoots = 2
PROPERTIES ShutdownEnds EventsProcessed
CHECK_DEADLOCK FALSE
