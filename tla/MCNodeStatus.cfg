SPECIFICATION ServedSpec
CONSTANTS
  REQUEST_CAPACITY = 2
  EVENT_CHANNEL_CAPACITY = 2
  Adjacent = TRUE
  MaxDrops = 3
  MaxMessages = 3
  MaxBoots = 2
INVARIANTS NotOnlineWhenGone
PROPERTY OnlineFollowsConnect
CHECK_DEADLOCK FALSE
