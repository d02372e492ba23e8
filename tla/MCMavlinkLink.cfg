SPECIFICATION FairSpec
CONSTANTS
  Vehicles = {1}
  Others = {}
  self_sysid = 5
  sniffer_sysid = 199
  bs_sysid = 200
  gcs_sysid = 255
  FC_SYSID_THRESHOLD = 200
  OUTGOING_CAPACITY = 2
  Readings = {{100}, {100, 200, 300}}
  Slots = 2
  MaxConnects = 1
INVARIANTS DiscoveryGenuine FreshFrames BothOrNeither OneReading
PROPERTY HeartbeatSent
CHECK_DEADLOCK FALSE
