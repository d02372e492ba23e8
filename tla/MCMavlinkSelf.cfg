SPECIFICATION Spec
CONSTANTS
  Vehicles = {1}
  Others = {}
  self_sysid = 5
  sniffer_sysid = 199
  bs_sysid = 200
  gcs_sysid = 255
  FC_SYSID_THRESHOLD = 200
  OUTGOING_CAPACITY = 2
  Readings = {{}}
  Slots = 1
  MaxConnects = 1
INVARIANT NoSelfDiscovery
CHECK_DEADLOCK FALSE
