SPECIFICATION FairSpec
CONSTANTS
  Enablings = {{"ping"}, {"lte"}, {"system"}}
  MaxLives = 2
  MaxPackets = 2
  MaxLines = 1
  Interface = {"wwan0"}
  PRIMING = 2
  SystemInterval = 1
  CollectDelay = 1
  MaxInstant = 5
  MaxBytes = 1
  MaxPlugs = 2
  Modem = {"SIMCOM_SIM7600G-H", "EM12-G", "EM060K-GL", "EM06-E", "fake", "other"}
  Cell = {1, 2}
  neighbor_expiry_s = 1
  MaxQueries = 4
  MaxWall = 4
INVARIANTS TypeOK LossAccounted ReachableIsCurrent NoInventedTraffic DenominatorClose SignalDecoded NeighborsFresh
PROPERTIES ImplementsTasks SensorsEnd
CHECK_DEADLOCK FALSE
