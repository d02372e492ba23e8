SPECIFICATION FairSpec
CONSTANTS
  Files <- PingServed
  Certificates <- Found
  Name <- Names
  REQUEST_CAPACITY = 2
PROPERTY ReporterKeepsReading
CHECK_DEADLOCK FALSE
