SPECIFICATION ServedSpec
CONSTANTS
  Files <- Everything
  Certificates <- Found
  Name <- Names
  REQUEST_CAPACITY = 2
INVARIANTS OwnTopics EnvFilesWellFormed FirstConnectSeen
PROPERTIES ShutdownJoins ReporterKeepsReading
CHECK_DEADLOCK FALSE
