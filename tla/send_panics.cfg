\* The connection is lost between poll and publish.
CONSTANTS
  Capacity = 2
  MaxMeasured = 2
SPECIFICATION FairSpec
PROPERTY
  SendReportsErrors
CHECK_DEADLOCK FALSE
