SPECIFICATION FairSpec
CONSTANTS
  MaxReports = 4
PROPERTIES
  ImplementsEvents
  WakeupNotLost
