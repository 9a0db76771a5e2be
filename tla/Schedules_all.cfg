CONSTANTS
  hour = hour
  day = day
  None = None
  MaxId = 1
  Intervals = {hour, day}
  MaxRequests = 2
  MaxLoads = 1
  MaxCrashes = 1
SPECIFICATION FairSpec
INVARIANTS
  TypeOK
  JobsFollowRows
  ListFollows
PROPERTIES
  EnabledRuns
