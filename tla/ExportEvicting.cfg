SPECIFICATION Spec
CONSTANTS
  Jobs <- SplitJobs
  MaxVolume = 4
  ElementBytes = 2
  MaxMemory = 16
  ChannelSize = 2
INVARIANT QueryResultStored
