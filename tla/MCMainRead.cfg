SPECIFICATION UnnoticedSpec
CONSTANTS
  PipeSize = 1
  Alloc = 2
  Winsize = 3
  SrcBlock = 2
  Faults = {}
  Jobs <- MCJobs
INVARIANT CompleteOnSuccess
CHECK_DEADLOCK FALSE
