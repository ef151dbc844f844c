SPECIFICATION Spec
CONSTANTS
  PipeSize = 1
  Alloc = 2
  Winsize = 3
  SrcBlock = 2
  Faults = {"read", "open", "fork", "child", "write", "lib"}
  Jobs <- MCJobs
INVARIANT CompleteOnSuccess
PROPERTY AllEnd
CHECK_DEADLOCK FALSE
