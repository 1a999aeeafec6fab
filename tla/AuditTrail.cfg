CONSTANTS
  BufferSize = 1
  PageSize = 1
  MaxEntries = 2
  MaxReads = 0
SPECIFICATION Spec
INVARIANT NeverSilentlyDropped
CHECK_DEADLOCK FALSE
