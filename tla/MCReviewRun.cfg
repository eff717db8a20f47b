SPECIFICATION FairRunSpec
CONSTANTS
  MaxFiles = 3
  PageCap = 2
  MaxChars = 6
  MaxBytes = 2
  Pulls <- MCPulls
  Sizes = {1, 2, 3}
  Chunks = {3, 9, 40}
  MaxCapture = 2
  PipeSize = 2
  MaxOutput = 4
CHECK_DEADLOCK FALSE
INVARIANTS
  FilesWhole
  DiffKept
  ResponsesClosed
  NothingLeftRunning
  OwnOutput
  CaptureExact
PROPERTIES
  RunEnds
