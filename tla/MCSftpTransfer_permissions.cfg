SPECIFICATION TransferSpec
CONSTANTS
  NoFile = NoFile
  Directory = Directory
  Chunks = 3
  MinKeep = 2
  MaxWrites = 2
  Events = {}
  MaxJobs = 2
INVARIANT AskedOnce
