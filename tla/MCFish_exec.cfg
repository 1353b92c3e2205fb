SPECIFICATION Spec
CONSTANTS
  Path = {"a"}
  Absent = Absent
  Dir = Dir
  Room = 2
  MimeBytes = 2
  Servers = {"perl"}
  Faulty = {"perl"}
  Ops <- OnlyExec
  InitialValues <- OnlyFiles
  PutData <- SomeData
  MaxJobs = 2
INVARIANT NobodyWaits
