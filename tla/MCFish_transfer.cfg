SPECIFICATION FairSpec
CONSTANTS
  Path = {"a"}
  Absent = Absent
  Dir = Dir
  Room = 2
  MimeBytes = 2
  Servers = {"perl", "sh"}
  Faulty = {"perl"}
  Ops <- Transfers
  InitialValues <- Anything
  PutData <- SomeData
  MaxJobs = 2
INVARIANTS InStep TransferExact NobodyWaits
PROPERTY JobsEnd
