SPECIFICATION Spec
CONSTANTS
  Path = {"a", "b"}
  Absent = Absent
  Dir = Dir
  Room = 1
  MimeBytes = 2
  Servers = {"perl"}
  Faulty = {"perl"}
  Ops <- OnNames
  InitialValues <- Small
  PutData <- SomeData
  MaxJobs = 2
INVARIANT DoneAsAsked
