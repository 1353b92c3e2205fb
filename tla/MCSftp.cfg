SPECIFICATION MCSpec
CONSTANTS
  Size = 7
  ChunkSize = 2
  MaxPending = 2
  NoFile = NoFile
  Directory = Directory
  Chunks = 3
  MinKeep = 2
  MaxWrites = 2
  Events = {}
  MaxJobs = 3
  User = {"me", "bob"}
  Self = "me"
  Nothing = Nothing
  File = {"a", "b"}
  Urls <- MCUrls
  NameOps <- MCOps
  Offers <- MCOffers
  SftpEvents = {"dies"}
  MaxLogins = 2
  MaxNameJobs = 2
INVARIANTS ReadExact TransfersSound DestinationSafe SessionRight
PROPERTIES AllEnd ReadIsSequential NamesRight
CHECK_DEADLOCK FALSE
