SPECIFICATION WorkersSpec
CONSTANTS
  a = a
  b = b
  w1 = w1
  w2 = w2
  Name = {a, b}
  MaxId = 3
  Absent = Absent
  RenamesFolders = FALSE
  Worker = {w1, w2}
  Ops = {"put", "get", "copyFrom", "mkdir", "del", "rename", "list", "stat"}
  Events = {"unplug", "expire"}
  MaxJobs = 2
  Udi = {"u1", "u2"}
  DeviceName = {"n1", "n2"}
  Nobody = Nobody
  MaxPlugged = 1
  MaxPlugs = 3
  OwnNames = TRUE
  Device = {"d"}
  AppId = {"app"}
  FileSystem = "fs"
  AfcName = {w1, w2}
  Nothing = Nothing
  AfcOps = {"get", "put", "copy", "rename", "open", "list", "stat", "symlink", "del", "setTime", "space", "read", "seek", "truncate", "write", "mkdir", "apps", "close"}
  AfcEvents = {}
  MaxLen = 1
  MaxAfcJobs = 2
  MaxAttached = 1
  Tree <- MCTree
  RootPath <- SearchRoot
  NoLink = NoLink
  Hidden = {"files"}
  SearchSrc = {"external", "internal"}
  Output <- MCOutput
  Letter = {"x"}
  MaxPattern = 5
  SearchTerm = {"s", "t"}
  MaxTextLines = 2
  Component = {"a", "b"}
  NoEntry = NoEntry
  Member = {"f", "d", "l"}
  LinkMember = {"l"}
  SizeOf <- MCSizeOf
  Holds <- MCHolds
  Word = 4
  MaxVersion = 3
  MaxArchiveJobs = 2
  ReadSize = 2
  ArchiveEvents = {}
SYMMETRY Symmetric
INVARIANTS StorageRight AfcRight SearchRight WordsRight AnswerRight
PROPERTIES DeviceChangesRight DestKept
CHECK_DEADLOCK FALSE
