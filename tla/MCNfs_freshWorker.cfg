SPECIFICATION Spec
CONSTANTS
  d = d
  e = e
  f = f
  g = g
  h = h
  Account = {h, "other"}
  NoProtocol = NoProtocol
  DirName = {d, e}
  FileName = {f, g}
  MaxId = 5
  ExportLists <- MCExportLists
  Absent = Absent
  Outside = Outside
  Cases = {}
  MaxOps = 5
  NoFile = NoFile
  Directory = Directory
  Chunks = 3
  MinKeep = 2
  ListedFirst = FALSE
  Events = {}
  MaxJobs = 3
  Message <- MCMessage
  MaxItems = 3
  XdrEvents = {}
INVARIANT SuccessIsComplete
CHECK_DEADLOCK FALSE
