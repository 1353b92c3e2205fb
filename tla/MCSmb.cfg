SPECIFICATION MCSpec
CONSTANTS
  NoFile = NoFile
  Directory = Directory
  Chunks = 3
  MinKeep = 2
  PutSeekFails = FALSE
  MaxJobs = 3
  EntryName = {"readme", "README", "other"}
  Folded <- MCFolded
  CaseSensitive = FALSE
  GoodInodes = TRUE
  Inode = {1, 2, 3}
  NoEntry = NoEntry
  Name = {"a", "b", "c", "s"}
  Service = {"a", "b"}
  Endpoint = {"e"}
  ComputerOf <- MCComputerOf
  Share = {"s"}
  Entries <- MCEntries
  Login = {"u", "v"}
  Accepts <- MCAccepts
  DefaultLogin = Nothing
  Nothing = Nothing
  BrowseEvents = {}
  MaxBrowse = 1
  MaxDialogs = 2
  FileSize = 3
  Mountpoint = {1, 2}
  AclSize = 3
  MaxSpecials = 3
  Item = {"i", "j", "k"}
  NoItem = NoItem
  Modified = 1
  Dir = {"x", "y", "z"}
  Capacity = 2
  StartLimit = 2
  NotifyEvents = {}
  MaxChanges = 5
  MaxEntered = 6
INVARIANTS PartFileRight SuccessIsComplete DestinationSafe NoUninvitedOverwrite ListingRight FileJobsRight NotifyRight
PROPERTIES RenamesRight BrowseEnds
CHECK_DEADLOCK FALSE
