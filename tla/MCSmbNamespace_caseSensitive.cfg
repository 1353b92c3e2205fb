SPECIFICATION NamesSpec
CONSTANTS
  EntryName = {"readme", "README", "other"}
  Folded <- MCFolded
  CaseSensitive = TRUE
  GoodInodes = TRUE
  Inode = {1, 2, 3}
  NoEntry = NoEntry
PROPERTY RenameDestroysNothing
