\* Two processes and four commands on every workspace and store there may be.
SPECIFICATION Spec
CONSTANTS
  Proc = {p1, p2}
  Root = "/"
  Dirs <- MCDirs
  Files <- MCFiles
  Logs <- MCLogs
  Log = "events/memory_events.jsonl"
  Db = "db"
  Parent <- MCParent
  Stray = "notes.txt"
  Disks <- MCDisks
  Unfit = {"", "inside"}
  Absent = "absent"
  MaxStarts = 4
  Tables <- MCTables
  SchemaVersion = 2
  Corrupt = Corrupt
  OldStores <- MCOldStores
  NoStore = NoStore
SYMMETRY Symmetric
CHECK_DEADLOCK FALSE
INVARIANTS WorkspaceSound SchemaWhole
PROPERTIES LogsKept RerunSucceeds VersionSound
