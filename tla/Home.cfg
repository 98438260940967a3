CONSTANTS
  Format = {"claude", "codex", "pi"}
  Dir = {"home", "alias", "inner", "below", "claude", "codex", "own", "moved", "found"}
  Repo = {"Personal", "Work"}
  NoDir = "nodir"
  Parent <- Enclosing
  Real <- Linked
  RepoOf <- Repos
  Standard <- Stores
  OwnFormat = "pi"
  OwnStore = "own"
  t1 = t1
  t2 = t2
  Term = {t1, t2}
  TextTerm = {t2}
  Entry <- Entries
  Declared <- InSettings
  Deep <- Findable
  NameOf <- Names
  Replies <- OneReply
  OldMarkers <- Markers
  HostRoots = {"moved"}
  MaxSetupCrashes = 1
  MaxScreenEdits = 1
  File = {"main", "task", "roll", "chat"}
  Session = {"a", "b", "c"}
  About <- Files
  Home <- Places
  Moved = {"home", "inner"}
  Blockable <- OffLimits
  Selections <- Selected
  MaxWrites = 4
  Folder = {"agents", "claude", "other claude"}
  Agents = "agents"
  Environments <- TwoHarnesses
  Checkout = {"here", "there"}
  MaxFaults = 1
  MaxEdits = 2
SPECIFICATION HomeSpec
INVARIANTS SetupIsKept RowsFollowTranscripts
PROPERTIES SkillsAreKept
CHECK_DEADLOCK FALSE
