SPECIFICATION StoresSpec
CONSTANTS
  e1 = e1
  e2 = e2
  k1 = k1
  k2 = k2
  n1 = n1
  n2 = n2
  RoleOrder <- Order
  Endpoints = {e1, e2}
  Reachable = {e1}
  Keys = {k1, k2}
  Names = {n1, n2}
  Windows = {0, 1}
  Billings = {"api", "plan"}
  Prices = {"unset"}
  MaxIds = 3
  Paths <- PathsHere
  Dirs = {"d"}
  DirOf <- DirOfHere
  Texts = {"one", "two"}
  Big = {}
  Tried <- TriedHere
  MaxSecond = 1
  MaxTurns = 2
  MaxCalls = 3
  MaxEnds = 1
  WikiDirs <- DirsHere
  Builders = {"b1", "b2"}
  SummaryBudget = 1
  MaxVersion = 2
  MaxTreeEdits = 2
  MaxBuilds = 3
  MaxWikiEnds = 1
  ParentDir <- ParentHere
  Bodies = {"mine"}
  OwnNotes <- NotesHere
  ImportNames = {1, 2}
  Theirs = {"p"}
  MaxCommands = 3
  Platform = "deepseek"
  Sources = {"deepseek"}
  Anchor = "pro"
  Compiled <- CompiledHere
  Registered <- RegisteredHere
  Logical <- LogicalHere
  Answers <- AnswersHere
  Typed <- TypedHere
  MaxPriceOps = 3
  RoleModel <- RolesHere
  Reports <- ReportsHere
  Budget = 9
  MaxRounds = 2
  MaxRuns = 2
  MaxReports = 4
INVARIANTS StoresOK ChainsComplete SnapshotFresh  BooksAgree
PROPERTIES MigrationKeepsAnswers UndoRestores RewindCutsWhatIsShown
CONSTRAINT Bounded
ACTION_CONSTRAINTS TicksBetweenTurns WritesUndisturbed
\* A conversation of the bounds ends.
CHECK_DEADLOCK FALSE
