SPECIFICATION HostSpec
CONSTANTS
  GitFiles = {"f", "g"}
  Contents = {"gone", "a", "b"}
  Branches = {"main", "dev"}
  MaxSubtasks = 2
  MaxEdits = 2
  MaxCommits = 6
  MaxExits = 1
  Askers = {"m", "s", "o"}
  Lead <- LeadHere
  Commands = {"look", "run"}
  RuleSets <- RulesHere
  MaxRequests = 2
  MaxReloads = 1
  Lookups = {"o1", "o2"}
  Docs = {"d"}
  Exes = {"x", "y"}
  MaxPooled = 1
  MaxText = 2
  MaxProcs = 2
  MaxCrashes = 1
  MaxAsks = 2
  MaxNoise = 1
  MaxIds = 3
  Answered <- AnsweredHere
  Guard = 4
  MaxAttempts = 2
  ModelNames = {"flash", "pro", "other"}
  Sibling <- SiblingHere
  MaxRounds = 2
  ServerIds = {"s"}
  Callers = {"c1", "c2"}
  MaxConnects = 2
  MaxSent = 2
  ShellIds = {"a"}
  OutputBuffer = 2
  MaxCollected = 2
  MaxLines = 3
  Refs = {"main", "dev"}
  MaxChanges = 2
INVARIANTS HostOK CommittedWorkReachable WaitingIsVisible ScreenShowsOneAnswer AnswersOwnCall FinalStatusIsLast
PROPERTIES ReportTruthful OwnTextAnswered NothingLost
CONSTRAINT Bounded
ACTION_CONSTRAINT EditsWhileWaiting
\* A part that has used up its bounds rests.
CHECK_DEADLOCK FALSE
