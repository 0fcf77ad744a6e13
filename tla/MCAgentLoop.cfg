SPECIFICATION Spec
CONSTANTS
  c1 = c1
  c2 = c2
  c3 = c3
  u1 = u1
  u2 = u2
  s1 = s1
  s2 = s2
  a1 = a1
  a2 = a2
  CallIds = {c1, c2}
  ReusableIds = {}
  Texts = {u1}
  Steers = {s1, s2}
  Answers = {a1}
  Notes = {"approved plan"}
  KeepRecent = 2
  AllowSummary = FALSE
  MaxLost = 1
  AskUser = FALSE
  PlanMode = TRUE
  EarlyErrors = FALSE
  MaxSends = 3
  MaxCrashes = 1
  MaxFeedback = 0
  MaxWire = 5
INVARIANTS TypeOK RequestPaired AnswersExact SnapshotResumable WriteAhead EffectsDurable SteeringInOrder PlanNoteExact StopBound
PROPERTIES LedgerSpec
\* A run of the bounds ends: the user has no send left.
CONSTRAINT Bounded
CHECK_DEADLOCK FALSE
