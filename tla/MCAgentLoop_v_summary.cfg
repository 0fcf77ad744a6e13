SPECIFICATION Spec
CONSTANTS
  c1 = c1
  c2 = c2
  c3 = c3
  u1 = u1
  u2 = u2
  s1 = s1
  s2 = s2
  a1 = a1
  a2 = a2
  CallIds = {c1, c2}
  ReusableIds = {}
  Texts = {u1}
  Steers = {}
  Answers = {a1}
  Notes = {"approved plan"}
  KeepRecent = 2
  AllowSummary = TRUE
  MaxLost = 0
  AskUser = FALSE
  PlanMode = FALSE
  EarlyErrors = FALSE
  MaxSends = 2
  MaxCrashes = 0
  MaxFeedback = 0
  MaxWire = 6
INVARIANT SummarySurvives
\* A run of the bounds ends: the user has no send left.
CHECK_DEADLOCK FALSE
