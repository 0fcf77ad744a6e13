SPECIFICATION Spec
CONSTANTS
  t1 = t1
  t2 = t2
  o1 = o1
  o2 = o2
  Tests = {t1, t2}
  SafeTests = {t1, t2}
  MaxFocused = 1
  Outputs = {o1, o2}
  VERIFY_MAX_ROUNDS = 3
  VERIFY_STALL_THRESHOLD = 2
  REVIEW_MAX_ROUNDS = 1
  MaxEdits = 4
  MaxCommands = 1
INVARIANTS TypeOK GreenIsFull StallIsRepetition FeedbackBound ReviewedBeforeDone
SYMMETRY Alike
\* A run that is done, stalled or stopped takes no more steps.
CHECK_DEADLOCK FALSE
