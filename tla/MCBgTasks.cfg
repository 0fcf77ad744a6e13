SPECIFICATION FairSpec
CONSTANTS
  v1 = v1
  v2 = v2
  t1 = t1
  t2 = t2
  Convs = {v1, v2}
  Tasks = {t1}
  MaxRounds = 2
  MaxRuns = 1
INVARIANTS TypeOK FinalAnswersAgree KillBound
PROPERTIES BilledOnce SettledIsPaid TaskEnds
