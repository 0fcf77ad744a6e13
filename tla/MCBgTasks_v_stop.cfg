SPECIFICATION Spec
CONSTANTS
  v1 = v1
  v2 = v2
  t1 = t1
  t2 = t2
  Convs = {v1}
  Tasks = {t1}
  MaxRounds = 1
  MaxRuns = 1
INVARIANT StopReachesTasks
