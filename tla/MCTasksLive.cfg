CONSTANTS
  t1 = t1
  t2 = t2
  t3 = t3
  t4 = t4
  r1 = r1
  r2 = r2
  Resources = {r1, r2}
  NoTask = NoTask
  Tasks = {t1, t2, t3}
  Resource <- TwoAndOne
  MaxStops = 1
CHECK_DEADLOCK FALSE
SPECIFICATION FairSpec
PROPERTIES EveryTaskFinishes StopReturns
