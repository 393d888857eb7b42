CONSTANTS
  t1 = t1
  t2 = t2
  t3 = t3
  t4 = t4
  r1 = r1
  r2 = r2
  Resources = {r1, r2}
  NoTask = NoTask
  Tasks = {t1, t2, t3, t4}
  Resource <- OfOneOrOther
  MaxStops = 1
CHECK_DEADLOCK FALSE
SPECIFICATION Spec
SYMMETRY Symmetry
INVARIANTS TypeOK OnlyFirstPending OneAtATime WaitersAhead StopAborts
PROPERTIES InOrder ResultIsLast
