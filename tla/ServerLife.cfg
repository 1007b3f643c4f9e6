SPECIFICATION LifeSpec
CONSTANTS
  Workers = {w1, w2}
  Tasks = {t1, t2}
  NoTask = NoTask
PROPERTIES FailedStartEnds
