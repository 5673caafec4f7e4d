SPECIFICATION FairSpec
CONSTANTS
  t1 = t1
  t2 = t2
  t3 = t3
  k1 = k1
  w1 = w1
  Task = {t1, t2, t3}
  Key = {k1}
  KeyOf <- MCKeyOf
  Plain = Plain
  Waiter = {w1}
  WaitKey <- MCWaitKey
  NoTask = NoTask
INVARIANTS
  Serialized
  WaitMeansWritten
  MapBounded
  DrainComplete
PROPERTIES
  EveryWriteLands
