CONSTANTS
  t1 = t1
  t2 = t2
  t3 = t3
  a = a
  NoVal = NoVal
  Threads = {t1, t2, t3}
  Values = {a}
  MaxItems = 2
SPECIFICATION FairSpec
PROPERTY TryReturns
CHECK_DEADLOCK FALSE
