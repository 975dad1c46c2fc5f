CONSTANTS
  c1 = c1
  k1 = k1
  k2 = k2
  v1 = v1
  th1 = th1
  th2 = th2
  th3 = th3
  None = None
  Categories = {c1}
  Keys = {k1, k2}
  Values = {v1}
  Threads = {th1, th2, th3}
  Batches <- MC_Batches
SPECIFICATION FairSpec
\* A thread that stops calling may stay idle; every call in progress is
\* covered by CallsReturn, which also rules out a deadlock of pending calls.
CHECK_DEADLOCK FALSE
PROPERTY KVSpec
PROPERTY CallsReturn
