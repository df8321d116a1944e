\* Two queues; elements move from A to B, threads wait on B.
SPECIFICATION Spec
CONSTANTS
  A = A
  B = B
  Queues = {A, B}
  Elems = {e1, e2}
  Threads = {t1, t2, t3}
  NULL = NULL
  MovePairs <- OneWay
  WaitQueues = {B}
  Indexes <- AllIndexes
  MaxCur = 2
INVARIANTS TypeOK NoLostWakeup NoWaitCycle
PROPERTIES ImplementsFifo
SYMMETRY Symmetry
