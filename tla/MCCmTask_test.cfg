\* The test program of cm_task.c: one thread, two tasks that restart.
SPECIFICATION Spec
CONSTANTS
  Tasks = {t1, t2}
  ListHead = head
  NULL = NULL
  Threads = {main}
  Starters = {main}
  Cancellers = {}
  Pollers = {main}
  Rearming = {t1, t2}
INVARIANTS CallbackMayRearm
CHECK_DEADLOCK FALSE
