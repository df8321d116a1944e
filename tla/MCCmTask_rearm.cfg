\* Two polling threads; the callback of one task starts it again.
SPECIFICATION Spec
CONSTANTS
  Tasks = {t1, t2}
  ListHead = head
  NULL = NULL
  Threads = {main, poller}
  Starters = {main, poller}
  Cancellers = {}
  Pollers = {main, poller}
  Rearming = {t1}
INVARIANTS WalkHoldsMutex SelfWaitOnlyWhenRearming
\* A callback that starts a task stops its thread for good.
CHECK_DEADLOCK FALSE
