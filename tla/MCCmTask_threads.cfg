\* One thread polls and cancels, another one starts tasks at any time.
SPECIFICATION FairSpec
CONSTANTS
  Tasks = {t1, t2, t3}
  ListHead = head
  NULL = NULL
  Threads = {main, worker}
  Starters = {main, worker}
  Cancellers = {main}
  Pollers = {main}
  Rearming = {}
INVARIANTS TypeOK ListIntact
PROPERTIES ImplementsTimers EveryDueTaskRuns
