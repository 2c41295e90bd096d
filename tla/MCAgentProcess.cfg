\* One agent, two tasks, a first connection and one reconnect, two errors.
CONSTANTS
  t1 = t1
  t2 = t2
  NoTask = NoTask
  Tasks <- MCTasks
  MaxConnects = 2
  MaxErrors = 2
SPECIFICATION Spec
\* A process that has exited or crashed takes no step.
CHECK_DEADLOCK FALSE
INVARIANT TypeOK
INVARIANT FailureExitOnlyBeforeConnect
PROPERTY StartupSettles
