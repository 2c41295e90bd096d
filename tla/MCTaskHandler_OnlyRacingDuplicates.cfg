\* Duplicate claims beyond the accepted race: one QoS 1 redelivery, and
\* tasks/assigned racing ahead of the announcement it answers.
CONSTANTS
  a1 = a1
  a2 = a2
  t1 = t1
  t2 = t2
  t3 = t3
  NoTask = NoTask
  NoAgent = NoAgent
  Agents <- MCAgents
  Tasks <- MCTasks
  role <- MCRole
  taskType <- MCTaskType
  assignedTo <- MCAssignedTo
  MaxRedeliveries = 1

SPECIFICATION Spec

\* The agent process idles in `await new Promise(() => {})` once every
\* message is handled: a state with no enabled step is not an error.
CHECK_DEADLOCK FALSE

PROPERTY OnlyRacingDuplicates
