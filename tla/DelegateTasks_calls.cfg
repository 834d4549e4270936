CONSTANTS
  Posters = {p1, p2}
  NoThread = NoThread
  MAX_TASKS_LIMIT = 1
  ONCE_PROCESS_TASK_LIMIT = 2
  PIPE_CAPACITY = 2
  MaxPosts = 3
SPECIFICATION Spec
INVARIANTS TypeOK PipeMatchesQueue
PROPERTIES TasksStartInPostOrder ImplementsTaskCall EveryCallReturns EveryTaskSettles
CHECK_DEADLOCK FALSE
