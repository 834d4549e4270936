CONSTANTS
  Posters = {p1}
  NoThread = NoThread
  MAX_TASKS_LIMIT = 1
  ONCE_PROCESS_TASK_LIMIT = 1
  PIPE_CAPACITY = 4
  MaxPosts = 2
SPECIFICATION Spec
INVARIANTS ExpiredTaskIsDiscarded
CHECK_DEADLOCK FALSE
