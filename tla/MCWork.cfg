CONSTANTS
  Task = {"t1"}
  Wait = {"w1", "w2"}
  TaskOf <- BothWait
  MaxCrashes = 1
  None = None
SPECIFICATION AllSpec
INVARIANTS
  EventMeansResult ReminderCancelled ReducesAll
PROPERTIES NoLostWakeup OrdersAnswered PacedEnds
CHECK_DEADLOCK FALSE
