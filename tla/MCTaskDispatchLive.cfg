SPECIFICATION FairSpec
CONSTANTS
  Task = {t1}
  Session = {s1, s2}
  Request = {r1}
  Monitor = Monitor
  Free = Free
  NoTask = NoTask
  NoSession = NoSession
  EditTo = {"todo", "done"}
  MaxAttempt = 1
  MaxRequests = 3
  MaxFaults = 1
PROPERTIES
  LifecyclesAreObserved
  QueuedIsTakenUp
