SPECIFICATION FairSpec
CONSTANTS
  Task = {t1}
  Session = {s1, s2}
  Request = {r1, r2}
  Monitor = Monitor
  Free = Free
  NoTask = NoTask
  NoSession = NoSession
  EditTo = {"done"}
  MaxAttempt = 1
  MaxRequests = 2
  MaxFaults = 0
PROPERTIES
  LifecyclesAreObserved
