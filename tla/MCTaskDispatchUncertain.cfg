SPECIFICATION Spec
CONSTANTS
  Task = {t1}
  Session = {s1, s2}
  Request = {r1}
  Monitor = Monitor
  Free = Free
  NoTask = NoTask
  NoSession = NoSession
  EditTo = {"done"}
  MaxAttempt = 1
  MaxRequests = 2
  MaxFaults = 2
PROPERTIES
  UncertainStaysPut
