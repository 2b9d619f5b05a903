SPECIFICATION ClaimSpec
CONSTANTS
  Task = {t1, t2}
  Session = {s1, s2}
  Request = {r1, r2}
  Monitor = Monitor
  Free = Free
  NoTask = NoTask
  NoSession = NoSession
  EditTo = {"working", "done"}
  MaxAttempt = 1
  MaxRequests = 2
  MaxFaults = 1
SYMMETRY Symmetry
INVARIANTS
  TypeOK
  HandedOffIsLeftAlone
  ClaimSurvives
