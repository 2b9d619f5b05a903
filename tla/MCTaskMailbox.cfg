SPECIFICATION Spec
CONSTANTS
  root = root
  child = child
  grand = grand
  NoTask = NoTask
  Task <- TaskDef
  Parent <- ParentDef
  Above <- AboveDef
  Deletable = {child, grand}
  Call = {c1, c2}
  Waiter = {}
  WaitSpawns = FALSE
  MaxSeq = 2
  MaxFaults = 2
SYMMETRY Symmetry
INVARIANTS
  TypeOK
  StreamIsKeyed
  AnsweredIsRecoverable
PROPERTIES
  CursorNeverRewinds
  KeptEventsAreUnread
