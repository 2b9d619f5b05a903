SPECIFICATION Spec
CONSTANTS
  root = root
  child = child
  grand = grand
  NoTask = NoTask
  Task <- TaskDef
  Parent <- ParentDef
  Above <- AboveDef
  Deletable = {}
  Call = {c1, c2}
  Waiter = {w1}
  WaitSpawns = TRUE
  MaxSeq = 2
  MaxFaults = 1
SYMMETRY Symmetry
INVARIANTS
  NoLostWake
