SPECIFICATION Spec
CONSTANTS
  def = def
  null = null
  p1 = p1
  p2 = p2
  p3 = p3
  s1 = s1
  s2 = s2
  Proc = {def, null, p1, p2, p3}
  NullProc = null
  DefProc = def
  Sem = {s1, s2}
  Restartable = {p1, p2, p3}
  Killable = {p1, p2}
  Suicidal = {p2, p3}
  MaxCount = 1
  MaxOrphan = 1
SYMMETRY SemSymmetry
\* The null process may be all that is left, with every semaphore at its bound.
CHECK_DEADLOCK FALSE
INVARIANTS TypeOK Accounting HighestRuns NoWildSearch
PROPERTIES PreemptUpwards WakeInOrder
