SPECIFICATION Spec
CONSTANTS
  W = 4
  N = 6
INVARIANTS Multiplied Divided Compared Normalised
CHECK_DEADLOCK FALSE
