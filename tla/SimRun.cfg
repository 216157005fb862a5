SPECIFICATION Spec
CONSTANTS
  W = 16
  N = 8
  Counts = {1, 2, 3}
  Addresses = {2}
  Times = {0, 1, 2}
  Maxcycles = 12
  Boot <- MCBoot
INVARIANTS StopsAtLast
CHECK_DEADLOCK FALSE
