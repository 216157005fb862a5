SPECIFICATION ViewSpec
CONSTANTS
  W = 16
  N = 8
  Intnumbers = {1, 4}
  Rbase = 56
  Pbase = 68
  Cells = 45
  Lowtop = 415
  Rombase = 512
  Iobase = 1024
  Tagbase = 2048
  Region = 128
  Nsets = 2
  Nsub = 2
  Maxcycles = 60
  Scenarios <- MCScenarios
  Boot <- MCBoot
INVARIANTS TypeOK Wellused CacheCoherent CyclesAccounted UsesAccounted
PROPERTIES Refines Answered TakenCounted
CHECK_DEADLOCK FALSE
