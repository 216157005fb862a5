SPECIFICATION Spec
CONSTANTS
  m1 = m1
  m2 = m2
  MacroId = {m1, m2}
  NBlocks = 3
  BlockSize = 3
  Commands <- ShortAndLong
  MaxLen = 9
  ArchiveWhen = {FALSE}
SYMMETRY MacroSymmetry
INVARIANTS TypeOK OneOwner FreeCounted TailsLast MacrosAsTaught
PROPERTIES ReusedLast
