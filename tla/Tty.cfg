SPECIFICATION FairSpec
CONSTANTS
  echo = echo
  writer = writer
  null = null
  Proc = {echo, writer, null}
  NullProc = null
  Sem <- MCSem
  Priority <- MCPriority
  FIFOSIZE = 2
  Labels = 4
  Modes <- MCModes
INVARIANTS TypeOK OutputInOrder InputInOrder SlotsAccounted NoStall RawQuietMeansIdle
PROPERTIES NoOverrun OutputProgress EmitCompletes
