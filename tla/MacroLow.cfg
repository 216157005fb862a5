SPECIFICATION FairSpec
CONSTANTS
  cmd = cmd
  tlm = tlm
  null = null
  m1 = m1
  m2 = m2
  m3 = m3
  Proc = {cmd, tlm, null}
  NullProc = null
  Sem <- MCSem
  Priority <- CommanderFirst
  Commander = cmd
  Forkers = {tlm}
  Requests <- EchoedOrUndefined
  NContexts = 2
  MacroId = {m1, m2, m3}
  Code <- CodeForks
INVARIANTS TypeOK ForksApart StartsAtBeginning RunningValid StaysInCode
PROPERTIES OwnThreads CommandGoesOn
