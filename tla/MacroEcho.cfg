SPECIFICATION Spec
CONSTANTS
  cmd = cmd
  tlm = tlm
  null = null
  m1 = m1
  m2 = m2
  m3 = m3
  Proc = {cmd, tlm, null}
  NullProc = null
  Sem <- MCSem
  Priority <- CommanderFirst
  Commander = cmd
  Forkers = {tlm}
  Requests <- SilentAndEchoed
  NContexts = 2
  MacroId = {m1, m2, m3}
  Code <- CodeLoops
INVARIANTS EchoAsForked
