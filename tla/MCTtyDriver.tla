---------------------------- MODULE MCTtyDriver ----------------------------
(***************************************************************************)
(* Instances of TtyDriver: a process that echoes what it reads above one   *)
(* that writes of its own accord, the null process below both.             *)
(***************************************************************************)
EXTENDS TtyDriver

CONSTANTS echo, writer, null

MCSem == {OutFree, InChars}
MCPriority == <<echo, writer, null>>

Both(controls, interruptput) ==
  [writers |-> {writer}, echoers |-> {echo}, controls |-> controls, interruptput |-> interruptput]

(* Processes on a raw channel and on one with flow control, and interrupt  *)
(* routines that write while no process does.                              *)
MCModes ==
  { Both({}, FALSE), Both({XOFF, XON, KILL}, FALSE),
    [writers |-> {}, echoers |-> {}, controls |-> {}, interruptput |-> TRUE] }

FlowOnly == {Both({XOFF, XON}, FALSE)}
InterruptsToo == {Both({}, TRUE)}
=============================================================================
