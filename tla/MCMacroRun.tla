---------------------------- MODULE MCMacroRun ----------------------------
(***************************************************************************)
(* Instances of MacroRun: m1 sleeps, m2 nests m1 in a loop, m3 is not      *)
(* defined; in CodeForks m2 forks, halts and nests m1.                    *)
(***************************************************************************)
EXTENDS MacroRun

CONSTANTS cmd, tlm, null, m1, m2, m3

CodeLoops ==
  [m \in {m1, m2} |->
     IF m = m1 THEN <<Delay, End>> ELSE <<LoopBegin(2), Nest(m1), LoopEnd, End>>]
CodeForks ==
  [m \in {m1, m2} |->
     IF m = m1 THEN <<Delay, End>>
     ELSE <<Fork(m1, FALSE), LoopBegin(2), Halt(m1), LoopEnd, Nest(m1), End>>]

SilentAndEchoed == {[id |-> m1, echo |-> FALSE], [id |-> m2, echo |-> TRUE]}
Echoed == {[id |-> m2, echo |-> TRUE]}
EchoedOrUndefined == Echoed \cup {[id |-> m3, echo |-> TRUE]}

\* The loops of both are properly nested.
ASSUME NestsAssumption ==
  /\ Code = CodeLoops =>
       LoopsNest([m \in {m1, m2} |-> IF m = m1 THEN <<0, 0>> ELSE <<0, 1, 1, 0>>])
  /\ Code = CodeForks =>
       LoopsNest([m \in {m1, m2} |-> IF m = m1 THEN <<0, 0>> ELSE <<0, 0, 1, 1, 0, 0>>])

\* With the command process first, it is above the process that forks.
ASSUME AboveAssumption ==
  Priority = <<cmd, tlm, null>> => CommanderAbove

MCSem == {ContextAccess, Pulse, Message}
CommanderFirst == <<cmd, tlm, null>>
ForkerFirst == <<tlm, cmd, null>>
=============================================================================
