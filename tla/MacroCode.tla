------------------------------ MODULE MacroCode ------------------------------
(***************************************************************************)
(* What the commands of a macro do to the context that runs it             *)
(* (chips/instr/lib16/macro1.fr).  Macro object code is fixed here: Code   *)
(* gives the commands of every defined macro.  The compiler that makes the *)
(* code is modelled by MacroComp.                                          *)
(*                                                                         *)
(* A thread is a record with the fields that the run-time of a macro       *)
(* changes: id, state, pc and stack.                                       *)
(***************************************************************************)
EXTENDS Integers, Sequences

CONSTANTS MacroId,    \* identifiers of macros
          Code        \* commands of each defined macro

NoMacro == "none"     \* no macro

Unused == "unused"
Run == "run"
Sleep == "sleep"

Delay == [op |-> "delay"]
End == [op |-> "end"]
LoopEnd == [op |-> "loop-end"]
Other == [op |-> "other"]           \* a command of another module
Garbage == [op |-> "garbage"]       \* bytes that nobody compiled
LoopBegin(n) == [op |-> "loop-begin", count |-> n]
Nest(m) == [op |-> "nest", id |-> m]
Fork(m, e) == [op |-> "run", id |-> m, echo |-> e]
Halt(m) == [op |-> "halt", id |-> m]

CellSize == 65536     \* a cell has 16 bits
Counts == 0..CellSize - 1
Command ==
  [op : {"delay", "end", "loop-end", "other"}] \cup [op : {"loop-begin"}, count : Counts]
    \cup [op : {"nest", "halt"}, id : MacroId]
    \cup [op : {"run"}, id : MacroId, echo : BOOLEAN]

Defined == DOMAIN Code

\* end-macro-comp appends an end command to every macro.
ASSUME CodeAssumption ==
  /\ Defined \subseteq MacroId
  /\ \A m \in Defined :
       Code[m] \in Seq(Command) /\ Len(Code[m]) > 0 /\ Code[m][Len(Code[m])] = End

\* A program counter: a macro and the position of a command in it, or some
\* other place (Astray).
MacroStart(m) == [macro |-> m, at |-> 1]
Astray == [macro |-> "astray", at |-> 0]
InCode(pc) == pc.macro \in Defined /\ pc.at \in DOMAIN Code[pc.macro]
MacroStep(pc) == IF InCode(pc) THEN [pc EXCEPT !.at = @ + 1] ELSE Astray
CommandAt(pc) == IF InCode(pc) THEN Code[pc.macro][pc.at] ELSE Garbage

NewThread(m) == [id |-> m, state |-> Run, pc |-> MacroStart(m), stack |-> <<>>]

\* The cells of a context's stack: a program counter takes two.
Pc == [macro : MacroId \cup {"astray"}, at : Nat]
Cell == [half : {1, 2}, of : Pc] \cup [count : Counts]
PcCells(pc) == <<[half |-> 1, of |-> pc], [half |-> 2, of |-> pc]>>
ToPc(a, b) ==
  IF "half" \in DOMAIN a /\ "half" \in DOMAIN b /\ a.half = 1 /\ b.half = 2
  THEN a.of ELSE Astray

Top(s, n) == s[Len(s) - n]
Pop(s, n) == SubSeq(s, 1, Len(s) - n)

NestMacro(t, m) ==
  [t EXCEPT !.stack = @ \o PcCells(t.pc), !.pc = MacroStart(m)]

\* Mutant of EndMacro: it does not return to the nesting macro.
EndUnreturned(t) ==
  IF t.stack = <<>> THEN [t EXCEPT !.state = Unused] ELSE [t EXCEPT !.stack = Pop(@, 2)]

EndMacro(t) ==
  IF t.stack = <<>> THEN [t EXCEPT !.state = Unused]
  ELSE [t EXCEPT !.pc = ToPc(Top(t.stack, 1), Top(t.stack, 0)), !.stack = Pop(@, 2)]

LoopMacro(t, n) == [t EXCEPT !.stack = @ \o PcCells(t.pc) \o <<[count |-> n]>>]

\* The counter is decremented before it is tested: 0 repeats 65536 times.
UnloopMacro(t) ==
  LET left == (Top(t.stack, 0).count - 1) % CellSize IN
  IF left # 0
  THEN [t EXCEPT !.stack[Len(t.stack)] = [count |-> left],
                 !.pc = ToPc(Top(t.stack, 2), Top(t.stack, 1))]
  ELSE [t EXCEPT !.stack = Pop(@, 3)]

(* What command o does to the thread that executes it; the program counter *)
(* is already past the command (macro-load).                               *)
Execute(t, o) ==
  CASE o.op = "nest" /\ o.id \in Defined -> NestMacro(t, o.id)
    [] o.op = "end" -> EndMacro(t)
    [] o.op = "loop-begin" -> LoopMacro(t, o.count)
    [] o.op = "loop-end" -> UnloopMacro(t)
    [] o.op = "delay" -> [t EXCEPT !.state = Sleep]
    [] OTHER -> t

\* macro-load and the execution of the command it loads.
Loaded(t) == [t EXCEPT !.pc = MacroStep(@)]
AfterCommand(t) == Execute(Loaded(t), CommandAt(t.pc))
-----------------------------------------------------------------------------
(* What is asked of those who write macros, since no word of the compiler  *)
(* checks it: loops are properly nested in each macro.  depth gives the    *)
(* number of loops open at each command.                                   *)
LoopsNest(depth) ==
  \A m \in Defined :
    /\ depth[m] \in [1..Len(Code[m]) -> Nat] /\ depth[m][1] = 0
    /\ \A i \in 1..Len(Code[m]) :
         LET o == Code[m][i].op
             d == depth[m][i]
         IN  /\ o = "end" => d = 0
             /\ o = "loop-end" => d > 0
             /\ i < Len(Code[m]) =>
                  depth[m][i + 1] = CASE o = "loop-begin" -> d + 1
                                      [] o = "loop-end" -> d - 1
                                      [] OTHER -> d
=============================================================================
