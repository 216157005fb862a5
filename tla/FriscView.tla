------------------------------ MODULE FriscView ------------------------------
(***************************************************************************)
(* What a program sees of a machine of FriscSim while it is simulated, and *)
(* what the instruction set promises to the program.                       *)
(***************************************************************************)
EXTENDS FriscSim

CONSTANTS
  Rbase, Pbase,  \* cells where the external stacks begin, growing down
  Cells          \* number of cells of code and data, below the stacks

VARIABLE view    \* what a program sees of the machine, see View

Pipelined == {"frisc4a", "frisc4b"}
Writebackof(a, x) ==
  CASE a = "frisc4a" -> F4a!Writeback(x) [] a = "frisc4b" -> F4b!Writeback(x)
    [] a = "frisc4c" -> F4c!Writeback(x) [] OTHER -> x
Fetchedof(a, x) == IF a \in Pipelined THEN x.irb ELSE x.ir

-----------------------------------------------------------------------------
(* The program's view of a machine, once the instruction in progress, its  *)
(* second cycle and any spilling have come to an end.                      *)

Unit(a) == IF a \in {"frisc4b", "frisc4c"} THEN 4 ELSE 1

AtBoundary(a, x) ==
  IF a = "frisc4c" THEN ~F4c!Stalled(x) /\ x.nextstate \in {"EXEC", "INT"}
  ELSE x.phase = 1 /\ x.state \in {"EXEC", "INT", "GRANT"}

RECURSIVE Finished(_, _)
Finished(a, x) ==
  IF AtBoundary(a, x) THEN x
  ELSE Finished(a, Phaseof(a, x))

Memoryof(a, x) == IF a = "frisc4c" THEN F4c!Settled(x) ELSE x.mem
Spilled(a, mem, stack, base) ==
  [i \in 1 .. base - stack.sp \div Unit(a) |-> mem[stack.sp \div Unit(a) + i - 1]]

(* The interrupt enable that the next change of state goes by.             *)
Deciding(x, y) ==
  IF AtBoundary("", x) THEN IF x.state = "INT" THEN x.actualie ELSE x.ie
  ELSE IF x.state = "INT" THEN y.ie ELSE y.actualie

Enables(a, x, y, w) ==
  CASE a = "frisc4c" -> <<w.ie>>
    [] a \in Pipelined -> <<w.ie, y.ie, Deciding(x, y)>>
    [] OTHER -> <<w.ie, Deciding(x, y)>>

Isaof(a) == IF a \in Studies \ {"simpipe"} THEN "frisc3" ELSE a

View(a, x) ==
  LET Seen(y, w, mem) ==
        [arch |-> Isaof(a), ir |-> Fetchedof(a, w),
         link |-> IF a = "frisc4c" THEN w.pc ELSE w.pcb, flag |-> w.flag,
         r |-> Logical(w.r, Spilled(a, mem, w.r, Rbase)),
         p |-> Logical(w.p, Spilled(a, mem, w.p, Pbase)),
         udr |-> w.udr, mem |-> [c \in 0 .. Cells - 1 |-> mem[c]], ies |-> Enables(a, x, y, w)]
      Written(y, w) == Seen(y, w, Memoryof(a, w))
      Rested(y) == Written(y, Writebackof(a, y))
  IN  Rested(Finished(a, x))

-----------------------------------------------------------------------------
(* The machine goes on, and the view follows it.                           *)
Follows == view' = View(arch, m')

ViewInit == Init /\ view = View(arch, m)
ViewNext ==
  \/ Phia /\ Follows
  \/ Phib /\ Follows
  \/ \E n \in Intnumbers : (Inton(n) \/ Intoff(n)) /\ Follows
  \/ Dmastart /\ Follows
  \/ Dmaend /\ Follows

ViewSpec == ViewInit /\ [][ViewNext]_<<vars, view>> /\ Fairness

-----------------------------------------------------------------------------
(* The machine implements the instruction set.                             *)
Isa == INSTANCE FriscIsa WITH s <- view

Refines == Isa!Spec

(* An edge that is latched on a line with its mask bit set is answered in  *)
(* the end, if the program keeps enabling interrupts: neither spilling,    *)
(* nor stalls, nor DMA, nor another line that stays active hold it off.    *)
Latched ==
  IF arch \in {"frisc3"} \cup Studies THEN IF m.intpending THEN {1} ELSE {}
  ELSE m.edge \cap m.mask \cap m.mode
Enabled == view.ies[Len(view.ies)]
Answered ==
  arch \notin Studies =>
    ([]<>Enabled => \A n \in Intnumbers : (n \in Latched) ~> (n \notin Latched))

=============================================================================
