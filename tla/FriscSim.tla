------------------------------ MODULE FriscSim -------------------------------
(***************************************************************************)
(* The simulators of src/chips/sim at work: phases of the processor, with  *)
(* interrupts and DMA requests between any two of them, as the commands    *)
(* inton, intoff, dmastart, dmaend and s of the simulator give them.  What *)
(* a program sees of a machine is in FriscView.                            *)
(***************************************************************************)
EXTENDS FriscCache

CONSTANTS
  Scenarios,     \* records of an arch, a program and the inputs it may get
  Intnumbers,    \* interrupts that may come
  Maxcycles,     \* cycles after which a study ends, since it counts them
  Boot(_)        \* the machine of a scenario after its first instructions

VARIABLES
  arch,          \* which processor
  m,             \* the machine
  left           \* inputs still to come: interrupts on, off, DMA requests

vars == <<arch, m, left>>

F3 == INSTANCE Frisc3
F4 == INSTANCE Frisc4
F4a == INSTANCE Frisc4a
F4b == INSTANCE Frisc4b WITH Unit <- 4
Sreg == INSTANCE SimReg
Spipe == INSTANCE SimPipe
Sqbr == INSTANCE SimQbr
Sldst == INSTANCE SimLdst

Studies == {"simreg", "simpipe", "simqbr", "simldst"}

(* One phase of a processor; the 4c knows only whole cycles.               *)
Phiaof(a, x) ==
  CASE a = "frisc3" -> F3!Phia(x)   [] a = "frisc4" -> F4!Phia(x)
    [] a = "frisc4a" -> F4a!Phia(x) [] a = "frisc4b" -> F4b!Phia(x)
    [] a = "frisc4c" -> F4c!Singlestep(x)
    [] a = "simreg" -> Sreg!Phia(x) [] a = "simpipe" -> Spipe!Phia(x)
    [] a = "simqbr" -> Sqbr!Phia(x) [] a = "simldst" -> Sldst!Phia(x)
Phibof(a, x) ==
  CASE a = "frisc3" -> F3!Phib(x)   [] a = "frisc4" -> F4!Phib(x)
    [] a = "frisc4a" -> F4a!Phib(x) [] a = "frisc4b" -> F4b!Phib(x)
    [] a = "simreg" -> Sreg!Phib(x) [] a = "simpipe" -> Spipe!Phib(x)
    [] a = "simqbr" -> Sqbr!Phib(x) [] a = "simldst" -> Sldst!Phib(x)
Phaseof(a, x) == IF x.phase = 1 THEN Phiaof(a, x) ELSE Phibof(a, x)
Interruptonof(a, x, n) ==
  CASE a \in {"frisc3"} \cup Studies -> F3!Interrupton(x, n) [] a = "frisc4c" -> F4c!Interrupton(x, n)
    [] OTHER -> F4!Interrupton(x, n)
Interruptoffof(a, x, n) ==
  CASE a \in {"frisc3"} \cup Studies -> F3!Interruptoff(x, n) [] a = "frisc4c" -> F4c!Interruptoff(x, n)
    [] OTHER -> F4!Interruptoff(x, n)

-----------------------------------------------------------------------------
Init ==
  \E c \in Scenarios :
    \E x \in {Boot(c)} :
      /\ arch = c.arch
      /\ m = x
      /\ left = c.left

Becomes(x) == m' = x /\ UNCHANGED arch

Goeson == arch \in Studies => m.stats.cycle < Maxcycles

Phia == Goeson /\ m.phase = 1 /\ Becomes(Phiaof(arch, m)) /\ UNCHANGED left
Phib == m.phase = 2 /\ Becomes(Phibof(arch, m)) /\ UNCHANGED left

Inton(n) ==
  /\ left.on > 0
  /\ Becomes(Interruptonof(arch, m, n))
  /\ left' = [left EXCEPT !.on = @ - 1]

Intoff(n) ==
  /\ left.off > 0
  /\ Becomes(Interruptoffof(arch, m, n))
  /\ left' = [left EXCEPT !.off = @ - 1]

Dmastart ==
  /\ left.dma > 0 /\ ~m.busrequest
  /\ Becomes(F3!Dmastart(m))
  /\ left' = [left EXCEPT !.dma = @ - 1]

Dmaend == m.busrequest /\ Becomes(F3!Dmaend(m)) /\ UNCHANGED left

Next ==
  \/ Phia
  \/ Phib
  \/ \E n \in Intnumbers : Inton(n) \/ Intoff(n)
  \/ Dmastart
  \/ Dmaend

(* The simulator goes on, unless it is a study at its end, and a device    *)
(* gives the bus back.  This is weak fairness of Phia \/ Phib, which are    *)
(* always enabled and change Clock, and of Dmaend, written so that TLC     *)
(* need not compute the machine once more to check it.                     *)
Clock == IF arch = "frisc4c" THEN <<m.pc, m.state, m.iostate, m.biu, m.count>> ELSE <<m.phase>>
Fairness == (arch \notin Studies => []<><<UNCHANGED left>>_Clock) /\ []<>~m.busrequest

Spec == Init /\ [][Next]_vars /\ Fairness

-----------------------------------------------------------------------------
TypeOK ==
  /\ m.phase \in {1, 2}
  /\ \A stack \in {m.r, m.p} :
       stack.top \in Slots /\ stack.over \in Slots /\ stack.under = (stack.over + 4) % N

(* FRISC 4c: whatever comes between an instruction and the next, the       *)
(* processor meets nothing but instructions and numbers, and never stores  *)
(* around the cache to a cell that the cache has.                          *)
Wellused == arch = "frisc4c" => Wellbehaved(m)

(* FRISC 4c: between accesses, what the cache has of a block is what the   *)
(* memory has, or will have when the bus has done its pending write.       *)
CacheCoherent ==
  (arch = "frisc4c" /\ m.iostate = "local") =>
    \A i \in DOMAIN m.tagram :
      \A j \in m.tagram[i].present :
        LET cell == Nsub * (Nsets * m.tagram[i].tag + i) + j
        IN  m.dataram[Nsub * i + j] = F4c!Settled(m)[cell]

-----------------------------------------------------------------------------
(* What a study has counted agrees with what it has executed: every cycle  *)
(* has a type, every cycle of type EXEC executed an instruction or, in     *)
(* simpipe, stands for a slot or a load that could not be overlapped, and  *)
(* second cycles follow the first ones, whatever spilling, interrupts and  *)
(* DMA come between.  This is of cycles that are simulated: the command    *)
(* wait adds one without a type, and a reset in the middle of a run clears *)
(* some of the counters only.                                              *)
Done(i) == m.stats.instrtypes[i]
Typed(c) == m.stats.cycletypes[c]
In(c) == Bit(m.state = c)
Overlapless ==
  IF arch # "simpipe" THEN 0
  ELSE (Done("COLON") - m.stats.own.filledslots)
         + (Done("LOAD") - In("LOAD") - m.stats.own.loadindependent)

CyclesAccounted ==
  arch \in Studies =>
    /\ m.stats.cycle = Sreg!Cycles(m.stats.cycletypes)
    /\ Typed("EXEC") + 1 = Sreg!Instructions(m.stats.instrtypes) + In("EXEC") + Overlapless
    /\ Typed("LOAD") = Done("LOAD") /\ Typed("STORE") = Done("STORE")
    /\ Typed("RSDEC") = Typed("RSSTORE") + In("RSDEC")
    /\ Typed("PSDEC") = Typed("PSSTORE") + In("PSDEC")
    /\ Typed("RSLOAD") = Typed("RSINC") + In("RSLOAD")
    /\ Typed("PSLOAD") = Typed("PSINC") + In("PSLOAD")

(* simreg counts two registers for every instruction with operands, the    *)
(* one it reads and the one it writes, loads or stores, once each even     *)
(* when the second cycle comes late.                                       *)
UsesAccounted ==
  arch = "simreg" =>
    LET reading == Bit(m.phase = 2 /\ m.state = "EXEC" /\ m.ir.type \in F3!Operands)
        second == Bit(m.state = "LOAD" \/ (m.state = "STORE" /\ m.phase = 1))
        operated == Done("MICRO") + Done("LOAD") + Done("STORE") + Done("LAL") + Done("LAH")
    IN  Sreg!Uses(m.stats.own) = 2 * operated + reading - second

(* simqbr counts a branch as taken, which it tells from the flag at the    *)
(* end of the instruction, when the program counter has gone to the        *)
(* destination, which the start of the instruction decides.                *)
TakenCounted ==
  [][arch = "simqbr" =>
       (m'.stats.own.branchtaken # m.stats.own.branchtaken) =
         (/\ m.phase = 2 /\ m'.phase = 1 /\ m.state = "EXEC" /\ m.ir.type = "QBRANCH"
          /\ m'.pcb # Cell(m.pcb + 1))]_vars

=============================================================================
