----------------------------- MODULE FriscCache ------------------------------
(***************************************************************************)
(* The FRISC 4c of the simulators, with its memory and its cache: apart    *)
(* from the others, since what is proved about it needs nothing else.      *)
(***************************************************************************)
EXTENDS FriscWord

CONSTANTS
  Lowtop, Rombase, Iobase, Tagbase, Region,  \* memory, see Bus4c
  Nsets, Nsub                                \* blocks of the cache, cells of a block

(* The cache has blocks and cells, and the parts of the address map come   *)
(* in this order.                                                          *)
ASSUME CacheAssumption ==
  /\ Nsets \in Nat \ {0} /\ Nsub \in Nat \ {0}
  /\ Lowtop \in Nat /\ Rombase \in Nat /\ Iobase \in Nat /\ Tagbase \in Nat
  /\ Lowtop < Rombase /\ Rombase < Iobase /\ Iobase < Tagbase

F4c == INSTANCE Frisc4c

-----------------------------------------------------------------------------
(* What the processor asks of a program.                                   *)

Coprocessor == {"U0", "U1", "U2", "U3"}
Regs == DOMAIN F4c!StackRegs \cup DOMAIN F4c!ReturnRegs \cup {"IAR", "PSW", "ZERO", "Y"}
          \cup Coprocessor

(* A word that is an instruction.                                          *)
Legal4c(i) ==
  /\ i.type \in F4c!Flows \cup F4c!Operands
  /\ i.type \in F4c!Operands => i.reg2 \in Regs

(* The access of the next cycle: a stalled data path still asks for what   *)
(* it asked for before.  The machine as a store finds it.                  *)
Asked(x) == IF F4c!Stalled(x) THEN x ELSE F4c!Dpphia(x)
Writtenback(x) == F4c!Writeback([x EXCEPT !.state = x.nextstate])

(* No store to a cell that the cache has goes around the cache.            *)
Through(x) == ~x.read /\ x.abus <= Lowtop /\ F4c!Present(x, x.abus) => F4c!Cached(x)

Wellbehaved(x) ==
  /\ Legal4c(x.ir)
  /\ Asked(x).abus \in Nat
  /\ ~F4c!Stalled(x) /\ x.nextstate = "STORE" =>
       F4c!Readreg(Writtenback(x), x.oldir.reg2) \in Int
  /\ Through(Asked(x))

=============================================================================
