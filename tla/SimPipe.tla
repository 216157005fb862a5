------------------------------- MODULE SimPipe ------------------------------
(***************************************************************************)
(* The study simpipe.c: what FRISC 3 would cost with a pipeline.  A call   *)
(* whose slot is not filled, and a load whose value the next instruction   *)
(* needs, count as two cycles.  A bit of the address of a call says that   *)
(* its slot is not filled.  Its ALU is that of SimQbr.                     *)
(***************************************************************************)
EXTENDS FriscWord, SimCount

F == INSTANCE Frisc3
Q == INSTANCE SimQbr

Nextstate(x) == F!Nextstate(x)
Fetched(x) == IF x.portaddr \in DOMAIN x.mem THEN x.mem[x.portaddr] ELSE 1

Microalu(x) == Q!Microalu(x)
Alu(x) == IF x.ir.type = "MICRO" THEN Microalu(x) ELSE F!Alu(x)

Operate(x) == F!Execphia(x)
Retire(x, u) == F!Executed(x, u)

-----------------------------------------------------------------------------
Execphia(x) ==
  LET y == Operate(x)   a == Unslotted(y.pca) IN [y EXCEPT !.portaddr = a, !.pca = a]

(* A cycle of type EXEC more, for what could not be overlapped.            *)
StalledUntimed(x) == [x EXCEPT !.stats.cycletypes.EXEC = @ + 1]
Stalled(x) == [x EXCEPT !.stats.cycle = @ + 1, !.stats.cycletypes.EXEC = @ + 1]

Called(x) ==
  IF x.oldir.type # "COLON" THEN x
  ELSE IF Slotempty(x.oldir.dest) THEN Stalled(x)
  ELSE [x EXCEPT !.stats.own.filledslots = @ + 1]

Execphib(x) == Ticked(Called(Executed(Retire(x, Alu(x)))))

(* The next instruction uses the register that is loaded.  A register has *)
(* the same code as a source and as a destination (sim/masks3.h:29-63).    *)
Dependent(i, reg) ==
  \/ i.type = "MICRO" /\ reg = "S0"
  \/ i.type \in F!Operands /\ reg = i.reg1
Overlapped(x) ==
  IF Dependent(x.ir, x.oldir.reg2) THEN Stalled(x)
  ELSE [x EXCEPT !.stats.own.loadindependent = @ + 1]

Loadphia(x) == F!Loadphia(x)
Loadphib(x) ==
  Ticked([Nextstate(Overlapped(F!Writereg(x, x.oldir.reg2, Fetched(x)))) EXCEPT !.phase = 1])
Storephia(x) == F!Storephia(x)
Storephib(x) == Ticked([Nextstate(F!Storeexternal(x, x.portaddr, x.portvalue)) EXCEPT !.phase = 1])

-----------------------------------------------------------------------------
(* The other cycles of FRISC 3, each with its two phases.                  *)

Acknowledge(x) == IF x.phase = 1 THEN F!Ackphia(x) ELSE Ticked(F!Ackphib(x))
Rscycle(x) == IF x.phase = 1 THEN F!Rsphia(x) ELSE Ticked(F!Rsphib(x))
Pscycle(x) == IF x.phase = 1 THEN F!Psphia(x) ELSE Ticked(F!Psphib(x))

Othercycle(x) ==
  CASE x.state \in F!Acks -> Acknowledge(x) [] x.state \in F!Rscycles -> Rscycle(x)
    [] x.state \in F!Pscycles -> Pscycle(x)

Phia(x0) ==
  LET x == [x0 EXCEPT !.actualie = x0.ie] IN
  CASE x.state = "EXEC" -> Execphia(x) [] x.state = "LOAD" -> Loadphia(x)
    [] x.state = "STORE" -> Storephia(x) [] OTHER -> Othercycle(x)

Phib(x) ==
  Typed(CASE x.state = "EXEC" -> Execphib(x) [] x.state = "LOAD" -> Loadphib(x)
          [] x.state = "STORE" -> Storephib(x) [] OTHER -> Othercycle(x))

-----------------------------------------------------------------------------
(* Starting; a reset does not fetch.                                       *)

Startat(x, addr) == F!Startat(x, addr)
Resetregs(x) == [F!Resetregs(x) EXCEPT !.ir = 0, !.pcb = 0, !.portvalue = 0, !.stats.cycle = 0]
Clearstats(x) == [x EXCEPT !.stats = Cleared([filledslots |-> 0, loadindependent |-> 0])]
Startup(mem) == Clearstats(F!Startup(mem))
Extint(x) == [x EXCEPT !.intpending = TRUE]

=============================================================================
