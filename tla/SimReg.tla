------------------------------- MODULE SimReg -------------------------------
(***************************************************************************)
(* The study simreg.c: FRISC 3 with counts of the uses of every register.  *)
(* Its ALU is that of FRISC 3.                                             *)
(***************************************************************************)
EXTENDS FriscWord, SimCount

F == INSTANCE Frisc3

Regnames == DOMAIN StackRegs \cup DOMAIN ReturnRegs
              \cup {"U0", "U1", "U2", "U3", "IAR", "PSW", "ZERO", "NONE"}

Nextstate(x) == F!Nextstate(x)
Fetched(x) == IF x.portaddr \in DOMAIN x.mem THEN x.mem[x.portaddr] ELSE 1

Microalu(x) == F!Microalu(x)
Alu(x) == IF x.ir.type = "MICRO" THEN Microalu(x) ELSE F!Alu(x)

(* The register that was read or written is counted.                       *)
Used(x, reg) == [x EXCEPT !.stats.own[reg] = @ + 1]
Writereg(x, reg, v) == Used(F!Writereg(x, reg, v), reg)

Uses(u) ==
  u.S0 + u.S1 + u.S2 + u.S3 + u.R0 + u.R1 + u.R2 + u.R3
    + u.U0 + u.U1 + u.U2 + u.U3 + u.IAR + u.PSW + u.ZERO + u.NONE

(* Operands and next address of an instruction; its flag and destination.  *)
Operate(x) == F!Execphia(x)
Retire(x, u) ==
  LET y == F!Executed(x, u)
  IN  IF x.ir.type \in {"LAL", "LAH", "MICRO"} THEN Used(y, x.ir.reg2) ELSE y

-----------------------------------------------------------------------------
Execphia(x) == Operate(IF x.ir.type \in F!Operands THEN Used(x, x.ir.reg1) ELSE x)
Execphib(x) == Ticked(Executed(Retire(x, Alu(x))))

Loadphia(x) == F!Loadphia(x)
Loadphib(x) == Ticked([Nextstate(Writereg(x, x.oldir.reg2, Fetched(x))) EXCEPT !.phase = 1])
StoreUnused(x) == F!Storephia(x)
Storephia(x) == Used(F!Storephia(x), x.oldir.reg2)
Storephib(x) == Ticked([Nextstate(F!Storeexternal(x, x.portaddr, x.portvalue)) EXCEPT !.phase = 1])

-----------------------------------------------------------------------------
(* The other cycles of FRISC 3, each with its two phases.                  *)

Acknowledge(x) == IF x.phase = 1 THEN F!Ackphia(x) ELSE Ticked(F!Ackphib(x))
Rscycle(x) == IF x.phase = 1 THEN F!Rsphia(x) ELSE Ticked(F!Rsphib(x))
Pscycle(x) == IF x.phase = 1 THEN F!Psphia(x) ELSE Ticked(F!Psphib(x))

Othercycle(x) ==
  CASE x.state \in F!Acks -> Acknowledge(x) [] x.state \in F!Rscycles -> Rscycle(x)
    [] x.state \in F!Pscycles -> Pscycle(x)

Phia(x0) ==
  LET x == [x0 EXCEPT !.actualie = x0.ie] IN
  CASE x.state = "EXEC" -> Execphia(x) [] x.state = "LOAD" -> Loadphia(x)
    [] x.state = "STORE" -> Storephia(x) [] OTHER -> Othercycle(x)

Phib(x) ==
  Typed(CASE x.state = "EXEC" -> Execphib(x) [] x.state = "LOAD" -> Loadphib(x)
          [] x.state = "STORE" -> Storephib(x) [] OTHER -> Othercycle(x))

-----------------------------------------------------------------------------
(* Starting; a reset does not fetch.                                       *)

Startat(x, addr) == F!Startat(x, addr)
Resetregs(x) == [F!Resetregs(x) EXCEPT !.ir = 0, !.pcb = 0, !.portvalue = 0, !.stats.cycle = 0]
Clearstats(x) == [x EXCEPT !.stats = Cleared([reg \in Regnames |-> 0])]
Startup(mem) == Clearstats(F!Startup(mem))
Extint(x) == [x EXCEPT !.intpending = TRUE]

=============================================================================
