------------------------------- MODULE SimLdst ------------------------------
(***************************************************************************)
(* The study simldst.c: FRISC 3 with counts of the loads and of the stores *)
(* that have an offset.  Its ALU is that of SimQbr.                        *)
(***************************************************************************)
EXTENDS FriscWord, SimCount

F == INSTANCE Frisc3
Q == INSTANCE SimQbr

Nextstate(x) == F!Nextstate(x)
Fetched(x) == IF x.portaddr \in DOMAIN x.mem THEN x.mem[x.portaddr] ELSE 1

Microalu(x) == Q!Microalu(x)
Alu(x) == IF x.ir.type = "MICRO" THEN Microalu(x) ELSE F!Alu(x)

(* Operands and next address of an instruction; its flag and destination.  *)
Operate(x) == F!Execphia(x)
Retire(x, u) == F!Executed(x, u)

-----------------------------------------------------------------------------
Execphia(x) == Operate(x)
Execphib(x) == Ticked(Executed(Retire(x, Alu(x))))

Offset(x) == Bit(x.oldir.offset # 0)
Loadphia(x) == F!Loadphia(x)
Loadphib(x) ==
  LET y == [x EXCEPT !.stats.own.loadusedmode = @ + Offset(x)]
  IN  Ticked([Nextstate(F!Writereg(y, x.oldir.reg2, Fetched(x))) EXCEPT !.phase = 1])
Storephia(x) == F!Storephia(x)
Storephib(x) ==
  LET y == [x EXCEPT !.stats.own.storeusedmode = @ + Offset(x)]
  IN  Ticked([Nextstate(F!Storeexternal(y, x.portaddr, x.portvalue)) EXCEPT !.phase = 1])

-----------------------------------------------------------------------------
(* The other cycles of FRISC 3, each with its two phases.                  *)

Acknowledge(x) == IF x.phase = 1 THEN F!Ackphia(x) ELSE Ticked(F!Ackphib(x))
Rscycle(x) == IF x.phase = 1 THEN F!Rsphia(x) ELSE Ticked(F!Rsphib(x))
Pscycle(x) == IF x.phase = 1 THEN F!Psphia(x) ELSE Ticked(F!Psphib(x))

Othercycle(x) ==
  CASE x.state \in F!Acks -> Acknowledge(x) [] x.state \in F!Rscycles -> Rscycle(x)
    [] x.state \in F!Pscycles -> Pscycle(x)

Phia(x0) ==
  LET x == [x0 EXCEPT !.actualie = x0.ie] IN
  CASE x.state = "EXEC" -> Execphia(x) [] x.state = "LOAD" -> Loadphia(x)
    [] x.state = "STORE" -> Storephia(x) [] OTHER -> Othercycle(x)

Phib(x) ==
  Typed(CASE x.state = "EXEC" -> Execphib(x) [] x.state = "LOAD" -> Loadphib(x)
          [] x.state = "STORE" -> Storephib(x) [] OTHER -> Othercycle(x))

-----------------------------------------------------------------------------
(* Starting; a reset does not fetch.                                       *)

Startat(x, addr) == F!Startat(x, addr)
Resetregs(x) == [F!Resetregs(x) EXCEPT !.ir = 0, !.pcb = 0, !.portvalue = 0, !.stats.cycle = 0]
Clearstats(x) == [x EXCEPT !.stats = Cleared([loadusedmode |-> 0, storeusedmode |-> 0])]
Startup(mem) == Clearstats(F!Startup(mem))
Extint(x) == [x EXCEPT !.intpending = TRUE]

=============================================================================
