------------------------------- MODULE SimQbr -------------------------------
(***************************************************************************)
(* The study simqbr.c: FRISC 3 with counts of the conditional branches     *)
(* that are taken and of those whose target could move into a slot after   *)
(* the branch.                                                             *)
(***************************************************************************)
EXTENDS FriscWord, SimCount

F == INSTANCE Frisc3

Nextstate(x) == F!Nextstate(x)
Fetched(x) == IF x.portaddr \in DOMAIN x.mem THEN x.mem[x.portaddr] ELSE 1

(* A step that does not add does not touch the carry.                      *)
StepSum(i, flag, a, b) ==
  CASE i.step = "STEPB" -> Plain(b)
    [] i.step = "DIV1" -> Addop(b, Com(a), Carry(i.cin, flag))
    [] i.step = "DIV2" -> IF flag = 0 THEN Addop(a, b, Carry(i.cin, flag)) ELSE Plain(b)
    [] i.step = "MUL" -> IF flag = 1 THEN Addop(a, b, Carry(i.cin, flag)) ELSE Plain(b)

Microalu(x) == F!Computed(x, StepSum)

Alu(x) == IF x.ir.type = "MICRO" THEN Microalu(x) ELSE F!Alu(x)

(* Operands and next address of an instruction; its flag and destination.  *)
Operate(x) == F!Execphia(x)
Retire(x, u) == F!Executed(x, u)

-----------------------------------------------------------------------------
Execphia(x) == Operate(x)

(* Only instructions of types above MICRO count as fillable.               *)
Filling(i) == i.type \in {"LOAD", "STORE", "LAL", "LAH"} /\ ~i.ret
BranchedLate(x) ==
  IF x.ir.type = "QBRANCH" /\ x.flag = 0 THEN [x EXCEPT !.stats.own.branchtaken = @ + 1] ELSE x
Branched(x) ==
  IF x.oldir.type = "QBRANCH" /\ x.flag = 0
  THEN [x EXCEPT !.stats.own.branchtaken = @ + 1, !.stats.own.fillable = @ + Bit(Filling(x.ir))]
  ELSE x

Execphib(x) == Ticked(Branched(Executed(Retire(x, Alu(x)))))

Loadphia(x) == F!Loadphia(x)
Loadphib(x) == Ticked([Nextstate(F!Writereg(x, x.oldir.reg2, Fetched(x))) EXCEPT !.phase = 1])
Storephia(x) == F!Storephia(x)
Storephib(x) == Ticked([Nextstate(F!Storeexternal(x, x.portaddr, x.portvalue)) EXCEPT !.phase = 1])

-----------------------------------------------------------------------------
(* The other cycles of FRISC 3, each with its two phases.                  *)

Acknowledge(x) == IF x.phase = 1 THEN F!Ackphia(x) ELSE Ticked(F!Ackphib(x))
Rscycle(x) == IF x.phase = 1 THEN F!Rsphia(x) ELSE Ticked(F!Rsphib(x))
Pscycle(x) == IF x.phase = 1 THEN F!Psphia(x) ELSE Ticked(F!Psphib(x))

Othercycle(x) ==
  CASE x.state \in F!Acks -> Acknowledge(x) [] x.state \in F!Rscycles -> Rscycle(x)
    [] x.state \in F!Pscycles -> Pscycle(x)

Phia(x0) ==
  LET x == [x0 EXCEPT !.actualie = x0.ie] IN
  CASE x.state = "EXEC" -> Execphia(x) [] x.state = "LOAD" -> Loadphia(x)
    [] x.state = "STORE" -> Storephia(x) [] OTHER -> Othercycle(x)

Phib(x) ==
  Typed(CASE x.state = "EXEC" -> Execphib(x) [] x.state = "LOAD" -> Loadphib(x)
          [] x.state = "STORE" -> Storephib(x) [] OTHER -> Othercycle(x))

-----------------------------------------------------------------------------
(* Starting; a reset does not fetch.                                       *)

Startat(x, addr) == F!Startat(x, addr)
Resetregs(x) == [F!Resetregs(x) EXCEPT !.ir = 0, !.pcb = 0, !.portvalue = 0, !.stats.cycle = 0]
Clearstats(x) == [x EXCEPT !.stats = Cleared([branchtaken |-> 0, fillable |-> 0])]
Startup(mem) == Clearstats(F!Startup(mem))
Extint(x) == [x EXCEPT !.intpending = TRUE]

=============================================================================
