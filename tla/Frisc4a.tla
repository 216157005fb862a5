------------------------------- MODULE Frisc4a -------------------------------
(***************************************************************************)
(* The FRISC 4a processor, as src/chips/sim/fsim4a.c simulates it: the     *)
(* pipeline of Frisc4b with addresses that count cells, branches to whole  *)
(* cells and no byte instructions.                                         *)
(***************************************************************************)
EXTENDS FriscWord

A == INSTANCE FriscAlu
F4 == INSTANCE Frisc4
P == INSTANCE Frisc4b WITH Unit <- 1

Operands == F4!Operands
Flows == F4!Flows
Fetchexternal(x, a) == P!Fetchexternal(x, a)
Storeexternal(x, a, v) == P!Storeexternal(x, a, v)

Interrupton(x, n) == F4!Interrupton(x, n)
Interruptoff(x, n) == F4!Interruptoff(x, n)
Interruptpending(x) == F4!Interruptpending(x)
Interruptvector(x) == F4!Interruptvector(x)
Nextstate(x) == P!Nextstate(x)
Next(x) == [Nextstate([x EXCEPT !.pcb = Cell(x.pca + 1)]) EXCEPT !.phase = 1]

Readreg(x, reg) == P!Readreg(x, reg)
Writereg(x, reg, v) == P!Writereg(x, reg, v)

-----------------------------------------------------------------------------
(* Write back of the result of the previous cycle.                         *)

Aluwriteback(x) == Writereg(x, x.oldir.reg2, x.aluout)
Shiftwriteback(x) == Writereg(x, x.oldir.reg2, x.barrelout)
Aluwritebacktor(x) == P!Aluwritebacktor(x)
Loadwriteback(x) == Writereg(x, x.oldir.reg2, x.dhold)
Rsunderflowwriteback(x) == P!Rsunderflowwriteback(x)
Psunderflowwriteback(x) == P!Psunderflowwriteback(x)

Writeback(x) ==
  CASE x.writeback = "Nop" -> x
    [] x.writeback = "Aluwriteback" -> Aluwriteback(x)
    [] x.writeback = "Shiftwriteback" -> Shiftwriteback(x)
    [] x.writeback = "Aluwritebacktor" -> Aluwritebacktor(x)
    [] x.writeback = "Loadwriteback" -> Loadwriteback(x)
    [] x.writeback = "Rsunderflowwriteback" -> Rsunderflowwriteback(x)
    [] x.writeback = "Psunderflowwriteback" -> Psunderflowwriteback(x)

-----------------------------------------------------------------------------
(* Execution: the next address in phase a, everything else in phase b.     *)

Asrca(x) ==
  CASE x.irb.type \in {"COLON", "BRANCH"} -> x.irb.dest
    [] x.irb.type = "QBRANCH" -> IF x.flag = 1 THEN x.pcb ELSE x.irb.dest
    [] x.irb.type \in Operands -> IF x.irb.ret THEN P!Tor(x) ELSE x.pcb

Bsrcb(x) == IF x.ira.type \in Flows THEN x.pchold ELSE Readreg(x, x.ira.reg1)

Asrcb(x) ==
  CASE x.ira.type \in {"LAL", "LOAD", "STORE"} -> x.ira.offset
    [] x.ira.type = "LAH" -> Cell(x.ira.offset * 2^(W \div 2))
    [] x.ira.type = "MICRO" /\ x.ira.class = "SHIFT" /\ x.ira.imm -> x.ira.literal
    [] OTHER -> At(x.p, 0)

Stackop(x) ==
  CASE x.ira.type = "COLON" -> [x EXCEPT !.r = Moved(@, 1)]
    [] x.ira.type \in {"BRANCH", "QBRANCH"} -> x
    [] x.ira.type \in Operands -> [x EXCEPT !.p = Moved(@, x.ira.ps), !.r = Moved(@, x.ira.rs)]

Microalu(x, a, b) == P!Microalu(x, a, b)
Alu(x, a, b) ==
  CASE x.ira.type \in Flows -> [r |-> b, flag |-> x.flag, y |-> x.y]
    [] x.ira.type \in Operands \ {"MICRO"} -> [r |-> Cell(a + b), flag |-> x.flag, y |-> x.y]
    [] x.ira.type = "MICRO" -> Microalu(x, a, b)

Microbarrel(x, a, b) == A!Microbarrel(x.ira, a, b)
Barrel(x, a, b) == IF x.ira.type = "MICRO" THEN Microbarrel(x, a, b) ELSE b
Execcleanup(x) == P!Execcleanup(x)

Execphia(x) == LET a == Asrca(x) IN [x EXCEPT !.pca = a, !.portaddr = a, !.phase = 2]

Executed(x, a, b, u) ==
  LET y == Stackop(x)
      z == [y EXCEPT !.hold = At(y.r, 0), !.aluout = u.r, !.flag = u.flag, !.y = u.y,
                     !.barrelout = Barrel(x, a, b), !.oldir = x.ira,
                     !.irholdb = Fetchexternal(x, x.portaddr)]
  IN  Next(Execcleanup(z))
Execphib(x) == LET a == Asrcb(x)   b == Bsrcb(x) IN Executed(x, a, b, Alu(x, a, b))

Loadphia(x) == P!Loadphia(x)
Loadphib(x) ==
  Next([P!Kept(x, "Loadwriteback")
          EXCEPT !.dhold = Fetchexternal(x, x.portaddr),
                 !.torptr = IF x.ira.reg2 = "R0" THEN "dhold" ELSE "hold"])

Storephia(x) == P!Storephia(x)
Storephib(x) == Next(P!Kept(Storeexternal(x, x.portaddr, Readreg(x, x.ira.reg2)), "Nop"))

Intphia(x) == [Interruptvector(x) EXCEPT !.portaddr = x.vector, !.ie = FALSE, !.phase = 2]
Intphib(x) ==
  [Nextstate([P!Kept(x, "Nop") EXCEPT !.pcb = x.pca])
     EXCEPT !.irb = Fetchexternal(x, x.portaddr), !.phase = 1]

Dmaphia(x) == P!Dmaphia(x)
Dmaphib(x) == Next(x)

-----------------------------------------------------------------------------
(* Spilling and filling, as in Frisc4b.                                    *)

Rsover1phia(x) == P!Rsover1phia(x)
Rsover1phib(x) == P!Rsover1phib(x)
Rsover2phia(x) == P!Rsover2phia(x)
Rsover2phib(x) == P!Rsover2phib(x)
Rsunder1phia(x) == P!Rsunder1phia(x)
Rsunder1phib(x) == P!Rsunder1phib(x)
Rsunder2phia(x) == P!Rsunder2phia(x)
Rsunder2phib(x) == P!Rsunder2phib(x)
Psover1phia(x) == P!Psover1phia(x)
Psover1phib(x) == P!Psover1phib(x)
Psover2phia(x) == P!Psover2phia(x)
Psover2phib(x) == P!Psover2phib(x)
Psunder1phia(x) == P!Psunder1phia(x)
Psunder1phib(x) == P!Psunder1phib(x)
Psunder2phia(x) == P!Psunder2phia(x)
Psunder2phib(x) == P!Psunder2phib(x)

-----------------------------------------------------------------------------
(* The phases, and what the commands of the simulator do.                  *)

Phia(x0) ==
  LET Cycle(x) ==
      CASE x.state = "INT" -> Intphia(x)           [] x.state = "GRANT" -> Dmaphia(x)
        [] x.state = "EXEC" -> Execphia(x)         [] x.state = "LOAD" -> Loadphia(x)
        [] x.state = "STORE" -> Storephia(x)       [] x.state = "RSDEC" -> Rsover1phia(x)
        [] x.state = "RSSTORE" -> Rsover2phia(x)   [] x.state = "RSLOAD" -> Rsunder1phia(x)
        [] x.state = "RSINC" -> Rsunder2phia(x)    [] x.state = "PSDEC" -> Psover1phia(x)
        [] x.state = "PSSTORE" -> Psover2phia(x)   [] x.state = "PSLOAD" -> Psunder1phia(x)
        [] x.state = "PSINC" -> Psunder2phia(x)
  IN  Cycle(Writeback([x0 EXCEPT !.actualie = x0.ie, !.irholda = x0.irholdb, !.ira = x0.irb,
                             !.pchold = x0.pcb]))

Phib(x) ==
  CASE x.state = "INT" -> Intphib(x)           [] x.state = "GRANT" -> Dmaphib(x)
    [] x.state = "EXEC" -> Execphib(x)         [] x.state = "LOAD" -> Loadphib(x)
    [] x.state = "STORE" -> Storephib(x)       [] x.state = "RSDEC" -> Rsover1phib(x)
    [] x.state = "RSSTORE" -> Rsover2phib(x)   [] x.state = "RSLOAD" -> Rsunder1phib(x)
    [] x.state = "RSINC" -> Rsunder2phib(x)    [] x.state = "PSDEC" -> Psover1phib(x)
    [] x.state = "PSSTORE" -> Psover2phib(x)   [] x.state = "PSLOAD" -> Psunder1phib(x)
    [] x.state = "PSINC" -> Psunder2phib(x)

Startat(x, addr) == P!Startat(x, addr)
Resetregs(x, rom) == P!Resetregs(x, rom)
Stack(x, num) == P!Stack(x, num)
Dmastart(x) == P!Dmastart(x)
Dmaend(x) == P!Dmaend(x)
Startup(mem) == P!Startup(mem)

=============================================================================
