------------------------------- MODULE Frisc4b -------------------------------
(***************************************************************************)
(* The FRISC 4b processor, as src/chips/sim/fsim4b.c simulates it, and     *)
(* with Unit = 1 and no byte instructions 4a (see Frisc4a).  It is a       *)
(* pipeline: an instruction computes in phase b and writes its result back *)
(* in phase a of the next cycle.  torptr names the register that has the   *)
(* top of the return stack for a return that comes before the write back.  *)
(* Addresses count bytes, Unit of them to a cell, the high byte first (the *)
(* simulator takes that order from a big-endian host).                     *)
(***************************************************************************)
EXTENDS FriscWord

CONSTANT Unit

A == INSTANCE FriscAlu
F4 == INSTANCE Frisc4

Loads == {"LOAD", "LOADBYTE"}
Stores == {"STORE", "STOREBYTE"}
Operands == {"LAL", "LAH", "MICRO"} \cup Loads \cup Stores
Flows == {"COLON", "BRANCH", "QBRANCH"}

(* Memory by cells, and the bytes of a cell.                               *)
Within(x, a) == a \div Unit \in DOMAIN x.mem
Fetchexternal(x, a) == IF Within(x, a) THEN x.mem[a \div Unit] ELSE 1
Storeexternal(x, a, v) == IF Within(x, a) THEN [x EXCEPT !.mem[a \div Unit] = v] ELSE x

Byte == 2^(W \div 4)
Weight(a) == <<Byte * Byte * Byte, Byte * Byte, Byte, 1>>[(a % 4) + 1]
Byteof(v, a) == (v \div Weight(a)) % Byte
Storeexternalbyte(x, a, v) ==
  IF Within(x, a)
  THEN [x EXCEPT !.mem[a \div Unit] = @ + ((v % Byte) - Byteof(@, a)) * Weight(a)]
  ELSE x

-----------------------------------------------------------------------------
(* Cycles follow one another as in FRISC 4; an instruction is in ira.      *)

Nextstate(x) ==
  CASE x.state = "EXEC" /\ x.ira.type \in Loads -> [x EXCEPT !.state = "LOAD"]
    [] x.state = "EXEC" /\ x.ira.type \in Stores -> [x EXCEPT !.state = "STORE"]
    [] x.state \in DOMAIN F4!F3!Successor -> [x EXCEPT !.state = F4!F3!Successor[x.state]]
    [] x.state = "GRANT" -> IF x.busrequest THEN x ELSE F4!Tovector(x, "INT", "EXEC")
    [] OTHER -> F4!Attention(x)

Next(x) == [Nextstate([x EXCEPT !.pcb = Cell(x.pca + Unit)]) EXCEPT !.phase = 1]

(* Cycles other than EXEC keep the fetched instruction, and hold the top   *)
(* of the return stack for a return that follows.                          *)
Kept(x, wb) == [x EXCEPT !.hold = At(x.r, 0), !.torptr = "hold", !.writeback = wb, !.irb = x.irholda]

Readreg(x, reg) == IF reg = "IAR" THEN x.pchold ELSE F4!Readreg(x, reg)
Writereg(x, reg, v) == F4!Writereg(x, reg, v)

-----------------------------------------------------------------------------
(* Write back of the result of the previous cycle.                         *)

Aluwriteback(x) == Writereg(x, x.oldir.reg2, x.aluout)
Shiftwriteback(x) == Writereg(x, x.oldir.reg2, x.barrelout)
Aluwritebacktor(x) == [x EXCEPT !.r = Put(@, 0, x.aluout)]
Loadwriteback(x) == Writereg(x, x.oldir.reg2, x.dhold)
Rsunderflowwriteback(x) == [x EXCEPT !.r = Put(@, 4, x.dhold)]
Psunderflowwriteback(x) == [x EXCEPT !.p = Put(@, 4, x.dhold)]

Writeback(x) ==
  CASE x.writeback = "Nop" -> x
    [] x.writeback = "Aluwriteback" -> Aluwriteback(x)
    [] x.writeback = "Shiftwriteback" -> Shiftwriteback(x)
    [] x.writeback = "Aluwritebacktor" -> Aluwritebacktor(x)
    [] x.writeback = "Loadwriteback" -> Loadwriteback(x)
    [] x.writeback = "Rsunderflowwriteback" -> Rsunderflowwriteback(x)
    [] x.writeback = "Psunderflowwriteback" -> Psunderflowwriteback(x)

-----------------------------------------------------------------------------
(* Execution: the next address in phase a, everything else in phase b.     *)

Tor(x) == x[x.torptr]

Asrca(x) ==
  CASE x.irb.type \in {"COLON", "BRANCH"} -> x.irb.dest * Unit
    [] x.irb.type = "QBRANCH" -> IF x.flag = 1 THEN x.pcb ELSE x.irb.dest * Unit
    [] x.irb.type \in Operands -> IF x.irb.ret THEN Tor(x) ELSE x.pcb

Bsrcb(x) == IF x.ira.type \in Flows THEN x.pchold ELSE Readreg(x, x.ira.reg1)

Asrcb(x) ==
  CASE x.ira.type \in {"LAL"} \cup Loads \cup Stores -> x.ira.offset
    [] x.ira.type = "LAH" -> Cell(x.ira.offset * 2^(W \div 2))
    [] x.ira.type = "MICRO" /\ x.ira.class = "SHIFT" /\ x.ira.imm -> x.ira.literal
    [] OTHER -> At(x.p, 0)

Stackop(x) ==
  CASE x.ira.type = "COLON" -> [x EXCEPT !.r = Moved(@, 1)]
    [] x.ira.type \in {"BRANCH", "QBRANCH"} -> x
    [] x.ira.type \in Operands -> [x EXCEPT !.p = Moved(@, x.ira.ps), !.r = Moved(@, x.ira.rs)]

(* A test answers with its condition.                                      *)
Microalu(x, a, b) ==
  LET Tested(u) == IF x.ira.class = "TEST" THEN [u EXCEPT !.r = Truth(u.cond)] ELSE u
  IN  Tested(A!Microalu(x.ira, a, b, x.flag, x.y))

Alu(x, a, b) ==
  CASE x.ira.type \in Flows -> [r |-> b, flag |-> x.flag, y |-> x.y]
    [] x.ira.type \in Operands \ {"MICRO"} -> [r |-> Cell(a + b), flag |-> x.flag, y |-> x.y]
    [] x.ira.type = "MICRO" -> Microalu(x, a, b)

Microbarrel(x, a, b) == A!Microbarrel(x.ira, a, b)
Barrel(x, a, b) == IF x.ira.type = "MICRO" THEN Microbarrel(x, a, b) ELSE b

(* Where the result waits, and who has the top of the return stack.        *)
ResultSum(i) == "aluout"
Result(i) == IF i.type = "MICRO" /\ i.class = "SHIFT" THEN "barrelout" ELSE "aluout"

Execcleanup(x) ==
  CASE x.ira.type = "COLON" ->
         [x EXCEPT !.irb = x.irholdb, !.torptr = "aluout", !.writeback = "Aluwritebacktor"]
    [] x.ira.type \in {"BRANCH", "QBRANCH"} ->
         [x EXCEPT !.irb = x.irholdb, !.torptr = "hold", !.writeback = "Nop"]
    [] x.ira.type \in Loads \cup Stores -> [x EXCEPT !.torptr = "hold", !.writeback = "Nop"]
    [] x.ira.type \in {"LAL", "LAH", "MICRO"} ->
         [x EXCEPT !.irb = x.irholdb,
                   !.torptr = IF x.ira.reg2 = "R0" THEN Result(x.ira) ELSE "hold",
                   !.writeback = IF Result(x.ira) = "barrelout" THEN "Shiftwriteback"
                                 ELSE "Aluwriteback"]

Execphia(x) == LET a == Asrca(x) IN [x EXCEPT !.pca = a, !.portaddr = a, !.phase = 2]

Executed(x, a, b, u) ==
  LET y == Stackop(x)
      z == [y EXCEPT !.hold = At(y.r, 0), !.aluout = u.r, !.flag = u.flag, !.y = u.y,
                     !.barrelout = Barrel(x, a, b), !.oldir = x.ira,
                     !.irholdb = Fetchexternal(x, x.portaddr)]
  IN  Next(Execcleanup(z))
Execphib(x) == LET a == Asrcb(x)   b == Bsrcb(x) IN Executed(x, a, b, Alu(x, a, b))

Loadphia(x) == [x EXCEPT !.portaddr = x.aluout, !.phase = 2]
Loadphib(x) ==
  LET v == Fetchexternal(x, x.portaddr)
      y == [Kept(x, "Loadwriteback")
              EXCEPT !.dhold = IF x.oldir.type = "LOADBYTE" THEN Byteof(v, x.portaddr) ELSE v,
                     !.torptr = IF x.ira.reg2 = "R0" THEN "dhold" ELSE "hold"]
  IN  Next(y)

Storephia(x) == [x EXCEPT !.portaddr = x.aluout, !.phase = 2]
Storephib(x) ==
  LET v == Readreg(x, x.ira.reg2)
      y == IF x.oldir.type = "STOREBYTE" THEN Storeexternalbyte(x, x.portaddr, v)
           ELSE Storeexternal(x, x.portaddr, v)
  IN  Next(Kept(y, "Nop"))

Intphia(x) == [F4!Interruptvector(x) EXCEPT !.portaddr = x.vector, !.ie = FALSE, !.phase = 2]
Intphib(x) ==
  [Nextstate([Kept(x, "Nop") EXCEPT !.pcb = x.pca])
     EXCEPT !.irb = Fetchexternal(x, x.portaddr), !.phase = 1]

(* DMA leaves the write back of the last instruction where it is.          *)
Dmaphia(x) == [x EXCEPT !.phase = 2]
Dmaphib(x) == Next(x)

-----------------------------------------------------------------------------
(* Spilling the oldest slot of a full stack to memory, and filling.        *)

Rsover1phia(x) == [x EXCEPT !.portaddr = x.pcb, !.phase = 2]
Rsover1phib(x) ==
  Next(Kept([x EXCEPT !.r = Marked(@, 1), !.aluout = Cell(x.r.sp - Unit)], "Nop"))
Rsover2phia(x) == [x EXCEPT !.portaddr = x.aluout, !.r.sp = x.aluout, !.phase = 2]
Rsover2phib(x) == Next(Kept(Storeexternal(x, x.portaddr, At(x.r, -1)), "Nop"))
Rsunder1phia(x) == [x EXCEPT !.portaddr = x.pcb, !.phase = 2]
Rsunder1phib(x) ==
  Next([x EXCEPT !.r = Marked(@, -1), !.hold = x.r.sp, !.aluout = Cell(x.r.sp + Unit),
                 !.writeback = "Nop", !.irb = x.irholda])
Rsunder2phia(x) == [x EXCEPT !.portaddr = x.hold, !.r.sp = x.aluout, !.phase = 2]
Rsunder2phib(x) ==
  Next([Kept(x, "Rsunderflowwriteback") EXCEPT !.dhold = Fetchexternal(x, x.portaddr)])

Psover1phia(x) == [x EXCEPT !.portaddr = x.pcb, !.phase = 2]
Psover1phib(x) ==
  Next(Kept([x EXCEPT !.p = Marked(@, 1), !.aluout = Cell(x.p.sp - Unit)], "Nop"))
Psover2phia(x) == [x EXCEPT !.portaddr = x.aluout, !.p.sp = x.aluout, !.phase = 2]
Psover2phib(x) == Next(Kept(Storeexternal(x, x.portaddr, At(x.p, -1)), "Nop"))
Psunder1phia(x) == [x EXCEPT !.portaddr = x.pcb, !.phase = 2]
Psunder1phib(x) ==
  Next([x EXCEPT !.p = Marked(@, -1), !.hold = x.p.sp, !.aluout = Cell(x.p.sp + Unit),
                 !.writeback = "Nop", !.irb = x.irholda])
Psunder2phia(x) == [x EXCEPT !.portaddr = x.hold, !.p.sp = x.aluout, !.phase = 2]
Psunder2phib(x) ==
  Next([Kept(x, "Psunderflowwriteback") EXCEPT !.dhold = Fetchexternal(x, x.portaddr)])

-----------------------------------------------------------------------------
(* The phases, and what the commands of the simulator do.                  *)

Clocked(x) ==
  Writeback([x EXCEPT !.actualie = x.ie, !.irholda = x.irholdb, !.ira = x.irb, !.pchold = x.pcb])

Phia(x0) ==
  LET Cycle(x) ==
      CASE x.state = "INT" -> Intphia(x)           [] x.state = "GRANT" -> Dmaphia(x)
        [] x.state = "EXEC" -> Execphia(x)         [] x.state = "LOAD" -> Loadphia(x)
        [] x.state = "STORE" -> Storephia(x)       [] x.state = "RSDEC" -> Rsover1phia(x)
        [] x.state = "RSSTORE" -> Rsover2phia(x)   [] x.state = "RSLOAD" -> Rsunder1phia(x)
        [] x.state = "RSINC" -> Rsunder2phia(x)    [] x.state = "PSDEC" -> Psover1phia(x)
        [] x.state = "PSSTORE" -> Psover2phia(x)   [] x.state = "PSLOAD" -> Psunder1phia(x)
        [] x.state = "PSINC" -> Psunder2phia(x)
  IN  Cycle(Clocked(x0))

Phib(x) ==
  CASE x.state = "INT" -> Intphib(x)           [] x.state = "GRANT" -> Dmaphib(x)
    [] x.state = "EXEC" -> Execphib(x)         [] x.state = "LOAD" -> Loadphib(x)
    [] x.state = "STORE" -> Storephib(x)       [] x.state = "RSDEC" -> Rsover1phib(x)
    [] x.state = "RSSTORE" -> Rsover2phib(x)   [] x.state = "RSLOAD" -> Rsunder1phib(x)
    [] x.state = "RSINC" -> Rsunder2phib(x)    [] x.state = "PSDEC" -> Psover1phib(x)
    [] x.state = "PSSTORE" -> Psover2phib(x)   [] x.state = "PSLOAD" -> Psunder1phib(x)
    [] x.state = "PSINC" -> Psunder2phib(x)

(* An instruction of zeros calls cell 0; none is executed before the first. *)
Noinstr == [type |-> "COLON", dest |-> 0]

Startat(x, addr) ==
  [x EXCEPT !.pca = addr, !.portaddr = addr, !.irb = Fetchexternal(x, addr),
            !.pcb = Cell(addr + Unit)]

Resetregs(x, rom) ==
  LET y == [x EXCEPT !.state = "EXEC", !.r = F4!F3!Resetstack(@), !.p = F4!F3!Resetstack(@),
                     !.rcache = FALSE, !.pcache = FALSE, !.actualie = FALSE, !.ie = FALSE,
                     !.cp = 0, !.ibrenable = TRUE, !.active = {}, !.busrequest = FALSE, !.y = 0,
                     !.flag = 0, !.phase = 1, !.torptr = "hold", !.writeback = "Nop",
                     !.ira = Noinstr, !.irholda = Noinstr, !.irholdb = Noinstr]
  IN  Startat([y EXCEPT !.hold = At(y.r, 0)], rom)

Interrupton(x, n) == F4!Interrupton(x, n)
Interruptoff(x, n) == F4!Interruptoff(x, n)
Interruptpending(x) == F4!Interruptpending(x)
Interruptvector(x) == F4!Interruptvector(x)
Stack(x, num) == [x EXCEPT !.p = Put(Moved(@, 1), 0, num)]
Dmastart(x) == [x EXCEPT !.busrequest = TRUE]
Dmaend(x) == [x EXCEPT !.busrequest = FALSE]

Startup(mem) ==
  [mem |-> mem, r |-> F4!F3!Emptystack, p |-> F4!F3!Emptystack,
   udr |-> [u \in {"U0", "U1", "U2", "U3"} |-> 0], state |-> "EXEC", phase |-> 1, pca |-> 0, pcb |-> 0,
   pchold |-> 0, portaddr |-> 0, irb |-> Noinstr, ira |-> Noinstr, irholda |-> Noinstr,
   irholdb |-> Noinstr, oldir |-> Noinstr, hold |-> 0, dhold |-> 0, aluout |-> 0, barrelout |-> 0,
   torptr |-> "hold", writeback |-> "Nop", flag |-> 0, y |-> 0, cp |-> 0,
   rcache |-> FALSE, pcache |-> FALSE, ie |-> FALSE, ibrenable |-> FALSE, actualie |-> FALSE,
   active |-> {}, edge |-> {}, mask |-> {}, mode |-> {}, vector |-> 0, busrequest |-> FALSE]

=============================================================================
