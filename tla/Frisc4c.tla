------------------------------- MODULE Frisc4c -------------------------------
(***************************************************************************)
(* The FRISC 4c processor, as src/chips/sim/fsim4c.c simulates it.  It has *)
(* the write back of Frisc4b, and between the data path and memory the     *)
(* cache and the bus of Bus4c, which stall it.  A cycle is one step: the   *)
(* next state is decided in phase a, and an interrupt replaces the         *)
(* instruction that phase b has fetched.                                   *)
(***************************************************************************)
EXTENDS Bus4c

C == INSTANCE FriscAlu4c

Loads == {"LOAD", "LOADBYTE"}
Stores == {"STORE", "STOREBYTE"}
Operands == {"LAL", "LAH", "MICRO"} \cup Loads \cup Stores
Flows == {"COLON", "DOES", "BRANCH", "QBRANCH"}

-----------------------------------------------------------------------------
(* The interrupt controller: a line interrupts when it is low, or high     *)
(* where level has its bit.                                                *)

Request(x, n) == [x EXCEPT !.edge = @ \cup ({n} \ x.active), !.active = @ \cup {n}]
Withdraw(x, n) == [x EXCEPT !.active = @ \ {n}]
Interrupton(x, n) == IF n \in x.level THEN Withdraw(x, n) ELSE Request(x, n)
Interruptoff(x, n) == IF n \in x.level THEN Request(x, n) ELSE Withdraw(x, n)

Interruptpending(x) == F4!Interruptpending(x)
Interruptvector(x) == F4!Interruptvector(x)

(* No interrupt in the cycle that writes the status word.                  *)
Intsuppress(x) ==
  \/ x.state = "EXEC" /\ x.ir.type \in {"MICRO", "LAH", "LAL"} /\ x.ir.reg2 = "PSW"
  \/ x.state = "LOAD" /\ x.oldir.reg2 = "PSW"

-----------------------------------------------------------------------------
(* The state machine that controls the chip.                               *)

Second == [ROVER1 |-> "ROVER2", RUNDER1 |-> "RUNDER2", POVER1 |-> "POVER2", PUNDER1 |-> "PUNDER2"]

Attention(x) ==
  LET ns == IF x.actualie /\ ~Intsuppress(x) THEN Interruptpending(x) ELSE {}
      go(st) == [x EXCEPT !.nextstate = st]
  IN  IF x.rcache /\ Full(x.r) THEN go("ROVER1")
      ELSE IF x.rcache /\ Low(x.r) THEN go("RUNDER1")
      ELSE IF x.pcache /\ Full(x.p) THEN go("POVER1")
      ELSE IF x.pcache /\ Low(x.p) THEN go("PUNDER1")
      ELSE IF ns # {} THEN [go("INT") EXCEPT !.vector = F4!Lowest(ns)]
      ELSE go("EXEC")

Nextstate(x) ==
  CASE x.state = "EXEC" /\ x.ir.type \in Loads -> [x EXCEPT !.nextstate = "LOAD"]
    [] x.state = "EXEC" /\ x.ir.type \in Stores -> [x EXCEPT !.nextstate = "STORE"]
    [] x.state = "EXEC" /\ x.ir.type = "QBRANCH" /\ x.flag = 1 -> [x EXCEPT !.nextstate = "SQUASH"]
    [] x.state \in DOMAIN Second -> [x EXCEPT !.nextstate = Second[x.state]]
    [] OTHER -> Attention(x)

-----------------------------------------------------------------------------
(* Registers, and the write back of the result of the previous cycle.      *)

PswvalueUncached(x) == x.cp + 16 * Bit(x.ie) + 32 * Bit(x.ibrenable)
Pswvalue(x) == x.cp + 8 * Bit(x.cacheenabled) + 16 * Bit(x.ie) + 32 * Bit(x.ibrenable)

Readreg(x, reg) ==
  CASE reg \in DOMAIN StackRegs -> At(x.p, StackRegs[reg])
    [] reg \in DOMAIN ReturnRegs -> At(x.r, ReturnRegs[reg])
    [] reg = "IAR" -> x.pc
    [] reg = "PSW" -> Pswvalue(x)
    [] reg = "ZERO" -> 0
    [] reg = "Y" -> x.y
    [] reg \in DOMAIN x.udr -> x.udr[reg]

Writereg(x, reg, v) ==
  CASE reg \in DOMAIN StackRegs -> [x EXCEPT !.p = Put(@, StackRegs[reg], v)]
    [] reg \in DOMAIN ReturnRegs -> [x EXCEPT !.r = Put(@, ReturnRegs[reg], v)]
    [] reg \in {"IAR", "ZERO"} -> x
    [] reg = "PSW" ->
         LET bit(k) == (v \div 2^k) % 2 = 1
         IN  [x EXCEPT !.cp = v % 8, !.cacheenabled = bit(3), !.ie = bit(4), !.actualie = bit(4),
                       !.ibrenable = bit(5)]
    [] reg = "Y" -> [x EXCEPT !.y = v]
    [] reg \in DOMAIN x.udr -> [x EXCEPT !.udr[reg] = v]

Aluwriteback(x) == Writereg(x, x.oldir.reg2, x.aluout)
Shiftwriteback(x) == Writereg(x, x.oldir.reg2, x.barrelout)
Aluwritebacktor(x) == [x EXCEPT !.r = Put(@, 0, x.aluout)]
Aluwritebacktos(x) == [x EXCEPT !.p = Put(@, 0, x.aluout)]
Loadwriteback(x) == Writereg(x, x.oldir.reg2, x.dhold)
Rsunderflowwriteback(x) == [x EXCEPT !.r = Put(@, 4, x.dhold)]
Psunderflowwriteback(x) == [x EXCEPT !.p = Put(@, 4, x.dhold)]

Writeback(x) ==
  CASE x.writeback = "Nop" -> x
    [] x.writeback = "Aluwriteback" -> Aluwriteback(x)
    [] x.writeback = "Shiftwriteback" -> Shiftwriteback(x)
    [] x.writeback = "Aluwritebacktor" -> Aluwritebacktor(x)
    [] x.writeback = "Aluwritebacktos" -> Aluwritebacktos(x)
    [] x.writeback = "Loadwriteback" -> Loadwriteback(x)
    [] x.writeback = "Rsunderflowwriteback" -> Rsunderflowwriteback(x)
    [] x.writeback = "Psunderflowwriteback" -> Psunderflowwriteback(x)

-----------------------------------------------------------------------------
(* Execution: operands in phase a, results in phase b.                     *)

Asrc(x) ==
  CASE x.ir.type \in Flows -> x.ir.dest * 4
    [] x.ir.type \in Operands -> IF x.ir.ret THEN x[x.torptr] ELSE x.pc

Bsrc(x) == IF x.ir.type \in Flows THEN x.pc ELSE Readreg(x, x.ir.reg1)

Tsrc(x) ==
  CASE x.ir.type \in {"LAL"} \cup Loads \cup Stores -> x.ir.offset
    [] x.ir.type = "LAH" -> Cell(x.ir.offset * 2^(W \div 2))
    [] x.ir.type = "MICRO" /\ x.ir.class = "SHIFT" /\ x.ir.imm -> x.ir.literal
    [] OTHER -> At(x.p, 0)

Stackop(x) ==
  CASE x.ir.type = "COLON" -> [x EXCEPT !.r = Moved(@, 1)]
    [] x.ir.type = "DOES" -> [x EXCEPT !.p = Moved(@, 1)]
    [] x.ir.type \in {"BRANCH", "QBRANCH"} -> x
    [] x.ir.type \in Operands -> [x EXCEPT !.p = Moved(@, x.ir.ps), !.r = Moved(@, x.ir.rs)]

Alu(x) ==
  CASE x.ir.type \in Flows -> [r |-> x.bbus, fl |-> x.flag, y |-> x.y]
    [] x.ir.type \in Operands \ {"MICRO"} -> [r |-> Cell(x.tbus + x.bbus), fl |-> x.flag, y |-> x.y]
    [] x.ir.type = "MICRO" -> C!Microalu(x.ir, x.tbus, x.bbus, x.flag, x.y)

Barrel(x) == IF x.ir.type = "MICRO" THEN C!Microbarrel(x.ir, x.tbus, x.bbus, x.flag) ELSE x.bbus

(* What is written back, and who has the top of the return stack till then. *)
Holding(x, torptr, wb) == [x EXCEPT !.hold = At(x.r, 0), !.torptr = torptr, !.writeback = wb]
Forward(i, result) == IF i.reg2 = "R0" THEN result ELSE "hold"

Execcleanup(x) ==
  CASE x.ir.type = "COLON" -> Holding(x, "aluout", "Aluwritebacktor")
    [] x.ir.type = "DOES" -> Holding(x, "hold", "Aluwritebacktos")
    [] x.ir.type \in {"BRANCH", "QBRANCH"} \cup Loads \cup Stores -> Holding(x, "hold", "Nop")
    [] x.ir.type = "MICRO" /\ x.ir.class = "SHIFT" ->
         Holding(x, Forward(x.ir, "barrelout"), "Shiftwriteback")
    [] OTHER -> Holding(x, Forward(x.ir, "aluout"), "Aluwriteback")

Reading(x, a) == [x EXCEPT !.abus = a, !.read = TRUE, !.bytemode = FALSE]

Execphia(x) == Stackop([Reading(x, Asrc(x)) EXCEPT !.bbus = Bsrc(x), !.tbus = Tsrc(x)])

Executed(x, u) ==
  [Execcleanup(x) EXCEPT !.aluout = u.r, !.y = u.y, !.barrelout = Barrel(x),
                         !.flag = C!Flag(x.ir, u.fl, @), !.pc = Cell(x.abus + 4),
                         !.oldir = x.ir, !.ir = x.dbus]
Execphib(x) == Executed(x, Alu(x))

Loadphia(x) == [Reading(x, x.aluout) EXCEPT !.bytemode = x.oldir.type = "LOADBYTE"]
Loadphib(x) ==
  [Holding(x, Forward(x.oldir, "dhold"), "Loadwriteback")
     EXCEPT !.dhold = IF x.oldir.type = "LOADBYTE" THEN B!Byteof(x.dbus, x.abus) ELSE x.dbus]

Storephia(x) ==
  LET v == Readreg(x, x.oldir.reg2)
      spread == (v % Byte) * (1 + Byte + Byte * Byte + Byte * Byte * Byte)
  IN  [x EXCEPT !.abus = x.aluout, !.read = FALSE, !.bytemode = x.oldir.type = "STOREBYTE",
                !.dbus = IF x.oldir.type = "STOREBYTE" THEN spread ELSE v]
Storephib(x) == Holding([x EXCEPT !.dhold = x.dbus], "hold", "Nop")

(* A branch that should not have been taken.                               *)
Squashphia(x) == Reading(x, x.aluout)
Squashphib(x) == [Holding(x, "hold", "Nop") EXCEPT !.pc = Cell(x.abus + 4), !.ir = x.dbus]

Intphia(x) ==
  [Reading(Interruptvector(x), 4 * x.vector)
     EXCEPT !.bbus = x.pc, !.tbus = 4, !.actualie = FALSE, !.ie = FALSE, !.r = Moved(@, 1)]
Intphib(x) ==
  [Holding(x, "aluout", "Aluwritebacktor")
     EXCEPT !.pc = Cell(x.abus + 4), !.aluout = Cell(x.bbus - x.tbus), !.ir = x.dbus]

-----------------------------------------------------------------------------
(* Spilling the oldest slot of a full stack to memory, and filling.        *)

Writing(x, a, v) == [x EXCEPT !.abus = a, !.read = FALSE, !.bytemode = FALSE, !.dbus = v]

Rsover1phia(x) == [Reading(x, x.pc) EXCEPT !.bbus = x.r.sp, !.tbus = 4]
Rsover1phib(x) ==
  [Holding(x, "hold", "Nop")
     EXCEPT !.r = Marked(@, 1), !.aluout = Cell(x.bbus - x.tbus), !.dhold = x.dbus]
Rsover2phia(x) == [Writing(x, x.aluout, At(x.r, -1)) EXCEPT !.r.sp = x.aluout]
Rsover2phib(x) == Holding([x EXCEPT !.dhold = x.dbus], "hold", "Nop")
Rsunder1phia(x) == [Reading(x, x.pc) EXCEPT !.bbus = x.r.sp, !.tbus = 4]
Rsunder1phib(x) ==
  [x EXCEPT !.r = Marked(@, -1), !.hold = x.r.sp, !.torptr = "hold", !.writeback = "Nop",
            !.aluout = Cell(x.bbus + x.tbus), !.dhold = x.dbus]
Rsunder2phia(x) == [Reading(x, x.hold) EXCEPT !.r.sp = x.aluout]
Rsunder2phib(x) == Holding([x EXCEPT !.dhold = x.dbus], "hold", "Rsunderflowwriteback")

Psover1phia(x) == [Reading(x, x.pc) EXCEPT !.bbus = x.p.sp, !.tbus = 4]
Psover1phib(x) ==
  [Holding(x, "hold", "Nop")
     EXCEPT !.p = Marked(@, 1), !.aluout = Cell(x.bbus - x.tbus), !.dhold = x.dbus]
Psover2phia(x) == [Writing(x, x.aluout, At(x.p, -1)) EXCEPT !.p.sp = x.aluout]
Psover2phib(x) == Holding([x EXCEPT !.dhold = x.dbus], "hold", "Nop")
Psunder1phia(x) == [Reading(x, x.pc) EXCEPT !.bbus = x.p.sp, !.tbus = 4]
Psunder1phib(x) ==
  [x EXCEPT !.p = Marked(@, -1), !.hold = x.p.sp, !.torptr = "hold", !.writeback = "Nop",
            !.aluout = Cell(x.bbus + x.tbus), !.dhold = x.dbus]
Psunder2phia(x) == [Reading(x, x.hold) EXCEPT !.p.sp = x.aluout]
Psunder2phib(x) == Holding([x EXCEPT !.dhold = x.dbus], "hold", "Psunderflowwriteback")

-----------------------------------------------------------------------------
(* The phases, and what the commands of the simulator do.                  *)

Cyclephia(x) ==
  CASE x.state = "INT" -> Intphia(x)         [] x.state = "EXEC" -> Execphia(x)
    [] x.state = "LOAD" -> Loadphia(x)       [] x.state = "STORE" -> Storephia(x)
    [] x.state = "SQUASH" -> Squashphia(x)
    [] x.state = "ROVER1" -> Rsover1phia(x)  [] x.state = "ROVER2" -> Rsover2phia(x)
    [] x.state = "RUNDER1" -> Rsunder1phia(x) [] x.state = "RUNDER2" -> Rsunder2phia(x)
    [] x.state = "POVER1" -> Psover1phia(x)  [] x.state = "POVER2" -> Psover2phia(x)
    [] x.state = "PUNDER1" -> Psunder1phia(x) [] x.state = "PUNDER2" -> Psunder2phia(x)
Dpphia(x) == Nextstate(Cyclephia(Writeback([x EXCEPT !.state = x.nextstate])))

Dpphib(x) ==
  CASE x.state = "INT" -> Intphib(x)         [] x.state = "EXEC" -> Execphib(x)
    [] x.state = "LOAD" -> Loadphib(x)       [] x.state = "STORE" -> Storephib(x)
    [] x.state = "SQUASH" -> Squashphib(x)
    [] x.state = "ROVER1" -> Rsover1phib(x)  [] x.state = "ROVER2" -> Rsover2phib(x)
    [] x.state = "RUNDER1" -> Rsunder1phib(x) [] x.state = "RUNDER2" -> Rsunder2phib(x)
    [] x.state = "POVER1" -> Psover1phib(x)  [] x.state = "POVER2" -> Psover2phib(x)
    [] x.state = "PUNDER1" -> Psunder1phib(x) [] x.state = "PUNDER2" -> Psunder2phib(x)

Phia(x) == Iodecode(IF Stalled(x) THEN x ELSE Dpphia(x))
Phib(x) == IF Stalled(x) THEN x ELSE Dpphib(x)
Singlestep(x) == Phib(Phia(x))

(* An instruction of zeros calls cell 0.                                   *)
Noinstr == [type |-> "COLON", dest |-> 0]

Startat(x, addr) == Iodecode([x EXCEPT !.pc = addr, !.abus = addr])

Resetregs(x) ==
  LET y == [x EXCEPT !.state = "EXEC", !.nextstate = "EXEC", !.dbus = Noinstr, !.abus = 0, !.bbus = 0,
                     !.tbus = 0, !.r = F4!F3!Resetstack(@), !.p = F4!F3!Resetstack(@),
                     !.rcache = FALSE, !.pcache = FALSE, !.actualie = FALSE, !.ie = FALSE,
                     !.ibrenable = TRUE, !.cacheenabled = FALSE, !.active = {}, !.ir = Noinstr,
                     !.y = 0, !.flag = 0, !.pc = 0, !.portaddr = 0, !.portvalue = 0,
                     !.portio = "RD", !.read = TRUE, !.bytemode = FALSE]
  IN  Startat(Holding(y, "hold", "Nop"), Rombase)

Stack(x, num) == [x EXCEPT !.p = Put(Moved(@, 1), 0, num)]

Startup(mem, rom, attributes) ==
  [mem |-> mem, rom |-> rom, attributes |-> attributes,
   tagram |-> [i \in 0 .. Nsets - 1 |-> [tag |-> 0, present |-> {}]],
   dataram |-> [i \in 0 .. Nsets * Nsub - 1 |-> 0],
   iostate |-> "local", biu |-> "idle", count |-> 0, biustall |-> FALSE, cachestall |-> FALSE,
   oldcachedata |-> 0, abus |-> 0, dbus |-> 0, bbus |-> 0, tbus |-> 0, read |-> TRUE,
   bytemode |-> FALSE, portaddr |-> 0, portio |-> "RD", portvalue |-> 0,
   r |-> F4!F3!Emptystack, p |-> F4!F3!Emptystack, udr |-> [u \in {"U0", "U1", "U2", "U3"} |-> 0],
   state |-> "EXEC", nextstate |-> "EXEC", phase |-> 1, pc |-> 0, ir |-> Noinstr, oldir |-> Noinstr,
   hold |-> 0, dhold |-> 0, aluout |-> 0, barrelout |-> 0, torptr |-> "hold", writeback |-> "Nop",
   flag |-> 0, y |-> 0, cp |-> 0, rcache |-> FALSE, pcache |-> FALSE, cacheenabled |-> FALSE,
   ie |-> FALSE, actualie |-> FALSE, ibrenable |-> FALSE,
   active |-> {}, edge |-> {}, mask |-> {}, mode |-> {}, level |-> {}, vector |-> 0,
   busrequest |-> FALSE]

=============================================================================
