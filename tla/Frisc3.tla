------------------------------- MODULE Frisc3 --------------------------------
(***************************************************************************)
(* The FRISC 3 processor, as src/chips/sim/fsim3.c simulates it: each      *)
(* function of the simulator is an operator from a state of the machine to *)
(* the next one.  A cycle has a phase a and a phase b; the state names the *)
(* cycle: EXEC for every instruction, LOAD and STORE for the second cycle  *)
(* of these, INT, GRANT (DMA), and two cycles to spill or to fill a stack. *)
(* udr0 and udr1 are the external stack pointers, r.sp and p.sp here.      *)
(***************************************************************************)
EXTENDS FriscWord

Fetchexternal(x, a) == IF a \in DOMAIN x.mem THEN x.mem[a] ELSE 1
Storeexternal(x, a, v) == IF a \in DOMAIN x.mem THEN [x EXCEPT !.mem[a] = v] ELSE x

Operands == {"LAL", "LAH", "LOAD", "STORE", "MICRO"}
Flows == {"COLON", "BRANCH", "QBRANCH"}

-----------------------------------------------------------------------------
(* The state machine that controls the chip.                               *)

Attention(x) ==
  IF x.cache /\ Full(x.r) THEN "RSDEC"
  ELSE IF x.cache /\ Low(x.r) THEN "RSLOAD"
  ELSE IF x.cache /\ Full(x.p) THEN "PSDEC"
  ELSE IF x.cache /\ Low(x.p) THEN "PSLOAD"
  ELSE IF x.intpending /\ x.actualie THEN "INT"
  ELSE IF x.busrequest THEN "GRANT"
  ELSE "EXEC"

Successor == [RSDEC |-> "RSSTORE", RSLOAD |-> "RSINC", PSDEC |-> "PSSTORE", PSLOAD |-> "PSINC",
              INT |-> "EXEC"]

Nextstate(x) ==
  [x EXCEPT !.state =
     CASE x.state \in DOMAIN Successor -> Successor[x.state]
       [] x.state = "GRANT" -> IF x.busrequest THEN "GRANT"
                               ELSE IF x.intpending /\ x.actualie THEN "INT" ELSE "EXEC"
       [] x.state = "EXEC" -> IF x.ir.type \in {"LOAD", "STORE"} THEN x.ir.type ELSE Attention(x)
       [] OTHER -> Attention(x)]

-----------------------------------------------------------------------------
(* Registers.  Reading or writing the status word converts the tops.       *)

Pswvalue(x) ==
  x.r.over + N * x.r.top + N^2 * x.p.over + N^3 * x.p.top + N^4 * Bit(x.cache) + 2 * N^4 * Bit(x.ie)

Readreg(x, reg) ==
  CASE reg \in DOMAIN StackRegs -> At(x.p, StackRegs[reg])
    [] reg \in DOMAIN ReturnRegs -> At(x.r, ReturnRegs[reg])
    [] reg = "U0" -> x.r.sp
    [] reg = "U1" -> x.p.sp
    [] reg \in {"U2", "U3"} -> x.udr[reg]
    [] reg = "IAR" -> x.pcb
    [] reg = "PSW" -> Pswvalue(x)
    [] reg = "ZERO" -> 0

Writereg(x, reg, v) ==
  CASE reg \in DOMAIN StackRegs -> [x EXCEPT !.p = Put(@, StackRegs[reg], v)]
    [] reg \in DOMAIN ReturnRegs -> [x EXCEPT !.r = Put(@, ReturnRegs[reg], v)]
    [] reg = "U0" -> [x EXCEPT !.r.sp = v]
    [] reg = "U1" -> [x EXCEPT !.p.sp = v]
    [] reg \in {"U2", "U3"} -> [x EXCEPT !.udr[reg] = v]
    [] reg = "PSW" -> [x EXCEPT !.r = WithTops(@, (v \div N) % N, v % N),
                                !.p = WithTops(@, (v \div N^3) % N, (v \div N^2) % N),
                                !.cache = (v \div N^4) % 2 = 1,
                                !.ie = (v \div (2 * N^4)) % 2 = 1]
    [] reg = "NONE" -> x

-----------------------------------------------------------------------------
(* Phase a of an instruction: the next address and the operands.           *)

Asrca(x) ==
  CASE x.ir.type \in {"COLON", "BRANCH"} -> x.ir.dest
    [] x.ir.type = "QBRANCH" -> IF x.flag = 1 THEN x.pcb ELSE x.ir.dest
    [] x.ir.type \in Operands -> IF x.ir.ret THEN At(x.r, 0) ELSE x.pcb

Bsrca(x) == IF x.ir.type \in Flows THEN x.pcb ELSE Readreg(x, x.ir.reg1)

Tsrca(x) ==
  CASE x.ir.type \in {"LAL", "LOAD", "STORE"} -> x.ir.offset
    [] x.ir.type = "LAH" -> Cell(x.ir.offset * 2^(W \div 2))
    [] OTHER -> At(x.p, 0)

Stackop(x) ==
  CASE x.ir.type = "COLON" -> [x EXCEPT !.r = Moved(@, 1)]
    [] x.ir.type \in {"BRANCH", "QBRANCH"} -> x
    [] x.ir.type \in Operands -> [x EXCEPT !.p = Moved(@, x.ir.ps), !.r = Moved(@, x.ir.rs)]

Execphia(x) ==
  LET a == Asrca(x)   b == Bsrca(x)   t == Tsrca(x)
  IN  [Stackop(x) EXCEPT !.portaddr = a, !.pca = a, !.alub = b, !.alua = t, !.phase = 2]

-----------------------------------------------------------------------------
(* Phase b of an instruction: the result, the flag and the destination.    *)

StepSum(i, flag, a, b) ==
  LET cin == Carry(i.cin, flag) IN
  CASE i.step = "STEPB" -> Addop(b, 0, cin)
    [] i.step = "DIV1" -> Addop(b, Com(a), cin)
    [] i.step = "DIV2" -> Addop(IF flag = 0 THEN a ELSE 0, b, cin)
    [] i.step = "MUL" -> Addop(IF flag = 1 THEN a ELSE 0, b, cin)

Shiftedright(i, flag, f) ==
  f.r \div 2 + (IF \/ i.sin = "SFLAG" /\ flag = 1
                   \/ i.sin = "SALUCOND" /\ ALUcond(i.cond, f)
                THEN Msb ELSE 0)

(* The result r, the condition flags f and the bits shifted out, with what *)
(* a step adds to what.                                                    *)
Computed(x, Sum(_, _, _, _)) ==
  LET i == x.ir
      left == i.mode = "SHIFT" /\ i.shift = "LEFT"
      b == IF left THEN Cell(2 * x.alub) + x.flag ELSE x.alub
      right == i.mode = "SHIFT" /\ i.shift = "RIGHT"
      Shifted(f) == [r |-> IF right THEN Shiftedright(i, x.flag, f) ELSE f.r,
                     f |-> f,
                     left |-> IF left THEN Bit(Negative(x.alub)) ELSE 0,
                     right |-> IF right THEN f.r % 2 ELSE x.shr]
  IN  Shifted(IF i.mode = "ALU" THEN AluOp(i.aluop, x.alua, x.alub, Carry(i.cin, x.flag))
              ELSE Flagged(Sum(i, x.flag, x.alua, b)))

Microalu(x) == Computed(x, StepSum)

Alu(x) ==
  CASE x.ir.type \in Flows -> [r |-> x.alub]
    [] x.ir.type \in Operands \ {"MICRO"} -> [r |-> Cell(x.alua + x.alub)]
    [] x.ir.type = "MICRO" -> Microalu(x)

Flag(x, u) ==
  IF x.ir.type = "MICRO" /\ x.ir.flag
  THEN IF x.ir.mode = "SHIFT" /\ x.ir.flagin = "FLSHIFT"
       THEN IF x.ir.shift = "LEFT" THEN u.left ELSE u.right
       ELSE Bit(ALUcond(x.ir.cond, u.f))
  ELSE x.flag

Bsrcb(x, u, flag) ==
  IF x.ir.type = "MICRO" /\ x.ir.bsrc = "FL" THEN Truth(flag = 1) ELSE u.r

Bdest(x, b) ==
  CASE x.ir.type = "COLON" -> [x EXCEPT !.r = Put(@, 0, b)]
    [] x.ir.type \in {"LAL", "LAH", "MICRO"} -> Writereg(x, x.ir.reg2, b)
    [] OTHER -> x

Executed(x, u) ==
  LET fl == Flag(x, u)
      y == [x EXCEPT !.aluout = u.r, !.flag = fl, !.shr = IF x.ir.type = "MICRO" THEN u.right ELSE @]
      z == [Bdest(y, Bsrcb(x, u, fl)) EXCEPT !.pcb = Cell(x.pca + 1)]
  IN  [Nextstate(z) EXCEPT !.oldir = x.ir, !.ir = Fetchexternal(x, x.portaddr), !.phase = 1]

Execphib(x) == Executed(x, Alu(x))

-----------------------------------------------------------------------------
(* The second cycles of loads and stores, interrupts and DMA.              *)

Loadphia(x) == [x EXCEPT !.portaddr = x.aluout, !.phase = 2]
Loadphib(x) ==
  [Nextstate(Writereg(x, x.oldir.reg2, Fetchexternal(x, x.portaddr))) EXCEPT !.phase = 1]

Storephia(x) ==
  [x EXCEPT !.portaddr = x.aluout, !.portvalue = Readreg(x, x.oldir.reg2), !.phase = 2]
Storephib(x) == [Nextstate(Storeexternal(x, x.portaddr, x.portvalue)) EXCEPT !.phase = 1]

Intphia(x) == [x EXCEPT !.portaddr = 1, !.intpending = FALSE, !.ie = FALSE, !.phase = 2]
Intphib(x) == [Nextstate(x) EXCEPT !.ir = Fetchexternal(x, x.portaddr), !.phase = 1]

Dmaphia(x) == [x EXCEPT !.phase = 2]
Dmaphib(x) == [Nextstate(x) EXCEPT !.phase = 1]

-----------------------------------------------------------------------------
(* Spilling the oldest slot of a full stack to memory, and filling.        *)

Rsdecphia(x) == [x EXCEPT !.portaddr = x.pcb, !.alub = x.r.sp, !.phase = 2]
Rsdecphib(x) ==
  LET sp == Cell(x.alub - 1)
  IN  [Nextstate([x EXCEPT !.r = Marked([@ EXCEPT !.sp = sp], 1), !.aluout = sp]) EXCEPT !.phase = 1]
Rsstorephia(x) == [x EXCEPT !.portaddr = x.r.sp, !.portvalue = At(x.r, -1), !.phase = 2]
Rsstorephib(x) == [Nextstate(Storeexternal(x, x.portaddr, x.portvalue)) EXCEPT !.phase = 1]
Rsloadphia(x) == [x EXCEPT !.portaddr = x.r.sp, !.phase = 2]
Rsloadphib(x) ==
  [Nextstate([x EXCEPT !.r = Put(Marked(@, -1), 4, Fetchexternal(x, x.portaddr))]) EXCEPT !.phase = 1]
Rsincphia(x) == [x EXCEPT !.portaddr = x.pcb, !.alub = x.r.sp, !.phase = 2]
Rsincphib(x) ==
  LET sp == Cell(x.alub + 1)
  IN  [Nextstate([x EXCEPT !.r.sp = sp, !.aluout = sp]) EXCEPT !.phase = 1]

Psdecphia(x) == [x EXCEPT !.portaddr = x.pcb, !.alub = x.p.sp, !.phase = 2]
Psdecphib(x) ==
  LET sp == Cell(x.alub - 1)
  IN  [Nextstate([x EXCEPT !.p = Marked([@ EXCEPT !.sp = sp], 1), !.aluout = sp]) EXCEPT !.phase = 1]
Psstorephia(x) == [x EXCEPT !.portaddr = x.p.sp, !.portvalue = At(x.p, -1), !.phase = 2]
Psstorephib(x) == [Nextstate(Storeexternal(x, x.portaddr, x.portvalue)) EXCEPT !.phase = 1]
Psloadphia(x) == [x EXCEPT !.portaddr = x.p.sp, !.phase = 2]
Psloadphib(x) ==
  [Nextstate([x EXCEPT !.p = Put(Marked(@, -1), 4, Fetchexternal(x, x.portaddr))]) EXCEPT !.phase = 1]
Psincphia(x) == [x EXCEPT !.portaddr = x.pcb, !.alub = x.p.sp, !.phase = 2]
Psincphib(x) ==
  LET sp == Cell(x.alub + 1)
  IN  [Nextstate([x EXCEPT !.p.sp = sp, !.aluout = sp]) EXCEPT !.phase = 1]

-----------------------------------------------------------------------------
(* The phases, and what the commands of the simulator do.                  *)

Ackphia(x) == IF x.state = "INT" THEN Intphia(x) ELSE Dmaphia(x)
Ackphib(x) == IF x.state = "INT" THEN Intphib(x) ELSE Dmaphib(x)

Rsphia(x) ==
  CASE x.state = "RSDEC" -> Rsdecphia(x)   [] x.state = "RSSTORE" -> Rsstorephia(x)
    [] x.state = "RSLOAD" -> Rsloadphia(x) [] x.state = "RSINC" -> Rsincphia(x)
Rsphib(x) ==
  CASE x.state = "RSDEC" -> Rsdecphib(x)   [] x.state = "RSSTORE" -> Rsstorephib(x)
    [] x.state = "RSLOAD" -> Rsloadphib(x) [] x.state = "RSINC" -> Rsincphib(x)

Psphia(x) ==
  CASE x.state = "PSDEC" -> Psdecphia(x)   [] x.state = "PSSTORE" -> Psstorephia(x)
    [] x.state = "PSLOAD" -> Psloadphia(x) [] x.state = "PSINC" -> Psincphia(x)
Psphib(x) ==
  CASE x.state = "PSDEC" -> Psdecphib(x)   [] x.state = "PSSTORE" -> Psstorephib(x)
    [] x.state = "PSLOAD" -> Psloadphib(x) [] x.state = "PSINC" -> Psincphib(x)

Acks == {"INT", "GRANT"}
Rscycles == {"RSDEC", "RSSTORE", "RSLOAD", "RSINC"}
Pscycles == {"PSDEC", "PSSTORE", "PSLOAD", "PSINC"}

Phia(x0) ==
  LET x == [x0 EXCEPT !.actualie = x0.ie] IN
  CASE x.state = "EXEC" -> Execphia(x)   [] x.state = "LOAD" -> Loadphia(x)
    [] x.state = "STORE" -> Storephia(x) [] x.state \in Acks -> Ackphia(x)
    [] x.state \in Rscycles -> Rsphia(x) [] x.state \in Pscycles -> Psphia(x)

Phib(x) ==
  CASE x.state = "EXEC" -> Execphib(x)   [] x.state = "LOAD" -> Loadphib(x)
    [] x.state = "STORE" -> Storephib(x) [] x.state \in Acks -> Ackphib(x)
    [] x.state \in Rscycles -> Rsphib(x) [] x.state \in Pscycles -> Psphib(x)

Startat(x, addr) ==
  [x EXCEPT !.pca = addr, !.portaddr = addr, !.ir = Fetchexternal(x, addr), !.pcb = Cell(addr + 1)]

Resetstack(s) == WithTops(s, N - 1, 0)

Resetregs(x) ==
  Startat([x EXCEPT !.state = "EXEC", !.r = Resetstack(@), !.p = Resetstack(@), !.cache = FALSE,
                    !.actualie = FALSE, !.ie = FALSE, !.intpending = FALSE, !.busrequest = FALSE,
                    !.flag = 0, !.phase = 1], 0)

Stack(x, num) == [x EXCEPT !.p = Put(Moved(@, 1), 0, num)]
Interrupton(x, n) == [x EXCEPT !.intpending = TRUE]
Interruptoff(x, n) == [x EXCEPT !.intpending = FALSE]
Dmastart(x) == [x EXCEPT !.busrequest = TRUE]
Dmaend(x) == [x EXCEPT !.busrequest = FALSE]

(* The machine when the simulator starts: C zeroes its variables.  Its     *)
(* statistics are left out; only the studies SimReg to SimLdst have some.  *)
Emptystack == [slot |-> [i \in Slots |-> 0], top |-> N - 1, over |-> 0, under |-> 0, sp |-> 0]
Startup(mem) ==
  [mem |-> mem, r |-> Emptystack, p |-> Emptystack, udr |-> [U2 |-> 0, U3 |-> 0],
   state |-> "EXEC", phase |-> 1, pca |-> 0, pcb |-> 0, portaddr |-> 0, portvalue |-> 0,
   ir |-> 0, oldir |-> 0, alua |-> 0, alub |-> 0, aluout |-> 0, flag |-> 0, shr |-> 0,
   cache |-> FALSE, ie |-> FALSE, actualie |-> FALSE, intpending |-> FALSE, busrequest |-> FALSE,
   stats |-> <<>>]

=============================================================================
