------------------------------- MODULE Frisc4 --------------------------------
(***************************************************************************)
(* The FRISC 4 processor, as src/chips/sim/fsim4.c simulates it.  Against  *)
(* FRISC 3 it has an interrupt controller, coprocessor registers in the    *)
(* place of the user's (cp), separate enables of the two stack caches, and *)
(* the ALU of FriscAlu.  Every cycle refreshes pcb from pca.               *)
(***************************************************************************)
EXTENDS FriscWord

A == INSTANCE FriscAlu
F3 == INSTANCE Frisc3

Operands == F3!Operands
Flows == F3!Flows
Fetchexternal(x, a) == IF a \in DOMAIN x.mem THEN x.mem[a] ELSE 1
Storeexternal(x, a, v) == IF a \in DOMAIN x.mem THEN [x EXCEPT !.mem[a] = v] ELSE x

-----------------------------------------------------------------------------
(* The interrupt controller: lines that are active, latches of edges, a    *)
(* mask and a mode, each a set of line numbers.                            *)

Lines == 0 .. W - 1
Linesof(v) == {n \in Lines : (v \div 2^n) % 2 = 1}
Wordof(ns) ==
  LET low[k \in 0 .. W] == IF k = 0 THEN 0 ELSE low[k-1] + (IF k - 1 \in ns THEN 2^(k-1) ELSE 0)
  IN  low[W]

Interrupton(x, n) ==
  [x EXCEPT !.edge = @ \cup ({n} \ x.active), !.active = @ \cup {n}]
Interruptoff(x, n) == [x EXCEPT !.active = @ \ {n}]

Interruptpending(x) == x.mask \cap ((x.active \ x.mode) \cup (x.edge \cap x.mode))
Highest(ns) == CHOOSE n \in ns : \A k \in ns : n >= k
Lowest(ns) == CHOOSE n \in ns : \A k \in ns : n <= k
Interruptvector(x) == [x EXCEPT !.edge = @ \ {x.vector}]

(* The vector is latched where the request is looked at.                   *)
Interrupts(x) == x.actualie /\ Interruptpending(x) # {}
Tovector(x, yes, otherwise) ==
  LET looked == IF x.actualie /\ Interruptpending(x) # {}
                THEN [x EXCEPT !.vector = Lowest(Interruptpending(x))] ELSE x
  IN  [looked EXCEPT !.state = IF Interrupts(x) THEN yes ELSE otherwise]

-----------------------------------------------------------------------------
(* The state machine that controls the chip.                               *)

Attention(x) ==
  IF x.rcache /\ Full(x.r) THEN [x EXCEPT !.state = "RSDEC"]
  ELSE IF x.rcache /\ Low(x.r) THEN [x EXCEPT !.state = "RSLOAD"]
  ELSE IF x.pcache /\ Full(x.p) THEN [x EXCEPT !.state = "PSDEC"]
  ELSE IF x.pcache /\ Low(x.p) THEN [x EXCEPT !.state = "PSLOAD"]
  ELSE Tovector(x, "INT", IF x.busrequest THEN "GRANT" ELSE "EXEC")

Nextstate(x) ==
  CASE x.state \in DOMAIN F3!Successor -> [x EXCEPT !.state = F3!Successor[x.state]]
    [] x.state = "GRANT" -> IF x.busrequest THEN x ELSE Tovector(x, "INT", "EXEC")
    [] x.state = "EXEC" /\ x.ir.type \in {"LOAD", "STORE"} -> [x EXCEPT !.state = x.ir.type]
    [] OTHER -> Attention(x)

Next(x) == [Nextstate([x EXCEPT !.pcb = Cell(x.pca + 1)]) EXCEPT !.phase = 1]

-----------------------------------------------------------------------------
(* Registers; U0 to U3 stand for the registers of coprocessor cp.          *)

Pswvalue(x) == x.cp + 16 * Bit(x.ie) + 32 * Bit(x.ibrenable)
Sswvalue(x) ==
  x.r.over + N * x.r.top + N^2 * x.p.over + N^3 * x.p.top
    + N^4 * Bit(x.rcache) + 2 * N^4 * Bit(x.pcache)

Readreg(x, reg) ==
  CASE reg \in DOMAIN StackRegs -> At(x.p, StackRegs[reg])
    [] reg \in DOMAIN ReturnRegs -> At(x.r, ReturnRegs[reg])
    [] reg = "IAR" -> x.pcb
    [] reg = "PSW" -> Pswvalue(x)
    [] reg = "ZERO" -> 0
    [] reg = "Y" -> x.y
    [] x.cp = 0 /\ reg \in {"U0", "U1", "U2", "U3"} -> x.udr[reg]
    [] x.cp = 1 /\ reg = "U0" -> x.r.sp
    [] x.cp = 1 /\ reg = "U1" -> x.p.sp
    [] x.cp = 1 /\ reg = "U2" -> Sswvalue(x)
    [] x.cp = 2 /\ reg = "U0" -> Wordof(x.mask)
    [] x.cp = 2 /\ reg = "U1" -> Wordof(x.mode)
    [] x.cp = 2 /\ reg = "U2" -> Wordof(x.edge)

Writereg(x, reg, v) ==
  CASE reg \in DOMAIN StackRegs -> [x EXCEPT !.p = Put(@, StackRegs[reg], v)]
    [] reg \in DOMAIN ReturnRegs -> [x EXCEPT !.r = Put(@, ReturnRegs[reg], v)]
    [] reg \in {"IAR", "ZERO"} -> x
    [] reg = "PSW" -> [x EXCEPT !.cp = v % 16, !.ie = (v \div 16) % 2 = 1,
                                !.ibrenable = (v \div 32) % 2 = 1]
    [] reg = "Y" -> [x EXCEPT !.y = v]
    [] x.cp = 0 /\ reg \in {"U0", "U1", "U2", "U3"} -> [x EXCEPT !.udr[reg] = v]
    [] x.cp = 1 /\ reg = "U0" -> [x EXCEPT !.r.sp = v]
    [] x.cp = 1 /\ reg = "U1" -> [x EXCEPT !.p.sp = v]
    [] x.cp = 1 /\ reg = "U2" ->
         [x EXCEPT !.r = WithTops(@, (v \div N) % N, v % N),
                   !.p = WithTops(@, (v \div N^3) % N, (v \div N^2) % N),
                   !.rcache = (v \div N^4) % 2 = 1, !.pcache = (v \div (2 * N^4)) % 2 = 1]
    [] x.cp = 2 /\ reg = "U0" -> [x EXCEPT !.mask = Linesof(v)]
    [] x.cp = 2 /\ reg = "U1" -> [x EXCEPT !.mode = Linesof(v)]
    [] x.cp = 2 /\ reg = "U2" -> [x EXCEPT !.edge = Linesof(v)]

-----------------------------------------------------------------------------
(* Execution.                                                              *)

Asrca(x) ==
  CASE x.ir.type \in {"COLON", "BRANCH"} -> x.ir.dest
    [] x.ir.type = "QBRANCH" -> IF x.flag = 1 THEN x.pcb ELSE x.ir.dest
    [] x.ir.type \in Operands -> IF x.ir.ret THEN At(x.r, 0) ELSE x.pcb

Bsrca(x) == IF x.ir.type \in Flows THEN x.pcb ELSE Readreg(x, x.ir.reg1)

Tsrca(x) ==
  CASE x.ir.type \in {"LAL", "LOAD", "STORE"} -> x.ir.offset
    [] x.ir.type = "LAH" -> Cell(x.ir.offset * 2^(W \div 2))
    [] x.ir.type = "MICRO" /\ x.ir.class = "SHIFT" /\ x.ir.imm -> x.ir.literal
    [] OTHER -> At(x.p, 0)

Stackop(x) ==
  CASE x.ir.type = "COLON" -> [x EXCEPT !.r = Moved(@, 1)]
    [] x.ir.type \in {"BRANCH", "QBRANCH"} -> x
    [] x.ir.type \in Operands -> [x EXCEPT !.p = Moved(@, x.ir.ps), !.r = Moved(@, x.ir.rs)]

Microalu(x) == A!Microalu(x.ir, x.alua, x.alub, x.flag, x.y)

(* The part of the ALU that is not for micro instructions adds addresses.  *)
Alu(x) ==
  CASE x.ir.type \in Flows -> [r |-> x.alub, cond |-> FALSE, flag |-> x.flag, y |-> x.y]
    [] x.ir.type \in Operands \ {"MICRO"} ->
         [r |-> Cell(x.alua + x.alub), cond |-> FALSE, flag |-> x.flag, y |-> x.y]
    [] x.ir.type = "MICRO" -> Microalu(x)

Microbarrel(x) == A!Microbarrel(x.ir, x.alua, x.alub)
Barrel(x) == IF x.ir.type = "MICRO" THEN Microbarrel(x) ELSE x.alub

Bsrcb(x, u) ==
  CASE x.ir.type # "MICRO" -> u.r
    [] x.ir.type = "MICRO" ->
         CASE x.ir.class \in {"ALU", "STEP"} -> u.r
           [] x.ir.class = "TEST" -> Truth(u.cond)
           [] x.ir.class = "SHIFT" -> Barrel(x)

Bdest(x, b) ==
  CASE x.ir.type = "COLON" -> [x EXCEPT !.r = Put(@, 0, b)]
    [] x.ir.type \in {"LAL", "LAH", "MICRO"} -> Writereg(x, x.ir.reg2, b)
    [] OTHER -> x

Execphia(x) ==
  LET a == Asrca(x)   b == Bsrca(x)   t == Tsrca(x)
  IN  [Stackop(x) EXCEPT !.portaddr = a, !.pca = a, !.alub = b, !.alua = t, !.phase = 2]

Executed(x, u) ==
  LET y == [x EXCEPT !.aluout = u.r, !.flag = u.flag, !.y = u.y]
  IN  [Next(Bdest(y, Bsrcb(x, u)))
         EXCEPT !.oldir = x.ir, !.ir = Fetchexternal(x, x.portaddr)]
Execphib(x) == Executed(x, Alu(x))

Loadphia(x) == [x EXCEPT !.portaddr = x.aluout, !.phase = 2]
Loadphib(x) == Next(Writereg(x, x.oldir.reg2, Fetchexternal(x, x.portaddr)))

Storephia(x) ==
  [x EXCEPT !.portaddr = x.aluout, !.portvalue = Readreg(x, x.oldir.reg2), !.phase = 2]
Storephib(x) == Next(Storeexternal(x, x.portaddr, x.portvalue))

(* The displaced instruction is the one that the handler returns to.       *)
Intphia(x) == [Interruptvector(x) EXCEPT !.portaddr = x.vector, !.ie = FALSE, !.phase = 2]
Intphib(x) ==
  [Nextstate(x) EXCEPT !.pcb = x.pca, !.ir = Fetchexternal(x, x.portaddr), !.phase = 1]

Dmaphia(x) == [x EXCEPT !.phase = 2]
Dmaphib(x) == Next(x)

-----------------------------------------------------------------------------
(* Spilling the oldest slot of a full stack to memory, and filling.        *)

Rsdecphia(x) == [x EXCEPT !.portaddr = x.pcb, !.alub = x.r.sp, !.phase = 2]
Rsdecphib(x) ==
  LET sp == Cell(x.alub - 1)
  IN  Next([x EXCEPT !.r = Marked([@ EXCEPT !.sp = sp], 1), !.aluout = sp])
Rsstorephia(x) == [x EXCEPT !.portaddr = x.r.sp, !.portvalue = At(x.r, -1), !.phase = 2]
Rsstorephib(x) == Next(Storeexternal(x, x.portaddr, x.portvalue))
Rsloadphia(x) == [x EXCEPT !.portaddr = x.r.sp, !.phase = 2]
Rsloadphib(x) == Next([x EXCEPT !.r = Put(Marked(@, -1), 4, Fetchexternal(x, x.portaddr))])
Rsincphia(x) == [x EXCEPT !.portaddr = x.pcb, !.alub = x.r.sp, !.phase = 2]
Rsincphib(x) == LET sp == Cell(x.alub + 1) IN Next([x EXCEPT !.r.sp = sp, !.aluout = sp])

Psdecphia(x) == [x EXCEPT !.portaddr = x.pcb, !.alub = x.p.sp, !.phase = 2]
Psdecphib(x) ==
  LET sp == Cell(x.alub - 1)
  IN  Next([x EXCEPT !.p = Marked([@ EXCEPT !.sp = sp], 1), !.aluout = sp])
Psstorephia(x) == [x EXCEPT !.portaddr = x.p.sp, !.portvalue = At(x.p, -1), !.phase = 2]
Psstorephib(x) == Next(Storeexternal(x, x.portaddr, x.portvalue))
Psloadphia(x) == [x EXCEPT !.portaddr = x.p.sp, !.phase = 2]
Psloadphib(x) == Next([x EXCEPT !.p = Put(Marked(@, -1), 4, Fetchexternal(x, x.portaddr))])
Psincphia(x) == [x EXCEPT !.portaddr = x.pcb, !.alub = x.p.sp, !.phase = 2]
Psincphib(x) == LET sp == Cell(x.alub + 1) IN Next([x EXCEPT !.p.sp = sp, !.aluout = sp])

-----------------------------------------------------------------------------
(* The phases, and what the commands of the simulator do.                  *)

Phia(x0) ==
  LET x == [x0 EXCEPT !.actualie = x0.ie] IN
  CASE x.state = "INT" -> Intphia(x)          [] x.state = "GRANT" -> Dmaphia(x)
    [] x.state = "EXEC" -> Execphia(x)        [] x.state = "LOAD" -> Loadphia(x)
    [] x.state = "STORE" -> Storephia(x)      [] x.state = "RSDEC" -> Rsdecphia(x)
    [] x.state = "RSSTORE" -> Rsstorephia(x)  [] x.state = "RSLOAD" -> Rsloadphia(x)
    [] x.state = "RSINC" -> Rsincphia(x)      [] x.state = "PSDEC" -> Psdecphia(x)
    [] x.state = "PSSTORE" -> Psstorephia(x)  [] x.state = "PSLOAD" -> Psloadphia(x)
    [] x.state = "PSINC" -> Psincphia(x)

Phib(x) ==
  CASE x.state = "INT" -> Intphib(x)          [] x.state = "GRANT" -> Dmaphib(x)
    [] x.state = "EXEC" -> Execphib(x)        [] x.state = "LOAD" -> Loadphib(x)
    [] x.state = "STORE" -> Storephib(x)      [] x.state = "RSDEC" -> Rsdecphib(x)
    [] x.state = "RSSTORE" -> Rsstorephib(x)  [] x.state = "RSLOAD" -> Rsloadphib(x)
    [] x.state = "RSINC" -> Rsincphib(x)      [] x.state = "PSDEC" -> Psdecphib(x)
    [] x.state = "PSSTORE" -> Psstorephib(x)  [] x.state = "PSLOAD" -> Psloadphib(x)
    [] x.state = "PSINC" -> Psincphib(x)

Startat(x, addr) ==
  [x EXCEPT !.pca = addr, !.portaddr = addr, !.ir = Fetchexternal(x, addr), !.pcb = Cell(addr + 1)]

(* Reset starts at the internal boot ROM; mask, mode and latches stay.     *)
Resetregs(x, rom) ==
  Startat([x EXCEPT !.state = "EXEC", !.r = F3!Resetstack(@), !.p = F3!Resetstack(@),
                    !.rcache = FALSE, !.pcache = FALSE, !.actualie = FALSE, !.ie = FALSE, !.cp = 0,
                    !.ibrenable = TRUE, !.active = {}, !.busrequest = FALSE, !.y = 0, !.flag = 0,
                    !.phase = 1], rom)

Stack(x, num) == [x EXCEPT !.p = Put(Moved(@, 1), 0, num)]
Dmastart(x) == [x EXCEPT !.busrequest = TRUE]
Dmaend(x) == [x EXCEPT !.busrequest = FALSE]

Startup(mem) ==
  [mem |-> mem, r |-> F3!Emptystack, p |-> F3!Emptystack, udr |-> [u \in {"U0", "U1", "U2", "U3"} |-> 0],
   state |-> "EXEC", phase |-> 1, pca |-> 0, pcb |-> 0, portaddr |-> 0, portvalue |-> 0,
   ir |-> 0, oldir |-> 0, alua |-> 0, alub |-> 0, aluout |-> 0, flag |-> 0, y |-> 0, cp |-> 0,
   rcache |-> FALSE, pcache |-> FALSE, ie |-> FALSE, ibrenable |-> FALSE, actualie |-> FALSE,
   active |-> {}, edge |-> {}, mask |-> {}, mode |-> {}, vector |-> 0, busrequest |-> FALSE]

=============================================================================
