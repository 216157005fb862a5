------------------------------ MODULE FriscIsa -------------------------------
(***************************************************************************)
(* What a FRISC promises to a program: two stacks without end, a memory,   *)
(* a flag and instructions that each take effect at once.  The caches of   *)
(* the stacks, the second cycles, the pipeline and the bus are invisible.  *)
(* The next instruction is already fetched (s.ir), link is the address     *)
(* after it; s.ies[1] is the interrupt enable and the last of s.ies the    *)
(* enable that still decides, late by as many instructions as the version  *)
(* of the processor has stages.                                            *)
(***************************************************************************)
EXTENDS FriscWord

CONSTANTS Intnumbers
VARIABLE s

(* Cells count by one address or by four; where an interrupt is taken.     *)
Unit(arch) == IF arch \in {"frisc4b", "frisc4c"} THEN 4 ELSE 1
Old == {"frisc3", "simpipe"}
Vector(arch, n) ==
  CASE arch \in Old -> 1
    [] arch \in {"frisc4", "frisc4a"} -> n
    [] arch = "frisc4b" -> n - (n % 4)
    [] arch = "frisc4c" -> 4 * n
Iebit(arch) == IF arch \in Old THEN 2 * N^4 ELSE 16

Fetch(c, addr) == c.mem[addr \div Unit(c.arch)]
Goto(c, addr) == [c EXCEPT !.ir = Fetch(c, addr), !.link = Cell(addr + Unit(c.arch))]

Shifted(stack, d) ==
  CASE d = 1 -> <<0>> \o stack [] d = -1 -> Tail(stack) [] d = 0 -> stack

Value(c, reg) ==
  CASE reg \in DOMAIN StackRegs -> c.p[StackRegs[reg] + 1]
    [] reg \in DOMAIN ReturnRegs -> c.r[ReturnRegs[reg] + 1]
    [] reg \in {"U2", "U3"} -> c.udr[reg]
    [] reg = "IAR" -> c.link
    [] reg = "PSW" -> Iebit(c.arch) * Bit(c.ies[1])
    [] reg = "ZERO" -> 0

Assign(c, reg, v) ==
  CASE reg \in DOMAIN StackRegs -> [c EXCEPT !.p[StackRegs[reg] + 1] = v]
    [] reg \in DOMAIN ReturnRegs -> [c EXCEPT !.r[ReturnRegs[reg] + 1] = v]
    [] reg \in {"U2", "U3"} -> [c EXCEPT !.udr[reg] = v]
    [] reg \in {"PSW", "NONE", "ZERO"} -> c

(* With an instruction every enable moves on by one stage at least.        *)
Enables(c, e) ==
  LET h == <<e>> \o c.ies   n == Len(c.ies) IN
  { [j \in 1 .. n |-> h[f[j]]] :
      f \in { g \in [1 .. n -> 1 .. n] : \A j \in 1 .. n : /\ g[j] <= j
                                                         /\ j > 1 => g[j-1] <= g[j] } }

Sum(i, a, b, flag) ==
  LET cin == Carry(i.cin, flag) IN
  Cell(CASE i.aluop = "NOPA" -> a           [] i.aluop = "NOPB" -> b
         [] i.aluop = "APLUSB" -> a + b + cin  [] i.aluop = "AMINUSB" -> a - b - 1 + cin
         [] i.aluop = "INCB" -> b + cin     [] i.aluop = "DECB" -> b - 1 + cin)

Holds(cond, result) == CASE cond = "EQUAL" -> result = 0 [] cond = "NEQUAL" -> result # 0

(* What a computing instruction makes of its operands, and what its        *)
(* condition is about.                                                     *)
Tested(i, a, b, flag) == IF i.class = "SHIFT" THEN b ELSE Sum(i, a, b, flag)
Computed(i, a, b, flag) ==
  CASE i.class = "ALU" -> Sum(i, a, b, flag)
    [] i.class = "TEST" -> Truth(Holds(i.cond, Sum(i, a, b, flag)))
    [] i.class = "SHIFT" -> IF i.mode = "LSL" THEN Cell(b * 2^i.literal) ELSE b \div 2^i.literal

(* Bytes: four to a cell, the high one first.                              *)
ByteWeight(addr) == 2^((W \div 4) * (3 - (addr % 4)))
ByteIn(v, addr) == (v \div ByteWeight(addr)) % 2^(W \div 4)

(* Operands are read from the stacks as they were, results and stored      *)
(* values are named by the stacks as they become.                          *)
Effect(c) ==
  LET i == c.ir
      b == Value(c, i.reg1)
      a == CASE i.type = "MICRO" -> c.p[1]
             [] i.type = "LAH" -> Cell(i.offset * 2^(W \div 2))
             [] OTHER -> i.offset
      addr == Cell(a + b)
      cell == addr \div Unit(c.arch)
      moved == [c EXCEPT !.p = Shifted(@, i.ps), !.r = Shifted(@, i.rs)]
      done == CASE i.type \in {"LAL", "LAH"} -> Assign(moved, i.reg2, addr)
                [] i.type = "MICRO" ->
                     [Assign(moved, i.reg2, Computed(i, a, b, c.flag))
                        EXCEPT !.flag = IF i.flag THEN Bit(Holds(i.cond, Tested(i, a, b, c.flag)))
                                        ELSE @]
                [] i.type = "LOAD" -> Assign(moved, i.reg2, c.mem[cell])
                [] i.type = "STORE" /\ cell \notin DOMAIN c.mem -> moved
                [] i.type = "STORE" /\ cell \in DOMAIN c.mem ->
                     [moved EXCEPT !.mem[cell] = Value(moved, i.reg2)]
                [] i.type = "LOADBYTE" -> Assign(moved, i.reg2, ByteIn(c.mem[cell], addr))
                [] i.type = "STOREBYTE" ->
                     [moved EXCEPT !.mem[cell] =
                        @ + ((Value(moved, i.reg2) % 2^(W \div 4)) - ByteIn(@, addr)) * ByteWeight(addr)]
  IN  Goto(done, IF i.ret THEN c.r[1] ELSE c.link)

Written(c) ==
  IF c.ir.type \in {"LAL", "MICRO"} /\ c.ir.reg2 = "PSW"
  THEN (Cell(c.ir.offset + Value(c, c.ir.reg1)) \div Iebit(c.arch)) % 2 = 1
  ELSE c.ies[1]

Transfer(c) ==
  LET dest == (IF c.arch = "simpipe" THEN Unslotted(c.ir.dest) ELSE c.ir.dest) * Unit(c.arch) IN
  CASE c.ir.type = "COLON" -> Goto([c EXCEPT !.r = <<c.link>> \o @], dest)
    [] c.ir.type = "DOES" -> Goto([c EXCEPT !.p = <<c.link>> \o @], dest)
    [] c.ir.type = "BRANCH" -> Goto(c, dest)
    [] c.ir.type = "QBRANCH" -> Goto(c, IF c.flag = 1 THEN c.link ELSE dest)

Stepped(c) ==
  IF c.ir.type \in {"COLON", "DOES", "BRANCH", "QBRANCH"}
  THEN {[Transfer(c) EXCEPT !.ies = q] : q \in Enables(c, c.ies[1])}
  ELSE {[Effect(c) EXCEPT !.ies = q] : q \in Enables(c, Written(c))}

(* An interrupt puts the instruction of its vector in the place of the     *)
(* next one.  FRISC 3 leaves the link after the displaced instruction,     *)
(* FRISC 4 to 4b at it, and FRISC 4c has called the vector.                *)
Interrupted(c) ==
  LET displaced == Cell(c.link - Unit(c.arch)) IN
  {[c EXCEPT !.ir = Fetch(c, Vector(c.arch, n)),
             !.link = CASE c.arch \in Old -> @
                        [] c.arch = "frisc4c" -> Vector(c.arch, n) + Unit(c.arch)
                        [] OTHER -> displaced,
             !.r = IF c.arch = "frisc4c" THEN <<displaced>> \o @ ELSE @,
             !.ies = [j \in DOMAIN @ |-> FALSE]] : n \in Intnumbers}

Step == \E c \in {s} : s' \in Stepped(c)
Interrupt == \E c \in {s} : c.ies[Len(c.ies)] /\ s' \in Interrupted(c)

(* An enable that was written decides after a while.                       *)
Settle == \E c \in {s} : s' \in {[c EXCEPT !.ies = q] : q \in Enables(c, c.ies[1])}

Init == \E c \in {s} : \A j \in DOMAIN c.ies : c.ies[j] = c.ies[1]
Next == Step \/ Interrupt \/ Settle
Spec == Init /\ [][Next]_s

=============================================================================
