------------------------------- MODULE MCFrisc -------------------------------
(***************************************************************************)
(* Programs for the simulators, and the instances of FriscView that TLC     *)
(* checks.                                                                 *)
(***************************************************************************)
EXTENDS FriscView

(* Layout, in cells: vectors, handler, program, data, then the stacks.     *)
Handler == 5
Main == 20
Data == 40
Rarea == 56
Parea == 68
Setuparea == 72
Top == 104

Ops(type, offset, reg1, reg2, ps, rs, ret) ==
  [type |-> type, offset |-> offset, reg1 |-> reg1, reg2 |-> reg2, ps |-> ps, rs |-> rs, ret |-> ret]
Call(d) == [type |-> "COLON", dest |-> d]
Jump(d) == [type |-> "BRANCH", dest |-> d]
Unless(d) == [type |-> "QBRANCH", dest |-> d]
Lal(n, reg1, reg2, ps, rs) == Ops("LAL", n, reg1, reg2, ps, rs, FALSE)
Push(n) == Lal(n, "ZERO", "S0", 1, 0)
Load(a, reg2, ps, rs) == Ops("LOAD", a, "ZERO", reg2, ps, rs, FALSE)
Store(a, reg2) == Ops("STORE", a, "ZERO", reg2, 0, 0, FALSE)
Micro(op, cin, reg1, reg2, ps, rs) ==
  [type |-> "MICRO", reg1 |-> reg1, reg2 |-> reg2, ps |-> ps, rs |-> rs, ret |-> FALSE,
   mode |-> "ALU", class |-> "ALU", aluop |-> op, cin |-> cin, cond |-> "EQUAL", flag |-> FALSE,
   bsrc |-> "DL"]
Returning(i) == [i EXCEPT !.ret = TRUE, !.rs = -1]
Test(i) == [i EXCEPT !.class = "TEST", !.flag = TRUE]
ShiftBy(n, reg1, reg2, ps, rs) ==
  [type |-> "MICRO", class |-> "SHIFT", reg1 |-> reg1, reg2 |-> reg2, ps |-> ps, rs |-> rs,
   ret |-> FALSE, mode |-> "LSL", imm |-> TRUE, literal |-> n, pri |-> FALSE, cond |-> "NEQUAL",
   flag |-> FALSE]

(* The studies simulate a FRISC 3.                                         *)
Old(a) == a \in {"frisc3"} \cup Studies
Sink(a) == IF Old(a) THEN "NONE" ELSE "ZERO"
Return(a) == Returning(Micro("NOPB", "ZERO", "ZERO", Sink(a), 0, 0))
Drop(a) == Micro("NOPB", "ZERO", "ZERO", Sink(a), -1, 0)
Slot == 2^(W-4)
U(a) == IF a \in {"frisc4b", "frisc4c"} THEN 4 ELSE 1

(* The word with the enable has the tops of the stacks on FRISC 3 and the  *)
(* enable of the cache on FRISC 4c.                                        *)
Cacheon(a) == IF a = "frisc4c" THEN 8 ELSE 0
Enable(a) == Lal(Isa!Iebit(IF Old(a) THEN "frisc3" ELSE a) + Cacheon(a), IF Old(a) THEN "PSW" ELSE "ZERO", "PSW", 0, 0)
Masking(a) == Lal(Cell(0 - Isa!Iebit(IF Old(a) THEN "frisc3" ELSE a)), "PSW", "PSW", 0, 0)
Disable(a) == IF Old(a) THEN Masking(a) ELSE Lal(Cacheon(a), "ZERO", "PSW", 0, 0)

(* Saves a value, enables interrupts and returns.                          *)
Handlercode(a) ==
  (IF Old(a) THEN <<Micro("DECB", "ZERO", "R0", "R0", 0, 0)>> ELSE <<>>) \o
  <<Push(9), Store((Data + 3) * U(a), "S0"), Drop(a), Enable(a), Return(a)>>

(* In simpipe some calls have an empty slot.                               *)
Unfilled(a) == IF a = "simpipe" THEN Slot ELSE 0

(* Recursion to a depth of four: calls spill, returns fill.                *)
Recursion(a) ==
  LET f == Main + 5 IN
  << Push(4), Call(f + Unfilled(a)), Store(Data * U(a), "S0"), Drop(a), Jump(Main),
     [Micro("DECB", "ZERO", "S0", "S0", 0, 0) EXCEPT !.flag = TRUE],
     Unless(f + 3), Return(a), Call(f), Returning(Micro("INCB", "ONE", "S0", "S0", 0, 0)) >>

(* Four values pushed and added up, from literals and from memory.         *)
Adding(a) ==
  << Push(5), Load((Data + 1) * U(a), "S0", 1, 0), Ops("LAH", 1, "ZERO", "S0", 1, 0, FALSE), Load((Data + 2) * U(a), "S0", 1, 0),
     Micro("APLUSB", "ZERO", "S1", "S0", -1, 0), Micro("AMINUSB", "ONE", "S1", "S0", -1, 0),
     Store((Data + 1) * U(a), "S1"), Micro("APLUSB", "ZERO", "S1", "S0", -1, 0),
     Store(Data * U(a), "S0"), Drop(a), Jump(Main) >>

(* A critical section; its end enables interrupts twice on FRISC 4.  It    *)
(* keeps the rest of the status word on FRISC 4c, so the cache stays on,   *)
(* which has the cell from a look at it before.                            *)
Critical(a) ==
  (IF a = "frisc4c" THEN << Load(Data * U(a), "S0", 1, 0), Drop(a) >> ELSE << >>) \o
  << IF a = "frisc4c" THEN Masking(a) ELSE Disable(a),
     Load(Data * U(a), "S0", 1, 0), Micro("INCB", "ZERO", "S0", "S0", 0, 0),
     Store(Data * U(a), "S0"), Enable(a),
     IF Old(a) THEN Lal(0, "ZERO", "NONE", 0, 0) ELSE Enable(a), Drop(a), Jump(Main) >>

(* Return addresses written, loaded and moved just before they are used.   *)
Threading(a) ==
  << Lal((Main + 3) * U(a), "ZERO", "R0", 0, 1), Return(a), Jump(Main),
     Load((Data + 4) * U(a), "R0", 0, 1), Return(a), Jump(Main),
     Call(Main + 8), Jump(Main + 11),
     Lal((Main + 10) * U(a), "ZERO", "R0", 0, 0), Return(a),
     Call(Main + 9),
     Lal((Main + 2) * U(a), "ZERO", "R0", 0, 1), Lal(0, "R0", "R0", 0, 1),
     Lal((Main + 15) * U(a), "ZERO", "R0", 0, -1), Return(a), Jump(Main) >>

(* The instructions that are read and written in pairs.                    *)
Bytes(a) ==
  IF a \notin {"frisc4b", "frisc4c"} THEN {}
  ELSE { [Load(Data * U(a) + 10, "S0", 1, 0) EXCEPT !.type = "LOADBYTE"],
         [Store(Data * U(a) + 9, "S0") EXCEPT !.type = "STOREBYTE"] }
Later(a) ==
  IF Old(a) THEN {}
  ELSE { Test(Micro("AMINUSB", "ONE", "S1", "S0", -1, 0)), ShiftBy(2, "S0", "R0", 0, 1),
         ShiftBy(1, "S1", "S0", 1, 0) }
(* A call that leaves its link on the other stack, and the back door of    *)
(* the cache.                                                              *)
Own(a) ==
  IF a # "frisc4c" THEN {}
  ELSE { [Call(Main + 2) EXCEPT !.type = "DOES"], Store(Tagbase + Data * 4, "S0") }
Alphabet(a) ==
  { Push(3), Drop(a), Unless(Main + 2), Return(a), Enable(a), Disable(a),
    Lal((Main + 2) * U(a), "ZERO", "R0", 0, 1), Lal(0, "IAR", "S0", 1, 0),
    Load((Data + 4) * U(a), "R0", 0, 1), Returning(Load((Data + 2) * U(a), "S0", 1, 0)),
    Store(Data * U(a), "S0"),
    Micro("NOPB", "ZERO", "R0", "S0", 1, -1), Micro("NOPA", "ZERO", "S0", "R1", -1, 0),
    Returning(Micro("INCB", "ONE", "S0", "S0", 0, 0)) } \cup Bytes(a) \cup Later(a) \cup Own(a)
Pairs(a) == { <<i, j>> \o [k \in 1 .. 5 |-> Jump(Main + 2)] : i \in Alphabet(a) \cup {Call(Main + 1)},
                                                j \in Alphabet(a) \cup {Call(Main + 2)} }

(* The first instructions set up the stacks, then enable interrupts.       *)
Mask == 2 + 16
Mode == 2
Tops(pheld) == N * 5 + N^3 * pheld
Internal(a, v) == << Push(v), Store(a, "S0"), Drop("frisc4c") >>
Setup(a, waits) ==
  (CASE Old(a) -> << Lal(Rarea - 4, "ZERO", "U0", 0, 0), Lal(Parea - 4, "ZERO", "U1", 0, 0),
                           Lal(Tops(5) + 3 * N^4, "ZERO", "PSW", 0, 0) >>
     [] a = "frisc4c" -> Internal(F4c!IOATTR, waits[1]) \o Internal(F4c!IOATTR + 4, waits[2])
                         \o Internal(F4c!IOATTR + 8, waits[3]) \o Internal(F4c!IOMASK, Mask)
                         \o Internal(F4c!IOMODE, Mode) \o Internal(F4c!IORSP, (Rarea - 4) * 4)
                         \o Internal(F4c!IOPSP, (Parea - 4) * 4)
                         \o Internal(F4c!IOSCC, Tops(6) + 3 * N^4) \o << Enable(a) >>
     [] OTHER -> << Lal(1, "ZERO", "PSW", 0, 0), Lal((Rarea - 4) * U(a), "ZERO", "U0", 0, 0),
                    Lal((Parea - 4) * U(a), "ZERO", "U1", 0, 0),
                    Lal(Tops(5) + 3 * N^4, "ZERO", "U2", 0, 0),
                    Lal(2, "ZERO", "PSW", 0, 0), Lal(Mask, "ZERO", "U0", 0, 0),
                    Lal(Mode, "ZERO", "U1", 0, 0), Lal(16, "ZERO", "PSW", 0, 0),
                    Lal(0, "ZERO", "ZERO", 0, 0) >>)
  \o << Jump(Main) >>

Word0(a, code, setup, c) ==
  LET hand == Handlercode(a) IN
  CASE c \in {1, 4} -> IF a = "frisc4c" THEN Jump(Handler) ELSE Call(Handler)
    [] c = 0 /\ a = "frisc4b" -> Call(Handler)
    [] c \in {0, 2, 3} -> Jump(Main + 2)
    [] c \in Handler .. Handler + Len(hand) - 1 -> hand[c - Handler + 1]
    [] c \in Main .. Main + Len(code) - 1 -> code[c - Main + 1]
    [] c = Data + 2 -> 3
    [] c = Data + 4 -> (Main + 6) * U(a)
    [] c \in Rarea - 4 .. Rarea - 1 -> (Main + 2) * U(a)
    [] c \in Parea - 4 .. Parea - 1 -> c
    [] c \in Setuparea .. Setuparea + Len(setup) - 1 -> setup[c - Setuparea + 1]
    [] OTHER -> 0

Startedof(a, mem) ==
  CASE a = "frisc3" -> F3!Startat(F3!Resetregs(F3!Startup(mem)), Setuparea)
    [] a = "simreg" -> Sreg!Startat(Sreg!Resetregs(Sreg!Startup(mem)), Setuparea)
    [] a = "simpipe" -> Spipe!Startat(Spipe!Resetregs(Spipe!Startup(mem)), Setuparea)
    [] a = "simqbr" -> Sqbr!Startat(Sqbr!Resetregs(Sqbr!Startup(mem)), Setuparea)
    [] a = "simldst" -> Sldst!Startat(Sldst!Resetregs(Sldst!Startup(mem)), Setuparea)
    [] a = "frisc4" -> F4!Startat(F4!Resetregs(F4!Startup(mem), 0), Setuparea)
    [] a = "frisc4a" -> F4a!Startat(F4a!Resetregs(F4a!Startup(mem), 0), Setuparea)
    [] a = "frisc4b" -> F4b!Startat(F4b!Resetregs(F4b!Startup(mem), 0), Setuparea * 4)
    [] a = "frisc4c" -> F4c!Startat(F4c!Resetregs(F4c!Startup(mem, [i \in 0 .. 3 |-> 0],
                                                              [i \in 0 .. 3 |-> 0])),
                                    Setuparea * 4)

(* The machine when it has fetched the first instruction of the program.   *)
(* FRISC 4c gets there without a store around its cache: nothing else is a *)
(* case of Booted.                                                         *)
RECURSIVE Booted(_, _)
Booted(a, x) ==
  LET there == AtBoundary(a, x) /\ (IF a = "frisc4c" THEN x.pc ELSE x.pcb) = (Main + 1) * U(a)
  IN  CASE there -> x
        [] ~there /\ a = "frisc4c" /\ Wellbehaved(x) -> Booted(a, Phiaof(a, x))
        [] ~there /\ a # "frisc4c" -> Booted(a, Phibof(a, Phiaof(a, x)))

MCBoot(c) ==
  LET setup == Setup(c.arch, c.waits)
      mem == [i \in 0 .. Top - 1 |-> Word0(c.arch, c.code, setup, i)]
  IN  Booted(c.arch, Startedof(c.arch, mem))

Inputs(on, off, dma) == [on |-> on, off |-> off, dma |-> dma]
Archs == {"frisc3", "frisc4", "frisc4a", "frisc4b", "frisc4c"}
Dma(a) == IF a = "frisc4c" THEN 0 ELSE 1
Programs(a) == {Recursion(a), Adding(a), Critical(a), Threading(a)}

(* Waits of the three regions: code, data, stacks.                         *)
Cached == 64
Waitsof(a) ==
  IF a # "frisc4c" THEN {<<0, 0, 0>>}
  ELSE {<<Cached + 1, Cached, 63>>, <<1, Cached + 2, Cached + 63>>}

Studied ==
  UNION { [arch : {a}, code : Programs(a), waits : {<<0, 0, 0>>}, left : {Inputs(1, 0, 0)}] :
            a \in Studies }

(* Every program with an interrupt and DMA, two interrupts and the end of  *)
(* one for the critical section, and all pairs where cycles overlap.       *)
MCScenarios ==
  Studied
  \cup UNION { [arch : {a}, code : Programs(a), waits : Waitsof(a),
                 left : {Inputs(1, 0, Dma(a))}] : a \in Archs }
  \cup UNION { [arch : {a}, code : {Critical(a)}, waits : Waitsof(a), left : {Inputs(2, 1, 0)}] :
                  a \in Archs }
  \cup UNION { [arch : {a}, code : Pairs(a), waits : {CHOOSE w \in Waitsof(a) : TRUE},
                 left : {Inputs(1, 0, 0)}] : a \in {"frisc4b", "frisc4c"} }
=============================================================================
