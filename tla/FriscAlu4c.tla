----------------------------- MODULE FriscAlu4c ------------------------------
(***************************************************************************)
(* The computing part of FRISC 4c (fsim4c.c), where it differs from the    *)
(* one of FriscAlu: multiplication shifts right by itself, and the modes   *)
(* of the shifter include the flag and the count of leading zeros.         *)
(***************************************************************************)
EXTENDS FriscWord

A == INSTANCE FriscAlu

Defined(i) ==
  i.class = "STEP" => /\ i.fsrc = "FLDIVHELP" => i.left
                      /\ i.ycont = "YRIGHT" => i.step = "MUL"

Booth1(a, b, flag, y) == A!Booth1(a, b, flag, y)
Booth2(r, rightsin, out, flag, y) == A!Booth2(r, rightsin, out, flag, y)

Multiplied(a, b, flag, y) ==
  LET Halved(f, two) == [f |-> f, r |-> two.r \div 2 + (IF f.n # f.v THEN Msb ELSE 0),
                         right |-> two.r % 2, out |-> two.out]
      Added(f, out) == Halved(f, Booth2(f.r, f.n # f.v, out, flag, y))
      one == Booth1(a, b, flag, y)
  IN  Added(Flagged(one.sum), one.out)

(* The end of a step: u is its sum, leftout the bit that b lost.           *)
Ended(i, leftout, flag, y, u, cond) ==
  [r |-> u.r,
   cond |-> cond,
   fl |-> CASE i.fsrc = "FLALUCOND" -> Bit(cond)
            [] i.fsrc = "FLY1" -> (y \div 2) % 2
            [] i.fsrc = "FLDIVHELP" -> IF flag = 1 THEN Bit(leftout \/ u.f.c)
                                       ELSE Bit(leftout /\ u.f.c),
   y |-> CASE i.ycont = "YNOP" -> y
           [] i.ycont = "YLEFT" -> Cell(2 * y) + flag
           [] i.ycont = "YRIGHT" -> y \div 4 + (Msb \div 2) * u.out + Msb * u.right]

Step(i, a, b0, flag, y) ==
  LET b == IF i.left THEN Cell(2 * b0) + Bit(Negative(y)) ELSE b0
      Plainly(f) == [f |-> f, r |-> f.r]
      Judged(u) == Ended(i, Negative(b0), flag, y, u, ALUcond(i.cond, u.f))
  IN  Judged(IF i.step = "MUL" THEN Multiplied(a, b, flag, y)
             ELSE Plainly(Flagged(A!Stepsum(i, a, b, flag, y))))

(* BPLUSB doubles its source; the other operations are those of FRISC 4.   *)
Compute(i, a, b, flag, y) ==
  LET Judged(r, cond) ==
        [r |-> IF i.class = "TEST" THEN Truth(cond) ELSE r, cond |-> cond, fl |-> Bit(cond), y |-> y]
      f == IF i.aluop = "BPLUSB" THEN Flagged(Addop(b, b, Carry(i.cin, flag)))
           ELSE AluOp(i.aluop, a, b, Carry(i.cin, flag))
  IN  Judged(f.r, ALUcond(i.cond, f))

Shift(i, b, y) == [r |-> b, cond |-> ALUcond(i.cond, Plain(b)), fl |-> b % 2, y |-> y]

(* Result, condition, flag input and new Y.                                *)
Microalu(i, a, b, flag, y) ==
  CASE i.class \in {"ALU", "TEST"} -> Compute(i, a, b, flag, y)
    [] i.class = "STEP" -> Step(i, a, b, flag, y)
    [] i.class = "SHIFT" -> Shift(i, b, y)

Highones(c) == 2^W - 2^(W-c)
Microbarrel(i, a, b, flag) ==
  IF i.class # "SHIFT" THEN b
  ELSE LET c == a % W IN
       CASE i.mode = "LSR" -> b \div 2^c
         [] i.mode = "ASR" -> b \div 2^c + (IF Negative(b) THEN Highones(c) ELSE 0)
         [] i.mode = "LSL" -> Cell(b * 2^c)
         [] i.mode = "ROL" -> Cell(b * 2^c) + b \div 2^(W-c)
         [] i.mode = "SRFLAG" -> b \div 2^c + (IF flag = 1 THEN Highones(c) ELSE 0)
         [] i.mode = "SRFLAGBAR" -> b \div 2^c + (IF flag = 0 THEN Highones(c) ELSE 0)
         [] i.mode = "PRI" -> A!Leadingzeros(b)

Flag(i, flinput, flag) == IF i.type = "MICRO" /\ i.flag THEN flinput ELSE flag

=============================================================================
