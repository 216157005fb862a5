------------------------------ MODULE FriscAlu -------------------------------
(***************************************************************************)
(* The computing part of the later FRISC processors (fsim4.c and its       *)
(* descendants): plain operations, the steps of multiplication and         *)
(* division with the register Y, and the barrel shifter.                   *)
(*                                                                         *)
(* A shifted-out bit that an instruction asks for and does not produce is  *)
(* an uninitialised variable in the code: Defined tells the instructions   *)
(* that use none.                                                          *)
(***************************************************************************)
EXTENDS FriscWord

Defined(i) ==
  i.class = "STEP" =>
    /\ i.fsrc = "FLDIVHELP" => i.left
    /\ i.fsrc = "FLRIGHTSHIFT" => i.right
    /\ i.ycont = "YRIGHT" => i.right /\ i.step = "MUL"

Asr(a) == a \div 2 + (IF Negative(a) THEN Msb ELSE 0)

(* Which of Booth's eight cases: the two low bits of Y and the flag.       *)
BoothcaseUnflagged(flag, y) == 2 * (y % 4)
Boothcase(flag, y) == 2 * (y % 4) + flag

(* Booth's step before its shift: an accumulator a and a multiplicand b.   *)
(* In the cases of zero or twice b the accumulator is shifted first.       *)
Booth1(a, b, flag, y) ==
  LET k == Boothcase(flag, y) IN
  [sum |-> CASE k \in {0, 7} -> [r |-> Asr(a), v |-> FALSE, c |-> FALSE]
             [] k \in {1, 2} -> Addop(a, b, 0)
             [] k = 3 -> Addop(Asr(a), b, 0)
             [] k = 4 -> Addop(Asr(a), Com(b), 1)
             [] k \in {5, 6} -> Addop(a, Com(b), 1),
   out |-> IF k \in {0, 3, 4, 7} THEN a % 2 ELSE 0]

Booth2(r, cond, out, flag, y) ==
  IF Boothcase(flag, y) \in {1, 2, 5, 6}
  THEN [r |-> r \div 2 + (IF cond THEN Msb ELSE 0), out |-> r % 2]
  ELSE [r |-> r, out |-> out]

(* Division subtracts or adds, as the flag tells.                          *)
DivsumAlways(flag, a, b) == Addop(Com(a), b, 1)
Divsum(flag, a, b) == IF flag = 1 THEN Addop(Com(a), b, 1) ELSE Addop(a, b, 0)

Stepsum(i, a, b, flag, y) ==
  CASE i.step = "STEPB" -> Addop(0, b, 0)
    [] i.step = "CADD" -> Addop(IF flag = 0 THEN a ELSE 0, b, 0)
    [] i.step = "DIV" -> Divsum(flag, a, b)
    [] i.step = "MUL" -> Booth1(a, b, flag, y).sum

(* The end of a step: f are the flags of the sum, m is what Booth's step   *)
(* makes of it, leftout the bit that b lost.                               *)
Ended(i, leftout, flag, y, f, cond, m) ==
  LET carriedin == \/ i.rsrc = "SFLAG" /\ flag = 1
                   \/ i.rsrc = "SALUCOND" /\ cond
  IN  [r |-> IF i.right THEN m.r \div 2 + (IF carriedin THEN Msb ELSE 0) ELSE m.r,
       cond |-> cond,
       flag |-> CASE i.fsrc = "FLALUCOND" -> Bit(cond)
                  [] i.fsrc = "FLY1" -> (y \div 2) % 2
                  [] i.fsrc = "FLDIVHELP" -> IF flag = 1 THEN Bit(leftout \/ f.c)
                                             ELSE Bit(leftout /\ f.c)
                  [] i.fsrc = "FLRIGHTSHIFT" -> m.r % 2,
       y |-> CASE i.ycont = "YNOP" -> y
               [] i.ycont = "YLEFT" -> Cell(2 * y) + flag
               [] i.ycont = "YRIGHT" -> y \div 4 + (Msb \div 2) * m.out + Msb * (m.r % 2)]

(* A step: result r, condition, flag input and new Y.                      *)
Step(i, a, b0, flag, y) ==
  LET b == IF i.left THEN Cell(2 * b0) + Bit(Negative(y)) ELSE b0
      Multiplied(f, cond) == Booth2(f.r, cond, Booth1(a, b, flag, y).out, flag, y)
      End(f, cond) == Ended(i, Negative(b0), flag, y, f, cond,
                            IF i.step = "MUL" THEN Multiplied(f, cond) ELSE [r |-> f.r, out |-> 0])
      Added(f) == End(f, ALUcond(i.cond, f))
  IN  Added(Flagged(Stepsum(i, a, b, flag, y)))

Judged(r, cond, y) == [r |-> r, cond |-> cond, flag |-> Bit(cond), y |-> y]

Compute(i, a, b, flag, y) ==
  LET f == AluOp(i.aluop, a, b, Carry(i.cin, flag)) IN Judged(f.r, ALUcond(i.cond, f), y)

Shift(i, b, y) == Judged(b, ALUcond(i.cond, Plain(b)), y)

(* Result, condition, flag and Y after a micro instruction.                *)
Microalu(i, a, b, flag, y) ==
  [ (CASE i.class \in {"ALU", "TEST"} -> Compute(i, a, b, flag, y)
       [] i.class = "STEP" -> Step(i, a, b, flag, y)
       [] i.class = "SHIFT" -> Shift(i, b, y))
    EXCEPT !.flag = IF i.flag THEN @ ELSE flag ]

(* The number of zeros above the highest bit that is set.                  *)
LeadingzerosPlus(b) == CHOOSE k \in 1 .. W + 1 : (k <= W => b >= 2^(W-k)) /\ b < 2^(W+1-k)
Leadingzeros(b) == CHOOSE k \in 0 .. W : (k < W => b >= 2^(W-1-k)) /\ b < 2^(W-k)

Microbarrel(i, a, b) ==
  IF i.class # "SHIFT" THEN b
  ELSE LET c == a % W
           v == IF i.pri THEN Leadingzeros(b) ELSE b
       IN  CASE i.mode = "LSR" -> v \div 2^c
             [] i.mode = "LSL" -> Cell(v * 2^c)
             [] i.mode = "ROL" -> Cell(v * 2^c) + v \div 2^(W-c)
             [] i.mode = "ASR" -> Or(v \div 2^c, IF Negative(b) THEN 2^W - 2^(W-c) ELSE 0)

=============================================================================
