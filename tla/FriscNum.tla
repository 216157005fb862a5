------------------------------ MODULE FriscNum -------------------------------
(***************************************************************************)
(* Numbers on the FRISC processors: the computing parts of the simulators  *)
(* (Frisc3, its variant in SimQbr, FriscAlu and FriscAlu4c) carry out the  *)
(* sequences of instructions that their steps are made for on all operands *)
(* of W bits: multiplication, division, comparison and normalisation.      *)
(* What comes out is compared with the arithmetic of integers.             *)
(*                                                                         *)
(* Between two instructions all there is of a sequence is in the top of    *)
(* the stack, a register, Y (on FRISC 3 one more register) and the flag.   *)
(***************************************************************************)
EXTENDS FriscWord

(* A multiplication of FRISC 4 takes two bits at a time. *)
ASSUME EvenAssumption == W % 2 = 0

VARIABLES
  alu,           \* which computing part
  task,          \* what is computed: a name and, to compare, a condition
  given,         \* the operands
  reg,           \* tos, reg and y
  flag,
  k              \* number of instructions done

vars == <<alu, task, given, reg, flag, k>>

F3 == INSTANCE Frisc3
Q == INSTANCE SimQbr
A == INSTANCE FriscAlu
C == INSTANCE FriscAlu4c

Old == {"frisc3", "simqbr"}
New == {"frisc4", "frisc4c"}
Signed(a) == IF Negative(a) THEN a - 2^W ELSE a

-----------------------------------------------------------------------------
(* An instruction, with the registers of its operand on the bus B and of   *)
(* its result; operand A is the top of the stack.                          *)

Plainstep ==
  [in |-> "reg", out |-> "reg", type |-> "MICRO", class |-> "STEP", mode |-> "SHIFT", step |-> "STEPB",
   shift |-> "NONE", aluop |-> "NOPB", flag |-> TRUE, cond |-> "CLEAR", cin |-> "ZERO", sin |-> "SFLAG",
   rsrc |-> "SFLAG", fsrc |-> "FLALUCOND", flagin |-> "FLSHIFT", ycont |-> "YNOP", bsrc |-> "DL",
   left |-> FALSE, right |-> FALSE, pri |-> FALSE, imm |-> FALSE, literal |-> 0]

(* FRISC 4: the accumulator on top of the stack, the multiplier in Y; the  *)
(* dividend in the register and Y, the divisor on top.                     *)
Booth == [Plainstep EXCEPT !.out = "tos", !.step = "MUL", !.right = TRUE, !.rsrc = "SALUCOND",
                           !.cond = "LESS", !.fsrc = "FLY1", !.ycont = "YRIGHT"]
Divide == [Plainstep EXCEPT !.step = "DIV", !.left = TRUE, !.fsrc = "FLDIVHELP", !.ycont = "YLEFT"]
Restore == [Plainstep EXCEPT !.step = "CADD", !.ycont = "YLEFT"]

(* FRISC 3: bit by bit, the other register shifted between the steps.      *)
Shifted(dir) == [Plainstep EXCEPT !.in = "y", !.out = "y", !.shift = dir]
Addbit == [Plainstep EXCEPT !.step = "MUL", !.shift = "RIGHT", !.sin = "SALUCOND", !.cond = "COUT"]
Subtract == [Plainstep EXCEPT !.step = "DIV1", !.shift = "LEFT", !.cin = "ONE", !.cond = "COUT",
                              !.flagin = "FLCOND"]
Addback == [Plainstep EXCEPT !.step = "DIV2", !.flag = FALSE]

Compare(cond) == [Plainstep EXCEPT !.class = "ALU", !.mode = "ALU", !.aluop = "AMINUSB", !.cin = "ONE",
                                   !.cond = cond, !.flagin = "FLCOND"]
Zeros == [Plainstep EXCEPT !.out = "tos", !.class = "SHIFT", !.imm = TRUE, !.pri = TRUE,
                           !.mode = IF alu = "frisc4c" THEN "PRI" ELSE "LSR"]
Scale == [Plainstep EXCEPT !.class = "SHIFT", !.mode = "LSL"]

(* The instructions of a task, counted from 0.                             *)
Length ==
  CASE task.name = "multiply" -> IF alu \in New THEN W \div 2 ELSE 2 * W + 1
    [] task.name = "divide" -> IF alu \in New THEN W + 1 ELSE 3 * W + 1
    [] task.name = "compare" -> 1
    [] task.name = "normalise" -> 2

Multiply(j) ==
  IF alu \in New THEN Booth ELSE IF j % 2 = 0 THEN Shifted("RIGHT") ELSE Addbit
Division(j) ==
  IF alu \in New THEN IF j < W THEN Divide ELSE Restore
  ELSE CASE j % 3 = 0 -> Shifted("LEFT") [] j % 3 = 1 -> Subtract [] j % 3 = 2 -> Addback
Step(j) ==
  CASE task.name = "multiply" -> Multiply(j)
    [] task.name = "divide" -> Division(j)
    [] task.name = "compare" -> Compare(task.cond)
    [] task.name = "normalise" -> IF j = 0 THEN Zeros ELSE Scale

-----------------------------------------------------------------------------
(* The result and the new Y and flag of an instruction.                    *)
Oldly(i, x, u) == [r |-> F3!Bsrcb(x, u, F3!Flag(x, u)), flag |-> F3!Flag(x, u), y |-> reg.y]
Newly(i, u, fl, barrel) == [r |-> IF i.class = "SHIFT" THEN barrel ELSE u.r, flag |-> fl, y |-> u.y]

Amount(i, a) == IF i.class = "SHIFT" /\ i.imm THEN i.literal ELSE a

Outcome(i, a, b) ==
  LET x == [ir |-> i, alua |-> a, alub |-> b, flag |-> flag, shr |-> 0]
      t == Amount(i, a)
  IN  CASE alu = "frisc3" -> Oldly(i, x, F3!Microalu(x))
        [] alu = "simqbr" -> Oldly(i, x, Q!Microalu(x))
        [] alu = "frisc4" -> LET u == A!Microalu(i, t, b, flag, reg.y)
                             IN  Newly(i, u, u.flag, A!Microbarrel(i, t, b))
        [] alu = "frisc4c" -> LET u == C!Microalu(i, t, b, flag, reg.y)
                              IN  Newly(i, u, C!Flag(i, u.fl, flag), C!Microbarrel(i, t, b, flag))

Begin(name, cond, operands, start, fl) ==
  /\ task = [name |-> name, cond |-> cond]
  /\ given = operands
  /\ reg = start
  /\ flag = fl
  /\ k = 0

(* A divisor on FRISC 3 has its high bit clear: the step has no place for  *)
(* the bit that the shift of the dividend loses.                           *)
Divisors == IF alu \in Old THEN 1 .. Msb - 1 ELSE 1 .. 2^W - 1

Init ==
  /\ alu \in Old \cup New
  /\ \/ \E a, b \in Word :
          Begin("multiply", "CLEAR", <<a, b>>,
                IF alu \in Old THEN [tos |-> a, reg |-> 0, y |-> b] ELSE [tos |-> 0, reg |-> a, y |-> b], 0)
     \/ \E d \in Divisors : \E hi \in 0 .. d - 1 : \E lo \in Word :
          Begin("divide", "CLEAR", <<hi * 2^W + lo, d>>, [tos |-> d, reg |-> hi, y |-> lo], 1)
     \/ \E a, b \in Word : \E c \in Conditions :
          Begin("compare", c, <<a, b>>, [tos |-> a, reg |-> b, y |-> 0], 0)
     \/ /\ alu \in New
        /\ \E b \in Word : Begin("normalise", "CLEAR", <<b>>, [tos |-> 0, reg |-> b, y |-> 0], 0)

Instruction ==
  /\ k < Length
  /\ k' = k + 1
  /\ LET i == Step(k) IN
       \E u \in {Outcome(i, reg.tos, reg[i.in])} :
         /\ reg' = [[reg EXCEPT !.y = u.y] EXCEPT ![i.out] = u.r]
         /\ flag' = u.flag
  /\ UNCHANGED <<alu, task, given>>

Next == Instruction
Spec == Init /\ [][Next]_vars

-----------------------------------------------------------------------------
Ended(name) == task.name = name /\ k = Length

(* Steps and shifts multiply: on FRISC 4 signed numbers by Booth's method, *)
(* where the shifts must repair the sum when it overflows, on FRISC 3      *)
(* unsigned ones with the carry.  The product has 2W bits.                 *)
Multiplied ==
  Ended("multiply") =>
    IF alu \in New THEN 2^W * Signed(reg.tos) + reg.y = Signed(given[1]) * Signed(given[2])
    ELSE 2^W * reg.reg + reg.y = given[1] * given[2]

(* Steps divide 2W bits by W bits when the quotient has W bits, without    *)
(* restoring on FRISC 4, where every bit lost in a shift must enter into   *)
(* the next decision, and leave quotient and remainder.                    *)
Divided ==
  Ended("divide") => /\ reg.y = given[1] \div given[2]
                     /\ reg.reg = given[1] % given[2]

(* What a condition is named for, of signed and unsigned numbers.          *)
Meant(cond, a, b) ==
  LET sa == Signed(a)   sb == Signed(b)
      difference == Cell(a - b)
      fits == sa - sb \in (0 - Msb) .. Msb - 1
  IN  CASE cond = "CLEAR" -> FALSE           [] cond = "SET" -> TRUE
        [] cond = "EQUAL" -> a = b           [] cond = "NEQUAL" -> a # b
        [] cond = "NEG" -> difference >= Msb [] cond = "NBAR" -> difference < Msb
        [] cond = "COUT" -> a >= b           [] cond = "CBAR" -> a < b
        [] cond = "OVFLOW" -> ~fits          [] cond = "VBAR" -> fits
        [] cond = "LESS" -> sa < sb          [] cond = "GREATEREQ" -> sa >= sb
        [] cond = "LESSEQ" -> sa <= sb       [] cond = "GREATER" -> sa > sb
        [] cond = "ULESSEQ" -> a <= b        [] cond = "UGREATER" -> a > b

(* After a subtraction every condition tells what it is named for, also    *)
(* when the difference overflows.                                          *)
Compared == Ended("compare") => (flag = 1) = Meant(task.cond, given[1], given[2])

(* The count of leading zeros, used as the amount of a shift, brings the   *)
(* highest bit to the top and loses none; zero stays zero, though its      *)
(* count is the width and the amount is taken modulo the width.            *)
Normalised ==
  Ended("normalise") =>
    /\ given[1] # 0 => reg.reg >= Msb /\ reg.reg \div 2^reg.tos = given[1]
    /\ given[1] = 0 => reg.reg = 0 /\ reg.tos = W

=============================================================================
