------------------------------ MODULE FriscWord ------------------------------
(***************************************************************************)
(* Cells, the adder, conditions and stack caches, as the simulators of the *)
(* FRISC processors have them (src/chips/sim).  A cell has W bits and a    *)
(* stack cache has N slots: 32 and 16 in the code.                         *)
(***************************************************************************)
EXTENDS Integers, Sequences

CONSTANTS W, N

ASSUME SizeAssumption == W \in Nat /\ W >= 2 /\ N \in Nat /\ N >= 6

Word == 0 .. 2^W - 1
Msb == 2^(W-1)
Cell(i) == i % 2^W
Com(a) == 2^W - 1 - a
Negative(a) == a >= Msb
Bit(b) == IF b THEN 1 ELSE 0
Slotempty(a) == (a \div 2^(W-4)) % 2 = 1
Unslotted(a) == IF Slotempty(a) THEN a - 2^(W-4) ELSE a
Truth(b) == IF b THEN 2^W - 1 ELSE 0

(* The sum of two cells and a carry, with the flags V (overflow) and C.    *)
AddopHalf(t, b, cin) ==
  LET r == (t + b + cin) % 2^W   mt == Negative(t)   mb == Negative(b)
  IN  [r |-> r, v |-> mt /\ mb /\ ~Negative(r), c |-> (mt /\ mb) \/ (~Negative(r) /\ (mt \/ mb))]

Addop(t, b, cin) ==
  LET r == (t + b + cin) % 2^W
      mt == Negative(t)   mb == Negative(b)   mr == Negative(r)
  IN  [r |-> r,
       v |-> (mt /\ mb /\ ~mr) \/ (~mt /\ ~mb /\ mr),
       c |-> (mt /\ mb) \/ (~mr /\ (mt \/ mb))]

(* A result with the four flags; logic operations leave V and C clear.     *)
Flagged(s) == [r |-> s.r, v |-> s.v, c |-> s.c, n |-> Negative(s.r), z |-> s.r = 0]
Plain(r) == Flagged([r |-> r, v |-> FALSE, c |-> FALSE])

(* The bits that two cells have in common, and those that one or both or   *)
(* just one of them have.                                                  *)
Bitof(a, k) == (a \div 2^k) % 2
And(a, b) ==
  LET low[k \in 0 .. W] ==
        IF k = 0 THEN 0 ELSE low[k-1] + 2^(k-1) * Bitof(a, k-1) * Bitof(b, k-1)
  IN  low[W]
Or(a, b) == a + b - And(a, b)
Xor(a, b) == a + b - 2 * And(a, b)

LogicOps == {"ONES", "ZEROS", "NOPA", "NOPB", "NOTA", "NOTB", "AANDB", "ABARANDB", "AANDBBAR",
             "ANANDB", "AORB", "ABARORB", "AORBBAR", "ANORB", "AXORB", "ANXORB"}
ArithOps == {"APLUSB", "AMINUSB", "BMINUSA", "NEGA", "NEGB", "INCA", "INCB", "DECA", "DECB",
             "ABARPLUSBBAR"}

Logic(op, a, b) ==
  CASE op = "ONES" -> Com(0)          [] op = "ZEROS" -> 0
    [] op = "NOPA" -> a               [] op = "NOPB" -> b
    [] op = "NOTA" -> Com(a)          [] op = "NOTB" -> Com(b)
    [] op = "AANDB" -> And(a, b)          [] op = "ABARANDB" -> And(Com(a), b)
    [] op = "AANDBBAR" -> And(a, Com(b))  [] op = "ANANDB" -> Com(And(a, b))
    [] op = "AORB" -> Or(a, b)            [] op = "ABARORB" -> Or(Com(a), b)
    [] op = "AORBBAR" -> Or(a, Com(b))    [] op = "ANORB" -> Com(Or(a, b))
    [] op = "AXORB" -> Xor(a, b)          [] op = "ANXORB" -> Com(Xor(a, b))

(* What each arithmetic operation puts on the two inputs of the adder.     *)
AdderInputs(op, a, b) ==
  CASE op = "APLUSB" -> <<a, b>>        [] op = "AMINUSB" -> <<a, Com(b)>>
    [] op = "BMINUSA" -> <<b, Com(a)>>  [] op = "NEGA" -> <<Com(a), 0>>
    [] op = "NEGB" -> <<0, Com(b)>>     [] op = "INCA" -> <<a, 0>>
    [] op = "INCB" -> <<0, b>>          [] op = "DECA" -> <<a, Com(0)>>
    [] op = "DECB" -> <<Com(0), b>>     [] op = "ABARPLUSBBAR" -> <<Com(a), Com(b)>>

AluOp(op, a, b, cin) ==
  IF op \in LogicOps
  THEN Plain(Logic(op, a, b))
  ELSE LET in == AdderInputs(op, a, b) IN Flagged(Addop(in[1], in[2], cin))

(* Carry input of an instruction, from the flag or not.                    *)
Carry(cin, flag) ==
  CASE cin = "ZERO" -> 0 [] cin = "ONE" -> 1 [] cin = "CFLAG" -> flag [] cin = "CFLAGBAR" -> 1 - flag

ALUcond(cond, f) ==
  CASE cond = "CLEAR" -> FALSE          [] cond = "SET" -> TRUE
    [] cond = "EQUAL" -> f.z            [] cond = "NEQUAL" -> ~f.z
    [] cond = "NEG" -> f.n              [] cond = "NBAR" -> ~f.n
    [] cond = "COUT" -> f.c             [] cond = "CBAR" -> ~f.c
    [] cond = "OVFLOW" -> f.v           [] cond = "VBAR" -> ~f.v
    [] cond = "LESS" -> f.n # f.v       [] cond = "GREATEREQ" -> ~(f.n # f.v)
    [] cond = "ULESSEQ" -> ~f.c \/ f.z  [] cond = "UGREATER" -> ~(~f.c \/ f.z)
    [] cond = "LESSEQ" -> (f.n # f.v) \/ f.z
    [] cond = "GREATER" -> ~((f.n # f.v) \/ f.z)

Conditions == {"CLEAR", "SET", "EQUAL", "NEQUAL", "NEG", "NBAR", "COUT", "CBAR", "OVFLOW", "VBAR",
               "LESS", "GREATEREQ", "ULESSEQ", "UGREATER", "LESSEQ", "GREATER"}

-----------------------------------------------------------------------------
(* A stack cache: the slots, the top, the marks of overflow and underflow, *)
(* and the external stack pointer to what was spilled (it grows down).     *)

Slots == 0 .. N - 1
StackRegs == [S0 |-> 0, S1 |-> 1, S2 |-> 2, S3 |-> 3]
ReturnRegs == [R0 |-> 0, R1 |-> 1, R2 |-> 2, R3 |-> 3]

At(s, i) == s.slot[(s.top - i) % N]
Put(s, i, v) == [s EXCEPT !.slot[(s.top - i) % N] = v]
MovedOff(s, d) == [s EXCEPT !.top = @ + d]
Moved(s, d) == [s EXCEPT !.top = (@ + d) % N]
Marked(s, d) == [s EXCEPT !.over = (@ + d) % N, !.under = (@ + d) % N]
Full(s) == s.top = s.over
Low(s) == s.top = s.under
WithTops(s, top, over) == [s EXCEPT !.top = top, !.over = over, !.under = (over + 4) % N]

(* The stack a program sees: the slots in use above what was spilled.      *)
Held(s) == (s.top - s.over) % N
Logical(s, spilled) == [i \in 1 .. Held(s) |-> At(s, i - 1)] \o spilled

=============================================================================
