--------------------------- MODULE FriscNumProofs ----------------------------
(***************************************************************************)
(* What the sequences of steps compute on cells of any even number of      *)
(* bits: the invariants of FriscNum for every W.                           *)
(***************************************************************************)
EXTENDS FriscNum, FunctionTheorems, FiniteSetTheorems, WellFoundedInduction, TLAPS

-----------------------------------------------------------------------------
(* Powers of two, from the number of subsets of a finite set.              *)

Less == {ss \in Nat \X Nat : ss[1] < ss[2]}

LEMMA LessIsRelation == OpToRel(<, Nat) = Less
  BY Zenon DEF OpToRel, Less

LEMMA LessWellFounded == IsWellFoundedOn(Less, Nat)
  BY NatLessThanWellFounded, LessIsRelation, Zenon

(* Every nonempty set of naturals has a least element. *)
LEMMA LeastNatural ==
  ASSUME NEW S \in SUBSET Nat, S # {}
  PROVE  \E n \in S : \A i \in S : n <= i
<1>1. \E n \in S : \A i \in S : <<i, n>> \notin Less
  <2> HIDE DEF Less
  <2> QED BY LessWellFounded, WFMin
<1>2. \A i, j \in Nat : i < j => <<i, j>> \in Less
  BY DEF Less
<1>3. PICK n \in S : \A i \in S : <<i, n>> \notin Less
  BY <1>1
<1>4. \A i \in S : ~(i < n)
  BY <1>2, <1>3
<1> QED
  BY <1>4

LEMMA PowerCounts ==
  ASSUME NEW n \in Nat
  PROVE  /\ IsFiniteSet(SUBSET (1 .. n))
         /\ Cardinality(SUBSET (1 .. n)) = 2^n
<1>1. IsFiniteSet(1 .. n) /\ Cardinality(1 .. n) = n
  BY FS_Interval
<1> QED
  BY <1>1, FS_SUBSET

LEMMA PowerPositive ==
  ASSUME NEW n \in Nat
  PROVE  2^n \in Nat /\ 2^n > 0
<1>1. 2^n \in Nat
  BY PowerCounts, FS_CardinalityType
<1>2. 2^n # 0
  <2>1. SUBSET (1 .. n) # {}
    OBVIOUS
  <2> QED
    BY <2>1, PowerCounts, FS_EmptySet
<1> QED
  BY <1>1, <1>2

LEMMA PowerNext ==
  ASSUME NEW n \in Nat
  PROVE  2^(n+1) = 2 * 2^n
<1> DEFINE P == SUBSET (1 .. n)
           With == {X \in SUBSET (1 .. n+1) : n+1 \in X}
           f == [X \in P |-> X \cup {n+1}]
<1>1. SUBSET (1 .. n+1) = P \cup With /\ P \cap With = {}
  OBVIOUS
<1>2. f \in Bijection(P, With)
  <2>1. f \in [P -> With]
    OBVIOUS
  <2>2. \A X, Y \in P : f[X] = f[Y] => X = Y
    <3> SUFFICES ASSUME NEW X \in P, NEW Y \in P, f[X] = f[Y] PROVE X = Y
      OBVIOUS
    <3>1. n+1 \notin X /\ n+1 \notin Y
      OBVIOUS
    <3>2. X \cup {n+1} = Y \cup {n+1}
      OBVIOUS
    <3> QED
      BY <3>1, <3>2
  <2>3. \A Y \in With : \E X \in P : f[X] = Y
    <3> SUFFICES ASSUME NEW Y \in With PROVE f[Y \ {n+1}] = Y /\ Y \ {n+1} \in P
      OBVIOUS
    <3>1. Y \ {n+1} \in P
      OBVIOUS
    <3>2. (Y \ {n+1}) \cup {n+1} = Y
      OBVIOUS
    <3> QED
      BY <3>1, <3>2
  <2> QED
    BY <2>1, <2>2, <2>3, Fun_IsBij
<1>3. IsFiniteSet(P) /\ Cardinality(P) = 2^n
  BY PowerCounts
<1>4. IsFiniteSet(With) /\ Cardinality(With) = Cardinality(P)
  BY <1>2, <1>3, FS_Bijection DEF ExistsBijection
<1>5. Cardinality(P \cup With) = Cardinality(P) + Cardinality(With) - Cardinality({})
  BY <1>1, <1>3, <1>4, FS_Union
<1>6. Cardinality(SUBSET (1 .. n+1)) = 2^(n+1)
  BY PowerCounts
<1>7. Cardinality(P \cup With) = 2^(n+1)
  BY <1>1, <1>6
<1>8. Cardinality({}) = 0 /\ 2^n \in Nat
  BY FS_EmptySet, PowerPositive
<1> HIDE DEF P, With
<1> QED
  BY <1>3, <1>4, <1>5, <1>7, <1>8

LEMMA PowerZero == 2^0 = 1
  BY PowerCounts, FS_EmptySet, FS_Singleton

(* A power splits where its exponent does. *)
LEMMA PowerSum ==
  ASSUME NEW n \in Nat, NEW i \in Nat
  PROVE  2^(n+i) = 2^n * 2^i
<1> DEFINE Bad == {j \in Nat : 2^(n+j) # 2^n * 2^j}
<1> SUFFICES ASSUME Bad # {} PROVE FALSE
  OBVIOUS
<1>1. PICK j \in Bad : \A l \in Bad : j <= l
  BY LeastNatural
<1>2. j # 0
  <2>1. n + 0 = n /\ 2^n * 1 = 2^n
    BY PowerPositive
  <2> QED
    BY <2>1, PowerZero
<1>3. j-1 \in Nat /\ j-1 \notin Bad
  BY <1>1, <1>2
<1>4. 2^(n+(j-1)) = 2^n * 2^(j-1)
  BY <1>3
<1>5. 2^(n+j) = 2 * 2^(n+(j-1))
  BY <1>3, PowerNext
<1>6. 2^j = 2 * 2^(j-1)
  BY <1>3, PowerNext
<1>7. 2^n \in Nat /\ 2^(j-1) \in Nat
  BY <1>3, PowerPositive
<1>8. \A x, y \in Nat : 2 * (x * y) = x * (2 * y)
  OBVIOUS
<1> QED
  BY <1>1, <1>4, <1>5, <1>6, <1>7, <1>8

-----------------------------------------------------------------------------
(* Division with remainder, and cells as integers modulo 2^W.              *)

LEMMA DivisionUnique ==
  ASSUME NEW n \in Int, NEW d \in Nat, d > 0, NEW q \in Int, NEW r \in 0 .. d - 1, n = q * d + r
  PROVE  n \div d = q /\ n % d = r
<1>1. /\ n \div d \in Int /\ n % d \in 0 .. d - 1
      /\ n = d * (n \div d) + (n % d)
  OBVIOUS
<1> DEFINE p == n \div d
           s == n % d
<1>2. p \in Int /\ s \in 0 .. d - 1 /\ n = d * p + s
  BY <1>1
<1> HIDE DEF p, s
<1>3. d * (p - q) = r - s
  BY <1>2
<1>4. ~(p - q >= 1)
  <2>1. \A x \in Int : x >= 1 => d * x >= d
    OBVIOUS
  <2> QED
    BY <1>2, <1>3, <2>1
<1>5. ~(p - q <= -1)
  <2>1. \A x \in Int : x <= -1 => d * x <= -d
    OBVIOUS
  <2> QED
    BY <1>2, <1>3, <2>1
<1>6. p = q
  BY <1>2, <1>4, <1>5
<1>7. s = r
  BY <1>2, <1>3, <1>6
<1> QED
  BY <1>6, <1>7 DEF p, s

LEMMA CellSize ==
  /\ W \in Nat /\ W >= 2 /\ W % 2 = 0
  /\ Msb \in Nat /\ Msb >= 2 /\ 2^W = 2 * Msb
  /\ Msb \div 2 \in Nat /\ Msb = 2 * (Msb \div 2)
<1>1. W \in Nat /\ W >= 2 /\ W % 2 = 0
  BY SizeAssumption, EvenAssumption
<1>2. 2^(W-2+1) = 2 * 2^(W-2) /\ 2^(W-1+1) = 2 * 2^(W-1)
  BY <1>1, PowerNext
<1>3. W-2+1 = W-1 /\ W-1+1 = W
  BY <1>1
<1>4. 2^(W-2) \in Nat /\ 2^(W-2) > 0
  BY <1>1, PowerPositive
<1>5. Msb = 2 * 2^(W-2) /\ 2^W = 2 * Msb
  BY <1>2, <1>3 DEF Msb
<1> QED
  BY <1>1, <1>4, <1>5

LEMMA CellOf ==
  ASSUME NEW s \in Int, -2 * Msb <= s, s < 4 * Msb
  PROVE  Cell(s) = IF s < 0 THEN s + 2 * Msb ELSE IF s < 2 * Msb THEN s ELSE s - 2 * Msb
<1> DEFINE r == IF s < 0 THEN s + 2 * Msb ELSE IF s < 2 * Msb THEN s ELSE s - 2 * Msb
           q == IF s < 0 THEN -1 ELSE IF s < 2 * Msb THEN 0 ELSE 1
<1>1. 2 * Msb \in Nat /\ 2 * Msb > 0 /\ 2^W = 2 * Msb
  BY CellSize
<1>2. q \in Int /\ r \in 0 .. 2 * Msb - 1 /\ s = q * (2 * Msb) + r
  BY CellSize
<1> HIDE DEF r, q
<1>3. s % (2 * Msb) = r
  BY <1>1, <1>2, DivisionUnique
<1> QED
  BY <1>1, <1>3 DEF Cell, r

(* The adder: a carry is a sum of unsigned numbers that needs one more     *)
(* bit, an overflow a sum of signed numbers that does, and the difference  *)
(* of N and V is the sign of the sum, whether it overflows or not.         *)
LEMMA AdderFlags ==
  ASSUME NEW t \in Word, NEW b \in Word, NEW cin \in {0, 1}
  PROVE  LET s == t + b + cin
             z == Signed(t) + Signed(b) + cin
             f == Flagged(Addop(t, b, cin))
         IN  /\ f = [r |-> f.r, v |-> f.v, c |-> f.c, n |-> f.n, z |-> f.z]
             /\ f.r \in Word
             /\ f.r = IF s >= 2^W THEN s - 2^W ELSE s
             /\ f.c \in BOOLEAN /\ (f.c <=> s >= 2^W)
             /\ f.v \in BOOLEAN /\ (f.v <=> z \notin (0 - Msb) .. Msb - 1)
             /\ f.n \in BOOLEAN /\ (f.n <=> f.r >= Msb)
             /\ f.z \in BOOLEAN /\ (f.z <=> f.r = 0)
             /\ (f.n # f.v) <=> z < 0
             /\ f.r = IF z < 0 THEN z + 2^W ELSE z
<1> DEFINE s == t + b + cin
           z == Signed(t) + Signed(b) + cin
           a == Addop(t, b, cin)
           f == Flagged(a)
<1>1. Msb \in Nat /\ Msb >= 2 /\ 2^W = 2 * Msb
  BY CellSize
<1>2. t \in 0 .. 2 * Msb - 1 /\ b \in 0 .. 2 * Msb - 1
  BY <1>1 DEF Word
<1>3. a.r = Cell(s)
  BY DEF Addop, Cell
<1>4. Cell(s) = IF s < 2 * Msb THEN s ELSE s - 2 * Msb
  BY <1>1, <1>2, CellOf
<1>5. /\ a.c = ((t >= Msb /\ b >= Msb) \/ (~(a.r >= Msb) /\ (t >= Msb \/ b >= Msb)))
      /\ a.v = ((t >= Msb /\ b >= Msb /\ ~(a.r >= Msb)) \/ (~(t >= Msb) /\ ~(b >= Msb) /\ a.r >= Msb))
  BY DEF Addop, Negative
<1>6. f = [r |-> a.r, v |-> a.v, c |-> a.c, n |-> a.r >= Msb, z |-> a.r = 0]
  BY DEF Flagged, Negative
<1>7. z = (IF t >= Msb THEN t - 2 * Msb ELSE t) + (IF b >= Msb THEN b - 2 * Msb ELSE b) + cin
  BY <1>1 DEF Signed, Negative
<1>8. a.r = (IF s < 2 * Msb THEN s ELSE s - 2 * Msb) /\ a.r \in 0 .. 2 * Msb - 1
  BY <1>1, <1>2, <1>3, <1>4
<1>9. (a.c <=> s >= 2 * Msb) /\ (a.v <=> z \notin (0 - Msb) .. Msb - 1)
  <2> HIDE DEF a, z
  <2>0. cin \in Int /\ t \in Int /\ b \in Int /\ z \in Int /\ a.r \in Int
    BY <1>1, <1>2, <1>7, <1>8
  <2>1. CASE t >= Msb /\ b >= Msb
    <3>1. z = t + b + cin - 4 * Msb
      BY <1>1, <1>2, <1>7, <2>0, <2>1
    <3>2. (a.v <=> ~(a.r >= Msb)) /\ a.c
      BY <1>5, <2>1
    <3> QED
      BY <1>1, <1>2, <1>8, <2>0, <2>1, <3>1, <3>2
  <2>2. CASE (t >= Msb /\ ~(b >= Msb)) \/ (~(t >= Msb) /\ b >= Msb)
    <3>1. z = t + b + cin - 2 * Msb
      BY <1>1, <1>2, <1>7, <2>0, <2>2
    <3>2. ~a.v /\ (a.c <=> ~(a.r >= Msb))
      BY <1>5, <2>2
    <3> QED
      BY <1>1, <1>2, <1>8, <2>0, <2>2, <3>1, <3>2
  <2>3. CASE ~(t >= Msb) /\ ~(b >= Msb)
    <3>1. z = t + b + cin
      BY <1>1, <1>2, <1>7, <2>0, <2>3
    <3>2. (a.v <=> a.r >= Msb) /\ ~a.c
      BY <1>5, <2>3
    <3> QED
      BY <1>1, <1>2, <1>8, <2>0, <2>3, <3>1, <3>2
  <2> QED
    BY <2>1, <2>2, <2>3
<1>10. a.c \in BOOLEAN /\ a.v \in BOOLEAN
  BY <1>5
<1>11. (((a.r >= Msb) # a.v) <=> z < 0) /\ a.r = IF z < 0 THEN z + 2 * Msb ELSE z
  <2> HIDE DEF a, z
  <2>0. cin \in Int /\ t \in Int /\ b \in Int /\ z \in Int /\ a.r \in Int
    BY <1>1, <1>2, <1>7, <1>8
  <2>1. ((a.r >= Msb /\ ~a.v) \/ (~(a.r >= Msb) /\ a.v)) <=> z < 0
    <3>1. (a.v <=> z \notin (0 - Msb) .. Msb - 1)
      BY <1>9
    <3> QED
      BY <1>1, <1>2, <1>7, <1>8, <2>0, <3>1
  <2>2. a.r = IF z < 0 THEN z + 2 * Msb ELSE z
    <3>1. CASE t >= Msb /\ b >= Msb
      <4>1. z = t + b + cin - 4 * Msb
        BY <1>1, <1>2, <1>7, <2>0, <3>1
      <4> QED
        BY <1>1, <1>2, <1>8, <2>0, <3>1, <4>1
    <3>2. CASE (t >= Msb /\ ~(b >= Msb)) \/ (~(t >= Msb) /\ b >= Msb)
      <4>1. z = t + b + cin - 2 * Msb
        BY <1>1, <1>2, <1>7, <2>0, <3>2
      <4> QED
        BY <1>1, <1>2, <1>8, <2>0, <3>2, <4>1
    <3>3. CASE ~(t >= Msb) /\ ~(b >= Msb)
      <4>1. z = t + b + cin
        BY <1>1, <1>2, <1>7, <2>0, <3>3
      <4> QED
        BY <1>1, <1>2, <1>8, <2>0, <3>3, <4>1
    <3> QED
      BY <3>1, <3>2, <3>3
  <2>3. (a.r >= Msb) \in BOOLEAN
    OBVIOUS
  <2>4. ((a.r >= Msb) # a.v) <=> ((a.r >= Msb /\ ~a.v) \/ (~(a.r >= Msb) /\ a.v))
    BY <1>10, <2>3, Zenon
  <2> QED
    BY <2>1, <2>2, <2>4, Zenon
<1>12. /\ f = [r |-> f.r, v |-> f.v, c |-> f.c, n |-> f.n, z |-> f.z]
       /\ f.r = a.r /\ f.v = a.v /\ f.c = a.c /\ f.n = (a.r >= Msb) /\ f.z = (a.r = 0)
  BY <1>6
<1> HIDE DEF a, f, z, s
<1>13. f.r \in Word
  BY <1>1, <1>8, <1>12 DEF Word
<1>14. f.r = IF s >= 2^W THEN s - 2^W ELSE s
  BY <1>1, <1>2, <1>8, <1>12 DEF s
<1>15. /\ f.c \in BOOLEAN /\ (f.c <=> s >= 2^W)
       /\ f.v \in BOOLEAN /\ (f.v <=> z \notin (0 - Msb) .. Msb - 1)
       /\ f.n \in BOOLEAN /\ (f.n <=> f.r >= Msb)
       /\ f.z \in BOOLEAN /\ (f.z <=> f.r = 0)
  <2>1. f.c \in BOOLEAN /\ f.v \in BOOLEAN /\ f.n \in BOOLEAN /\ f.z \in BOOLEAN
    <3>1. (a.r >= Msb) \in BOOLEAN /\ (a.r = 0) \in BOOLEAN
      OBVIOUS
    <3> QED
      BY <1>10, <1>12, <3>1, Zenon
  <2>2. (f.n <=> f.r >= Msb) /\ (f.z <=> f.r = 0)
    BY <1>12, Zenon
  <2>3. (f.c <=> s >= 2^W) /\ (f.v <=> z \notin (0 - Msb) .. Msb - 1)
    BY <1>1, <1>9, <1>12, Zenon
  <2> QED
    BY <2>1, <2>2, <2>3
<1>16. ((f.n # f.v) <=> z < 0) /\ f.r = IF z < 0 THEN z + 2^W ELSE z
  BY <1>1, <1>11, <1>12, Zenon
<1> QED
  BY <1>12, <1>13, <1>14, <1>15, <1>16 DEF a, f, z, s

-----------------------------------------------------------------------------
(* The modules of the processors have the same cells.                      *)

LEMMA OldCells ==
  /\ F3!Msb = Msb
  /\ \A x : F3!Bit(x) = Bit(x)
  /\ \A x : F3!Cell(x) = Cell(x)
  /\ \A x : F3!Com(x) = Com(x)
  /\ \A x : F3!Negative(x) = Negative(x)
  /\ \A x : F3!Truth(x) = Truth(x)
  /\ \A x : F3!Plain(x) = Plain(x)
  /\ \A x : F3!Flagged(x) = Flagged(x)
  /\ \A x, y, z : F3!Addop(x, y, z) = Addop(x, y, z)
  /\ \A x, y : F3!Carry(x, y) = Carry(x, y)
  /\ \A x, y : F3!ALUcond(x, y) = ALUcond(x, y)
  /\ \A x, y, z, u : F3!AluOp(x, y, z, u) = AluOp(x, y, z, u)
<1>1. F3!Msb = Msb
  BY DEF F3!Msb, Msb
<1>2. \A x : F3!Bit(x) = Bit(x)
  BY DEF F3!Bit, Bit
<1>3. \A x : F3!Cell(x) = Cell(x)
  BY DEF F3!Cell, Cell
<1>4. \A x : F3!Com(x) = Com(x)
  BY DEF F3!Com, Com
<1>5. \A x : F3!Negative(x) = Negative(x)
  BY DEF F3!Negative, Negative, F3!Msb, Msb
<1>6. \A x : F3!Truth(x) = Truth(x)
  BY DEF F3!Truth, Truth
<1>7. \A x : F3!Plain(x) = Plain(x)
  BY DEF F3!Plain, Plain, F3!Flagged, Flagged, F3!Negative, Negative, F3!Msb, Msb
<1>8. \A x : F3!Flagged(x) = Flagged(x)
  BY DEF F3!Flagged, Flagged, F3!Negative, Negative, F3!Msb, Msb
<1>9. \A x, y, z : F3!Addop(x, y, z) = Addop(x, y, z)
  BY DEF F3!Addop, Addop, F3!Negative, Negative, F3!Msb, Msb
<1>10. \A x, y : F3!Carry(x, y) = Carry(x, y)
  BY DEF F3!Carry, Carry
<1>11. \A x, y : F3!ALUcond(x, y) = ALUcond(x, y)
  BY DEF F3!ALUcond, ALUcond
<1>12. \A x, y, z, u : F3!AluOp(x, y, z, u) = AluOp(x, y, z, u)
  BY DEF F3!AluOp, AluOp, F3!Plain, Plain, F3!Flagged, Flagged, F3!Negative, Negative, F3!Msb, Msb, F3!Logic, Logic, F3!Com, Com, F3!And, And, F3!Or, Or, F3!Xor, Xor, F3!Bitof, Bitof, F3!LogicOps, LogicOps, F3!AdderInputs, AdderInputs, F3!Addop, Addop
<1> QED
  BY <1>1, <1>2, <1>3, <1>4, <1>5, <1>6, <1>7, <1>8, <1>9, <1>10, <1>11, <1>12, Zenon

LEMMA BranchCells ==
  /\ Q!Msb = Msb
  /\ \A x : Q!Bit(x) = Bit(x)
  /\ \A x : Q!Cell(x) = Cell(x)
  /\ \A x : Q!Com(x) = Com(x)
  /\ \A x : Q!Negative(x) = Negative(x)
  /\ \A x : Q!Truth(x) = Truth(x)
  /\ \A x : Q!Plain(x) = Plain(x)
  /\ \A x : Q!Flagged(x) = Flagged(x)
  /\ \A x, y, z : Q!Addop(x, y, z) = Addop(x, y, z)
  /\ \A x, y : Q!Carry(x, y) = Carry(x, y)
  /\ \A x, y : Q!ALUcond(x, y) = ALUcond(x, y)
  /\ \A x, y, z, u : Q!AluOp(x, y, z, u) = AluOp(x, y, z, u)
<1>1. Q!Msb = Msb
  BY DEF Q!Msb, Msb
<1>2. \A x : Q!Bit(x) = Bit(x)
  BY DEF Q!Bit, Bit
<1>3. \A x : Q!Cell(x) = Cell(x)
  BY DEF Q!Cell, Cell
<1>4. \A x : Q!Com(x) = Com(x)
  BY DEF Q!Com, Com
<1>5. \A x : Q!Negative(x) = Negative(x)
  BY DEF Q!Negative, Negative, Q!Msb, Msb
<1>6. \A x : Q!Truth(x) = Truth(x)
  BY DEF Q!Truth, Truth
<1>7. \A x : Q!Plain(x) = Plain(x)
  BY DEF Q!Plain, Plain, Q!Flagged, Flagged, Q!Negative, Negative, Q!Msb, Msb
<1>8. \A x : Q!Flagged(x) = Flagged(x)
  BY DEF Q!Flagged, Flagged, Q!Negative, Negative, Q!Msb, Msb
<1>9. \A x, y, z : Q!Addop(x, y, z) = Addop(x, y, z)
  BY DEF Q!Addop, Addop, Q!Negative, Negative, Q!Msb, Msb
<1>10. \A x, y : Q!Carry(x, y) = Carry(x, y)
  BY DEF Q!Carry, Carry
<1>11. \A x, y : Q!ALUcond(x, y) = ALUcond(x, y)
  BY DEF Q!ALUcond, ALUcond
<1>12. \A x, y, z, u : Q!AluOp(x, y, z, u) = AluOp(x, y, z, u)
  BY DEF Q!AluOp, AluOp, Q!Plain, Plain, Q!Flagged, Flagged, Q!Negative, Negative, Q!Msb, Msb, Q!Logic, Logic, Q!Com, Com, Q!And, And, Q!Or, Or, Q!Xor, Xor, Q!Bitof, Bitof, Q!LogicOps, LogicOps, Q!AdderInputs, AdderInputs, Q!Addop, Addop
<1> QED
  BY <1>1, <1>2, <1>3, <1>4, <1>5, <1>6, <1>7, <1>8, <1>9, <1>10, <1>11, <1>12, Zenon

LEMMA StudyCells ==
  /\ Q!F!Msb = Msb
  /\ \A x : Q!F!Bit(x) = Bit(x)
  /\ \A x : Q!F!Cell(x) = Cell(x)
  /\ \A x : Q!F!Com(x) = Com(x)
  /\ \A x : Q!F!Negative(x) = Negative(x)
  /\ \A x : Q!F!Truth(x) = Truth(x)
  /\ \A x : Q!F!Plain(x) = Plain(x)
  /\ \A x : Q!F!Flagged(x) = Flagged(x)
  /\ \A x, y, z : Q!F!Addop(x, y, z) = Addop(x, y, z)
  /\ \A x, y : Q!F!Carry(x, y) = Carry(x, y)
  /\ \A x, y : Q!F!ALUcond(x, y) = ALUcond(x, y)
  /\ \A x, y, z, u : Q!F!AluOp(x, y, z, u) = AluOp(x, y, z, u)
<1>1. Q!F!Msb = Msb
  BY DEF Q!F!Msb, Msb
<1>2. \A x : Q!F!Bit(x) = Bit(x)
  BY DEF Q!F!Bit, Bit
<1>3. \A x : Q!F!Cell(x) = Cell(x)
  BY DEF Q!F!Cell, Cell
<1>4. \A x : Q!F!Com(x) = Com(x)
  BY DEF Q!F!Com, Com
<1>5. \A x : Q!F!Negative(x) = Negative(x)
  BY DEF Q!F!Negative, Negative, Q!F!Msb, Msb
<1>6. \A x : Q!F!Truth(x) = Truth(x)
  BY DEF Q!F!Truth, Truth
<1>7. \A x : Q!F!Plain(x) = Plain(x)
  BY DEF Q!F!Plain, Plain, Q!F!Flagged, Flagged, Q!F!Negative, Negative, Q!F!Msb, Msb
<1>8. \A x : Q!F!Flagged(x) = Flagged(x)
  BY DEF Q!F!Flagged, Flagged, Q!F!Negative, Negative, Q!F!Msb, Msb
<1>9. \A x, y, z : Q!F!Addop(x, y, z) = Addop(x, y, z)
  BY DEF Q!F!Addop, Addop, Q!F!Negative, Negative, Q!F!Msb, Msb
<1>10. \A x, y : Q!F!Carry(x, y) = Carry(x, y)
  BY DEF Q!F!Carry, Carry
<1>11. \A x, y : Q!F!ALUcond(x, y) = ALUcond(x, y)
  BY DEF Q!F!ALUcond, ALUcond
<1>12. \A x, y, z, u : Q!F!AluOp(x, y, z, u) = AluOp(x, y, z, u)
  BY DEF Q!F!AluOp, AluOp, Q!F!Plain, Plain, Q!F!Flagged, Flagged, Q!F!Negative, Negative, Q!F!Msb, Msb, Q!F!Logic, Logic, Q!F!Com, Com, Q!F!And, And, Q!F!Or, Or, Q!F!Xor, Xor, Q!F!Bitof, Bitof, Q!F!LogicOps, LogicOps, Q!F!AdderInputs, AdderInputs, Q!F!Addop, Addop
<1> QED
  BY <1>1, <1>2, <1>3, <1>4, <1>5, <1>6, <1>7, <1>8, <1>9, <1>10, <1>11, <1>12, Zenon

LEMMA NewCells ==
  /\ A!Msb = Msb
  /\ \A x : A!Bit(x) = Bit(x)
  /\ \A x : A!Cell(x) = Cell(x)
  /\ \A x : A!Com(x) = Com(x)
  /\ \A x : A!Negative(x) = Negative(x)
  /\ \A x : A!Truth(x) = Truth(x)
  /\ \A x : A!Plain(x) = Plain(x)
  /\ \A x : A!Flagged(x) = Flagged(x)
  /\ \A x, y, z : A!Addop(x, y, z) = Addop(x, y, z)
  /\ \A x, y : A!Carry(x, y) = Carry(x, y)
  /\ \A x, y : A!ALUcond(x, y) = ALUcond(x, y)
  /\ \A x, y, z, u : A!AluOp(x, y, z, u) = AluOp(x, y, z, u)
<1>1. A!Msb = Msb
  BY DEF A!Msb, Msb
<1>2. \A x : A!Bit(x) = Bit(x)
  BY DEF A!Bit, Bit
<1>3. \A x : A!Cell(x) = Cell(x)
  BY DEF A!Cell, Cell
<1>4. \A x : A!Com(x) = Com(x)
  BY DEF A!Com, Com
<1>5. \A x : A!Negative(x) = Negative(x)
  BY DEF A!Negative, Negative, A!Msb, Msb
<1>6. \A x : A!Truth(x) = Truth(x)
  BY DEF A!Truth, Truth
<1>7. \A x : A!Plain(x) = Plain(x)
  BY DEF A!Plain, Plain, A!Flagged, Flagged, A!Negative, Negative, A!Msb, Msb
<1>8. \A x : A!Flagged(x) = Flagged(x)
  BY DEF A!Flagged, Flagged, A!Negative, Negative, A!Msb, Msb
<1>9. \A x, y, z : A!Addop(x, y, z) = Addop(x, y, z)
  BY DEF A!Addop, Addop, A!Negative, Negative, A!Msb, Msb
<1>10. \A x, y : A!Carry(x, y) = Carry(x, y)
  BY DEF A!Carry, Carry
<1>11. \A x, y : A!ALUcond(x, y) = ALUcond(x, y)
  BY DEF A!ALUcond, ALUcond
<1>12. \A x, y, z, u : A!AluOp(x, y, z, u) = AluOp(x, y, z, u)
  BY DEF A!AluOp, AluOp, A!Plain, Plain, A!Flagged, Flagged, A!Negative, Negative, A!Msb, Msb, A!Logic, Logic, A!Com, Com, A!And, And, A!Or, Or, A!Xor, Xor, A!Bitof, Bitof, A!LogicOps, LogicOps, A!AdderInputs, AdderInputs, A!Addop, Addop
<1> QED
  BY <1>1, <1>2, <1>3, <1>4, <1>5, <1>6, <1>7, <1>8, <1>9, <1>10, <1>11, <1>12, Zenon

LEMMA CacheCells ==
  /\ C!Msb = Msb
  /\ \A x : C!Bit(x) = Bit(x)
  /\ \A x : C!Cell(x) = Cell(x)
  /\ \A x : C!Com(x) = Com(x)
  /\ \A x : C!Negative(x) = Negative(x)
  /\ \A x : C!Truth(x) = Truth(x)
  /\ \A x : C!Plain(x) = Plain(x)
  /\ \A x : C!Flagged(x) = Flagged(x)
  /\ \A x, y, z : C!Addop(x, y, z) = Addop(x, y, z)
  /\ \A x, y : C!Carry(x, y) = Carry(x, y)
  /\ \A x, y : C!ALUcond(x, y) = ALUcond(x, y)
  /\ \A x, y, z, u : C!AluOp(x, y, z, u) = AluOp(x, y, z, u)
<1>1. C!Msb = Msb
  BY DEF C!Msb, Msb
<1>2. \A x : C!Bit(x) = Bit(x)
  BY DEF C!Bit, Bit
<1>3. \A x : C!Cell(x) = Cell(x)
  BY DEF C!Cell, Cell
<1>4. \A x : C!Com(x) = Com(x)
  BY DEF C!Com, Com
<1>5. \A x : C!Negative(x) = Negative(x)
  BY DEF C!Negative, Negative, C!Msb, Msb
<1>6. \A x : C!Truth(x) = Truth(x)
  BY DEF C!Truth, Truth
<1>7. \A x : C!Plain(x) = Plain(x)
  BY DEF C!Plain, Plain, C!Flagged, Flagged, C!Negative, Negative, C!Msb, Msb
<1>8. \A x : C!Flagged(x) = Flagged(x)
  BY DEF C!Flagged, Flagged, C!Negative, Negative, C!Msb, Msb
<1>9. \A x, y, z : C!Addop(x, y, z) = Addop(x, y, z)
  BY DEF C!Addop, Addop, C!Negative, Negative, C!Msb, Msb
<1>10. \A x, y : C!Carry(x, y) = Carry(x, y)
  BY DEF C!Carry, Carry
<1>11. \A x, y : C!ALUcond(x, y) = ALUcond(x, y)
  BY DEF C!ALUcond, ALUcond
<1>12. \A x, y, z, u : C!AluOp(x, y, z, u) = AluOp(x, y, z, u)
  BY DEF C!AluOp, AluOp, C!Plain, Plain, C!Flagged, Flagged, C!Negative, Negative, C!Msb, Msb, C!Logic, Logic, C!Com, Com, C!And, And, C!Or, Or, C!Xor, Xor, C!Bitof, Bitof, C!LogicOps, LogicOps, C!AdderInputs, AdderInputs, C!Addop, Addop
<1> QED
  BY <1>1, <1>2, <1>3, <1>4, <1>5, <1>6, <1>7, <1>8, <1>9, <1>10, <1>11, <1>12, Zenon

LEMMA SharedCells ==
  /\ C!A!Msb = Msb
  /\ \A x : C!A!Bit(x) = Bit(x)
  /\ \A x : C!A!Cell(x) = Cell(x)
  /\ \A x : C!A!Com(x) = Com(x)
  /\ \A x : C!A!Negative(x) = Negative(x)
  /\ \A x : C!A!Truth(x) = Truth(x)
  /\ \A x : C!A!Plain(x) = Plain(x)
  /\ \A x : C!A!Flagged(x) = Flagged(x)
  /\ \A x, y, z : C!A!Addop(x, y, z) = Addop(x, y, z)
  /\ \A x, y : C!A!Carry(x, y) = Carry(x, y)
  /\ \A x, y : C!A!ALUcond(x, y) = ALUcond(x, y)
  /\ \A x, y, z, u : C!A!AluOp(x, y, z, u) = AluOp(x, y, z, u)
<1>1. C!A!Msb = Msb
  BY DEF C!A!Msb, Msb
<1>2. \A x : C!A!Bit(x) = Bit(x)
  BY DEF C!A!Bit, Bit
<1>3. \A x : C!A!Cell(x) = Cell(x)
  BY DEF C!A!Cell, Cell
<1>4. \A x : C!A!Com(x) = Com(x)
  BY DEF C!A!Com, Com
<1>5. \A x : C!A!Negative(x) = Negative(x)
  BY DEF C!A!Negative, Negative, C!A!Msb, Msb
<1>6. \A x : C!A!Truth(x) = Truth(x)
  BY DEF C!A!Truth, Truth
<1>7. \A x : C!A!Plain(x) = Plain(x)
  BY DEF C!A!Plain, Plain, C!A!Flagged, Flagged, C!A!Negative, Negative, C!A!Msb, Msb
<1>8. \A x : C!A!Flagged(x) = Flagged(x)
  BY DEF C!A!Flagged, Flagged, C!A!Negative, Negative, C!A!Msb, Msb
<1>9. \A x, y, z : C!A!Addop(x, y, z) = Addop(x, y, z)
  BY DEF C!A!Addop, Addop, C!A!Negative, Negative, C!A!Msb, Msb
<1>10. \A x, y : C!A!Carry(x, y) = Carry(x, y)
  BY DEF C!A!Carry, Carry
<1>11. \A x, y : C!A!ALUcond(x, y) = ALUcond(x, y)
  BY DEF C!A!ALUcond, ALUcond
<1>12. \A x, y, z, u : C!A!AluOp(x, y, z, u) = AluOp(x, y, z, u)
  BY DEF C!A!AluOp, AluOp, C!A!Plain, Plain, C!A!Flagged, Flagged, C!A!Negative, Negative, C!A!Msb, Msb, C!A!Logic, Logic, C!A!Com, Com, C!A!And, And, C!A!Or, Or, C!A!Xor, Xor, C!A!Bitof, Bitof, C!A!LogicOps, LogicOps, C!A!AdderInputs, AdderInputs, C!A!Addop, Addop
<1> QED
  BY <1>1, <1>2, <1>3, <1>4, <1>5, <1>6, <1>7, <1>8, <1>9, <1>10, <1>11, <1>12, Zenon

-----------------------------------------------------------------------------
(* Comparison.                                                             *)

LEMMA ComFacts ==
  ASSUME NEW b \in Word
  PROVE  Com(b) \in Word /\ Com(b) = 2^W - 1 - b /\ Signed(Com(b)) = -1 - Signed(b)
<1>1. Msb \in Nat /\ Msb >= 2 /\ 2^W = 2 * Msb
  BY CellSize
<1>2. Com(b) = 2 * Msb - 1 - b /\ b \in 0 .. 2 * Msb - 1
  BY <1>1 DEF Com, Word
<1> QED
  BY <1>1, <1>2 DEF Word, Signed, Negative

(* The flags of a subtraction. *)
Difference(a, b) == Flagged(Addop(a, Com(b), 1))

LEMMA CompareFields ==
  ASSUME NEW c
  PROVE  LET i == Compare(c)
         IN  /\ i.in = "reg" /\ i.out = "reg" /\ i.type = "MICRO" /\ i.class = "ALU" /\ i.mode = "ALU"
             /\ i.aluop = "AMINUSB" /\ i.cin = "ONE" /\ i.cond = c /\ i.flagin = "FLCOND"
             /\ i.flag = TRUE /\ i.bsrc = "DL" /\ i.imm = FALSE
  BY DEF Compare, Plainstep

LEMMA CompareOutcome ==
  ASSUME NEW c, NEW a, NEW b, alu \in Old \cup New
  PROVE  Outcome(Compare(c), a, b) =
           [r |-> Difference(a, b).r, flag |-> Bit(ALUcond(c, Difference(a, b))), y |-> reg.y]
<1> DEFINE i == Compare(c)
           x == [ir |-> i, alua |-> a, alub |-> b, flag |-> flag, shr |-> 0]
           d == Difference(a, b)
<1>1. /\ i.type = "MICRO" /\ i.class = "ALU" /\ i.mode = "ALU"
      /\ i.aluop = "AMINUSB" /\ i.cin = "ONE" /\ i.cond = c /\ i.flagin = "FLCOND"
      /\ i.flag = TRUE /\ i.bsrc = "DL" /\ i.imm = FALSE
  BY CompareFields
<1> HIDE DEF i
<1>2. AluOp(i.aluop, a, b, Carry(i.cin, flag)) = d
  BY <1>1 DEF AluOp, AdderInputs, Carry, Difference, LogicOps
<1>3. Amount(i, a) = a
  BY <1>1 DEF Amount
<1>4. x.ir = i /\ x.alua = a /\ x.alub = b /\ x.flag = flag
  OBVIOUS
<1> HIDE DEF x
<1>5. CASE alu = "frisc3"
  <2>1. F3!AluOp(i.aluop, a, b, F3!Carry(i.cin, flag)) = d
    BY <1>2, OldCells
  <2>2. F3!Microalu(x).r = d.r /\ F3!Microalu(x).f = d
    BY <1>1, <1>4, <2>1 DEF F3!Microalu, F3!Computed
  <2>3. F3!Flag(x, F3!Microalu(x)) = Bit(ALUcond(c, d))
    BY <1>1, <1>4, <2>2, OldCells DEF F3!Flag
  <2>4. F3!Bsrcb(x, F3!Microalu(x), F3!Flag(x, F3!Microalu(x))) = d.r
    BY <1>1, <1>4, <2>2 DEF F3!Bsrcb
  <2> QED
    BY <1>3, <1>5, <2>3, <2>4 DEF Outcome, Oldly, x, i
<1>6. CASE alu = "simqbr"
  <2>1. Q!F!AluOp(i.aluop, a, b, Q!F!Carry(i.cin, flag)) = d
    BY <1>2, StudyCells
  <2>2. Q!Microalu(x).r = d.r /\ Q!Microalu(x).f = d
    BY <1>1, <1>4, <2>1 DEF Q!Microalu, Q!F!Computed
  <2>3. F3!Flag(x, Q!Microalu(x)) = Bit(ALUcond(c, d))
    BY <1>1, <1>4, <2>2, OldCells DEF F3!Flag
  <2>4. F3!Bsrcb(x, Q!Microalu(x), F3!Flag(x, Q!Microalu(x))) = d.r
    BY <1>1, <1>4, <2>2 DEF F3!Bsrcb
  <2> QED
    BY <1>3, <1>6, <2>3, <2>4 DEF Outcome, Oldly, x, i
<1>7. CASE alu = "frisc4"
  <2>1. A!AluOp(i.aluop, a, b, A!Carry(i.cin, flag)) = d
    BY <1>2, NewCells
  <2>2. A!Compute(i, a, b, flag, reg.y) = 
          [r |-> d.r, cond |-> ALUcond(c, d), flag |-> Bit(ALUcond(c, d)), y |-> reg.y]
    BY <1>1, <2>1, NewCells DEF A!Compute, A!Judged
  <2>3. A!Microalu(i, a, b, flag, reg.y) =
          [r |-> d.r, cond |-> ALUcond(c, d), flag |-> Bit(ALUcond(c, d)), y |-> reg.y]
    BY <1>1, <2>2 DEF A!Microalu
  <2> QED
    BY <1>1, <1>3, <1>7, <2>3 DEF Outcome, Newly, i
<1>8. CASE alu = "frisc4c"
  <2>1. C!AluOp(i.aluop, a, b, C!Carry(i.cin, flag)) = d
    BY <1>2, CacheCells
  <2>2. C!Compute(i, a, b, flag, reg.y) = 
          [r |-> d.r, cond |-> ALUcond(c, d), fl |-> Bit(ALUcond(c, d)), y |-> reg.y]
    BY <1>1, <2>1, CacheCells DEF C!Compute
  <2>3. C!Microalu(i, a, b, flag, reg.y) =
          [r |-> d.r, cond |-> ALUcond(c, d), fl |-> Bit(ALUcond(c, d)), y |-> reg.y]
    BY <1>1, <2>2 DEF C!Microalu
  <2>4. C!Flag(i, Bit(ALUcond(c, d)), flag) = Bit(ALUcond(c, d))
    BY <1>1 DEF C!Flag
  <2> QED
    BY <1>1, <1>3, <1>8, <2>3, <2>4 DEF Outcome, Newly, i
<1> QED
  BY <1>5, <1>6, <1>7, <1>8 DEF Old, New, i

LEMMA DifferenceFlags ==
  ASSUME NEW a \in Word, NEW b \in Word
  PROVE  LET f == Difference(a, b)
             z == Signed(a) - Signed(b)
         IN  /\ f.c \in BOOLEAN /\ (f.c <=> a >= b)
             /\ f.v \in BOOLEAN /\ (f.v <=> z \notin (0 - Msb) .. Msb - 1)
             /\ f.n \in BOOLEAN /\ (f.n <=> Cell(a - b) >= Msb)
             /\ f.z \in BOOLEAN /\ (f.z <=> a = b)
             /\ (f.n # f.v) <=> z < 0
             /\ f.r = Cell(a - b) /\ f.r \in Word /\ z \in Int
<1> DEFINE f == Difference(a, b)
           z == Signed(a) - Signed(b)
           u == Signed(a) + Signed(Com(b)) + 1
           s == a + Com(b) + 1
<1>1. Msb \in Nat /\ Msb >= 2 /\ 2^W = 2 * Msb
  BY CellSize
<1>2. a \in 0 .. 2 * Msb - 1 /\ b \in 0 .. 2 * Msb - 1
  BY <1>1 DEF Word
<1>3. Signed(a) \in Int /\ Signed(b) \in Int
  BY <1>1, <1>2 DEF Signed
<1>4. u = z /\ z \in Int
  BY <1>3, ComFacts
<1>5. s = a - b + 2 * Msb
  BY <1>1, <1>2, ComFacts
<1>6. /\ f.r \in Word
      /\ f.r = IF s >= 2^W THEN s - 2^W ELSE s
      /\ f.c \in BOOLEAN /\ (f.c <=> s >= 2^W)
      /\ f.v \in BOOLEAN /\ (f.v <=> u \notin (0 - Msb) .. Msb - 1)
      /\ f.n \in BOOLEAN /\ (f.n <=> f.r >= Msb)
      /\ f.z \in BOOLEAN /\ (f.z <=> f.r = 0)
      /\ (f.n # f.v) <=> u < 0
  BY ComFacts, AdderFlags DEF Difference
<1> HIDE DEF f, z, u, s
<1>7. f.r = Cell(a - b)
  BY <1>1, <1>2, <1>5, <1>6, CellOf
<1>8. (f.c <=> a >= b) /\ (f.z <=> a = b)
  BY <1>1, <1>2, <1>5, <1>6
<1> QED
  BY <1>4, <1>6, <1>7, <1>8 DEF f, z

(* Every condition after a subtraction. *)
LEMMA ConditionsTell ==
  ASSUME NEW a \in Word, NEW b \in Word, NEW c \in Conditions
  PROVE  (Bit(ALUcond(c, Difference(a, b))) = 1) = Meant(c, a, b)
<1> DEFINE f == Difference(a, b)
           z == Signed(a) - Signed(b)
<1>1. /\ f.c \in BOOLEAN /\ (f.c <=> a >= b)
      /\ f.v \in BOOLEAN /\ (f.v <=> z \notin (0 - Msb) .. Msb - 1)
      /\ f.n \in BOOLEAN /\ (f.n <=> Cell(a - b) >= Msb)
      /\ f.z \in BOOLEAN /\ (f.z <=> a = b)
      /\ (f.n # f.v) <=> z < 0
      /\ z \in Int /\ f.r = Cell(a - b) /\ f.r \in Word
  BY DifferenceFlags
<1>2. Msb \in Nat /\ Msb >= 2 /\ 2^W = 2 * Msb
  BY CellSize
<1>3. a \in Int /\ b \in Int /\ f.r \in Int /\ Signed(a) \in Int /\ Signed(b) \in Int
  BY <1>1, <1>2 DEF Word, Signed
<1>4. /\ (z < 0 <=> Signed(a) < Signed(b))
      /\ (a = b <=> Signed(a) = Signed(b))
      /\ (Cell(a - b) < Msb <=> ~(Cell(a - b) >= Msb))
      /\ (a < b <=> ~(a >= b)) /\ (a <= b <=> (~(a >= b) \/ a = b))
      /\ (a > b <=> ~(a <= b))
      /\ (Signed(a) >= Signed(b) <=> ~(Signed(a) < Signed(b)))
      /\ (Signed(a) <= Signed(b) <=> (Signed(a) < Signed(b) \/ Signed(a) = Signed(b)))
      /\ (Signed(a) > Signed(b) <=> ~(Signed(a) <= Signed(b)))
  <2>1. a = b <=> Signed(a) = Signed(b)
    BY <1>2 DEF Word, Signed, Negative
  <2> QED
    BY <1>1, <1>2, <1>3, <2>1
<1>5. \A x \in BOOLEAN : (Bit(x) = 1) = x
  BY DEF Bit
<1> DEFINE m == Meant(c, a, b)
           x == ALUcond(c, f)
<1>6. x \in BOOLEAN /\ m \in BOOLEAN /\ (x <=> m)
  <2> HIDE DEF f, z
  <2>1. CASE c = "CLEAR"   BY <2>1 DEF Meant, ALUcond
  <2>2. CASE c = "SET"   BY <2>2 DEF Meant, ALUcond
  <2>3. CASE c = "EQUAL"   BY <1>1, <2>3 DEF Meant, ALUcond
  <2>4. CASE c = "NEQUAL"   BY <1>1, <2>4 DEF Meant, ALUcond
  <2>5. CASE c = "NEG"   BY <1>1, <2>5 DEF Meant, ALUcond
  <2>6. CASE c = "NBAR"   BY <1>1, <1>4, <2>6 DEF Meant, ALUcond
  <2>7. CASE c = "COUT"   BY <1>1, <2>7 DEF Meant, ALUcond
  <2>8. CASE c = "CBAR"   BY <1>1, <1>4, <2>8 DEF Meant, ALUcond
  <2>9. CASE c = "OVFLOW"   BY <1>1, <2>9 DEF Meant, ALUcond, z
  <2>10. CASE c = "VBAR"   BY <1>1, <2>10 DEF Meant, ALUcond, z
  <2>11. CASE c = "LESS"   BY <1>1, <1>4, <2>11 DEF Meant, ALUcond
  <2>12. CASE c = "GREATEREQ"   BY <1>1, <1>4, <2>12 DEF Meant, ALUcond
  <2>13. CASE c = "LESSEQ"   BY <1>1, <1>4, <2>13 DEF Meant, ALUcond
  <2>14. CASE c = "GREATER"   BY <1>1, <1>4, <2>14 DEF Meant, ALUcond
  <2>15. CASE c = "ULESSEQ"   BY <1>1, <1>4, <2>15 DEF Meant, ALUcond
  <2>16. CASE c = "UGREATER"   BY <1>1, <1>4, <2>16 DEF Meant, ALUcond
  <2> QED
    BY <2>1, <2>2, <2>3, <2>4, <2>5, <2>6, <2>7, <2>8, <2>9, <2>10, <2>11, <2>12, <2>13, <2>14,
       <2>15, <2>16 DEF Conditions
<1> HIDE DEF m, x, f
<1>7. (Bit(x) = 1) = m
  BY <1>5, <1>6, Zenon
<1> QED
  BY <1>7 DEF m, x, f

-----------------------------------------------------------------------------
(* Multiplication on FRISC 4.                                              *)

LEMMA SignedRange ==
  ASSUME NEW a \in Word
  PROVE  /\ Signed(a) \in Int /\ 0 - Msb <= Signed(a) /\ Signed(a) < Msb
         /\ (a >= Msb <=> Signed(a) < 0)
         /\ a = IF Signed(a) < 0 THEN Signed(a) + 2 * Msb ELSE Signed(a)
  BY CellSize DEF Word, Signed, Negative

(* A shift to the right with the sign of a sum that may have overflowed.   *)
LEMMA Halving ==
  ASSUME NEW r \in Word, NEW z \in Int, -2 * Msb <= z, z < 2 * Msb,
         r = IF z < 0 THEN z + 2 * Msb ELSE z
  PROVE  LET h == r \div 2 + (IF z < 0 THEN Msb ELSE 0)
         IN  /\ h \in Word /\ r % 2 \in {0, 1}
             /\ 2 * Signed(h) + (r % 2) = z
             /\ Signed(h) < 0 <=> z < 0
             /\ Negative(h) <=> z < 0
<1>1. Msb \in Nat /\ Msb >= 2 /\ 2^W = 2 * Msb
  BY CellSize
<1> DEFINE q == r \div 2
           o == r % 2
<1>2. q \in Int /\ o \in {0, 1} /\ r = 2 * q + o
  BY <1>1 DEF Word
<1> HIDE DEF q, o
<1> DEFINE h == q + (IF z < 0 THEN Msb ELSE 0)
<1>3. h \in 0 .. 2 * Msb - 1 /\ (h >= Msb <=> z < 0)
  BY <1>1, <1>2 DEF Word
<1>4. Signed(h) = IF z < 0 THEN h - 2 * Msb ELSE h
  BY <1>1, <1>3 DEF Signed, Negative
<1>5. 2 * Signed(h) + o = z /\ (Signed(h) < 0 <=> z < 0) /\ (Negative(h) <=> z < 0)
  <2>1. CASE z < 0
    <3>1. Signed(h) = h - 2 * Msb /\ h = q + Msb
      BY <1>4, <2>1
    <3> QED
      BY <1>1, <1>2, <1>3, <2>1, <3>1 DEF Negative
  <2>2. CASE ~(z < 0)
    <3>1. Signed(h) = h /\ h = q
      BY <1>1, <1>2, <1>4, <2>2
    <3> QED
      BY <1>1, <1>2, <1>3, <2>2, <3>1 DEF Negative
  <2> QED
    BY <2>1, <2>2
<1> QED
  BY <1>1, <1>2, <1>3, <1>5 DEF Word, q, o

(* What a step of Booth's method adds to the accumulator, in multiplicands.*)
Digit(fl, y) == (y % 2) + fl - 2 * ((y \div 2) % 2)

LEMMA BoothCases ==
  ASSUME NEW y \in Word, NEW fl \in {0, 1}
  PROVE  LET c == A!Boothcase(fl, y)
         IN  /\ c \in 0 .. 7
             /\ c \in {0, 7} => Digit(fl, y) = 0
             /\ c \in {1, 2} => Digit(fl, y) = 1
             /\ c = 3 => Digit(fl, y) = 2
             /\ c = 4 => Digit(fl, y) = -2
             /\ c \in {5, 6} => Digit(fl, y) = -1
<1>1. y \in Nat
  BY CellSize DEF Word
<1> DEFINE d == y % 4
<1>2. d \in 0 .. 3 /\ y % 2 = d % 2 /\ (y \div 2) % 2 = d \div 2
  BY <1>1
<1>3. A!Boothcase(fl, y) = 2 * d + fl
  BY DEF A!Boothcase
<1>4. Digit(fl, y) = (d % 2) + fl - 2 * (d \div 2)
  BY <1>2 DEF Digit
<1> HIDE DEF d
<1> QED
  BY <1>2, <1>3, <1>4

Boothflags(a, b, fl, y) == Flagged(A!Booth1(a, b, fl, y).sum)
Boothless(a, b, fl, y) == Boothflags(a, b, fl, y).n # Boothflags(a, b, fl, y).v
Boothhalf(a, b, fl, y) ==
  A!Booth2(Boothflags(a, b, fl, y).r, Boothless(a, b, fl, y), A!Booth1(a, b, fl, y).out, fl, y)
Boothresult(a, b, fl, y) ==
  Boothhalf(a, b, fl, y).r \div 2 + (IF Boothless(a, b, fl, y) THEN Msb ELSE 0)

Boothexact(a, b, fl, y) ==
  4 * Signed(Boothresult(a, b, fl, y)) + Boothhalf(a, b, fl, y).out + 2 * (Boothhalf(a, b, fl, y).r % 2)
    = Signed(a) + Digit(fl, y) * Signed(b)

(* Booth's step and its two shifts are a sum divided by four, rounded      *)
(* down, and its remainder, in all eight cases.                            *)
LEMMA BoothSum ==
  ASSUME NEW a \in Word, NEW b \in Word, NEW y \in Word, NEW fl \in {0, 1}
  PROVE  /\ Boothresult(a, b, fl, y) \in Word
         /\ Boothhalf(a, b, fl, y).out \in {0, 1} /\ Boothhalf(a, b, fl, y).r % 2 \in {0, 1}
         /\ Boothless(a, b, fl, y) \in BOOLEAN
         /\ Boothexact(a, b, fl, y)
<1> DEFINE one == A!Booth1(a, b, fl, y)
           f == Flagged(one.sum)
           two == A!Booth2(f.r, f.n # f.v, one.out, fl, y)
           r == two.r \div 2 + (IF f.n # f.v THEN Msb ELSE 0)
           c == A!Boothcase(fl, y)
<1> SUFFICES /\ r \in Word /\ two.out \in {0, 1} /\ two.r % 2 \in {0, 1}
             /\ (f.n # f.v) \in BOOLEAN
             /\ 4 * Signed(r) + two.out + 2 * (two.r % 2) = Signed(a) + Digit(fl, y) * Signed(b)
  BY Zenon DEF Boothflags, Boothless, Boothhalf, Boothresult, Boothexact
<1>1. Msb \in Nat /\ Msb >= 2 /\ 2^W = 2 * Msb
  BY CellSize
<1>2. Com(b) \in Word /\ Signed(Com(b)) = -1 - Signed(b)
  BY ComFacts
<1>3. c \in 0 .. 7
  BY BoothCases
<1>4. /\ Signed(a) \in Int /\ -Msb <= Signed(a) /\ Signed(a) < Msb
      /\ Signed(b) \in Int /\ -Msb <= Signed(b) /\ Signed(b) < Msb
      /\ Negative(a) <=> Signed(a) < 0
      /\ a = IF Signed(a) < 0 THEN Signed(a) + 2 * Msb ELSE Signed(a)
  BY <1>1, SignedRange DEF Negative
<1> DEFINE h == A!Asr(a)
<1>5. h \in Word /\ a % 2 \in {0, 1} /\ 2 * Signed(h) + (a % 2) = Signed(a)
  <2>1. h = a \div 2 + (IF Signed(a) < 0 THEN Msb ELSE 0)
    BY <1>4, NewCells DEF A!Asr
  <2>2. -2 * Msb <= Signed(a) /\ Signed(a) < 2 * Msb
    BY <1>1, <1>4
  <2> HIDE DEF h
  <2> QED
    BY <1>4, <2>1, <2>2, Halving
<1>6. /\ Signed(h) \in Int /\ -Msb <= Signed(h) /\ Signed(h) < Msb
      /\ Negative(h) <=> Signed(h) < 0
      /\ h = IF Signed(h) < 0 THEN Signed(h) + 2 * Msb ELSE Signed(h)
  BY <1>1, <1>5, SignedRange DEF Negative
<1> HIDE DEF h
(* No addition.                                                            *)
<1>7. CASE c \in {0, 7}
  <2>1. one.sum = [r |-> h, v |-> FALSE, c |-> FALSE] /\ one.out = a % 2
    <3>1. one.sum = [r |-> h, v |-> FALSE, c |-> FALSE]
      BY <1>3, <1>7 DEF A!Booth1, h
    <3>2. one.out = a % 2
      BY <1>3, <1>7 DEF A!Booth1
    <3> QED
      BY <3>1, <3>2
  <2>2. f.r = h /\ f.v = FALSE /\ f.n = Negative(h)
    BY <2>1 DEF Flagged
  <2>3. two.r = h /\ two.out = a % 2
    BY <1>3, <1>7, <2>1, <2>2 DEF A!Booth2
  <2>4. (f.n # f.v) \in BOOLEAN /\ ((f.n # f.v) <=> Signed(h) < 0)
    <3>1. Negative(h) \in BOOLEAN
      BY DEF Negative
    <3> QED
      BY <1>6, <2>2, <3>1, Zenon
  <2>5. r = h \div 2 + (IF Signed(h) < 0 THEN Msb ELSE 0)
    BY <2>3, <2>4
  <2>6. r \in Word /\ h % 2 \in {0, 1} /\ 2 * Signed(r) + (h % 2) = Signed(h)
    <3> HIDE DEF r
    <3> QED
      BY <1>1, <1>5, <1>6, <2>5, Halving
  <2>7. Digit(fl, y) * Signed(b) = 0
    BY <1>4, <1>7, BoothCases
  <2>8. Signed(r) \in Int
    BY <2>6, SignedRange
  <2>9. two.r % 2 = h % 2
    BY <2>3
  <2> HIDE DEF one, f, two, r
  <2>10. 4 * Signed(r) + two.out + 2 * (two.r % 2) = Signed(a) + Digit(fl, y) * Signed(b)
    BY <1>4, <1>5, <1>6, <2>3, <2>6, <2>7, <2>8, <2>9
  <2> QED
    BY <1>5, <2>3, <2>4, <2>6, <2>9, <2>10 DEF one, f, two, r
<1>8. CASE c \in {1, 2}
  <2> DEFINE z == Signed(a) + Signed(b)
  <2>1. one.sum = Addop(a, b, 0) /\ one.out = 0
    <3>1. one.sum = Addop(a, b, 0)
      BY <1>3, <1>8, NewCells DEF A!Booth1
    <3>2. one.out = 0
      BY <1>3, <1>8 DEF A!Booth1
    <3> QED
      BY <3>1, <3>2
  <2>2. f = Flagged(Addop(a, b, 0))
    BY <2>1
  <2>3. /\ f.r \in Word /\ f.v \in BOOLEAN /\ f.n \in BOOLEAN
        /\ (f.n # f.v) <=> z < 0
        /\ f.r = IF z < 0 THEN z + 2 * Msb ELSE z
        /\ z \in Int /\ -2 * Msb <= z /\ z < 2 * Msb
    <3> DEFINE u == Signed(a) + Signed(b) + 0
    <3>1. z = u
      BY <1>2, <1>4, <1>6
    <3>2. /\ f.r \in Word /\ f.v \in BOOLEAN /\ f.n \in BOOLEAN
          /\ (f.n # f.v) <=> z < 0
          /\ f.r = IF z < 0 THEN z + 2^W ELSE z
      <4>1. /\ f.r \in Word /\ f.v \in BOOLEAN /\ f.n \in BOOLEAN
            /\ (f.n # f.v) <=> u < 0
            /\ f.r = IF u < 0 THEN u + 2^W ELSE u
        <5> HIDE DEF f
        <5> QED
          BY <1>2, <1>5, <2>2, AdderFlags
      <4> HIDE DEF f, z, u
      <4> QED
        BY <3>1, <4>1
    <3> QED
      BY <1>1, <1>4, <1>6, <3>2
  <2>4. (f.n # f.v) \in BOOLEAN
    BY <2>3, Zenon
  <2> DEFINE g == f.r \div 2 + (IF z < 0 THEN Msb ELSE 0)
  <2>5. two.r = g /\ two.out = f.r % 2
    <3>1. A!Msb = Msb
      BY NewCells
    <3> QED
      BY <1>3, <1>8, <2>3, <3>1 DEF A!Booth2
  <2>6. g \in Word /\ f.r % 2 \in {0, 1} /\ 2 * Signed(g) + (f.r % 2) = z /\ (Signed(g) < 0 <=> z < 0)
    <3> HIDE DEF f, z
    <3> QED
      BY <2>3, Halving
  <2> HIDE DEF g
  <2>7. r = g \div 2 + (IF z < 0 THEN Msb ELSE 0)
    BY <2>3, <2>5
  <2>8. r \in Word /\ g % 2 \in {0, 1} /\ 2 * Signed(r) + (g % 2) = Signed(g)
    <3>1. /\ Signed(g) \in Int /\ -2 * Msb <= Signed(g) /\ Signed(g) < 2 * Msb
          /\ g = IF Signed(g) < 0 THEN Signed(g) + 2 * Msb ELSE Signed(g)
      BY <1>1, <2>6, SignedRange
    <3>2. r = g \div 2 + (IF Signed(g) < 0 THEN Msb ELSE 0)
      BY <2>6, <2>7
    <3> HIDE DEF r
    <3> QED
      BY <2>6, <3>1, <3>2, Halving
  <2>9. Digit(fl, y) * Signed(b) = Signed(b)
    BY <1>4, <1>8, BoothCases
  <2>10. Signed(r) \in Int /\ Signed(g) \in Int /\ two.r % 2 = g % 2
    BY <2>5, <2>6, <2>8, SignedRange
  <2> HIDE DEF one, f, two, r
  <2>11. 4 * Signed(r) + two.out + 2 * (two.r % 2) = Signed(a) + Digit(fl, y) * Signed(b)
    BY <1>4, <2>3, <2>5, <2>6, <2>8, <2>9, <2>10
  <2> QED
    BY <2>4, <2>5, <2>6, <2>8, <2>10, <2>11 DEF one, f, two, r
<1>9. CASE c \in {5, 6}
  <2> DEFINE z == Signed(a) - Signed(b)
  <2>1. one.sum = Addop(a, Com(b), 1) /\ one.out = 0
    <3>1. one.sum = Addop(a, Com(b), 1)
      BY <1>3, <1>9, NewCells DEF A!Booth1
    <3>2. one.out = 0
      BY <1>3, <1>9 DEF A!Booth1
    <3> QED
      BY <3>1, <3>2
  <2>2. f = Flagged(Addop(a, Com(b), 1))
    BY <2>1
  <2>3. /\ f.r \in Word /\ f.v \in BOOLEAN /\ f.n \in BOOLEAN
        /\ (f.n # f.v) <=> z < 0
        /\ f.r = IF z < 0 THEN z + 2 * Msb ELSE z
        /\ z \in Int /\ -2 * Msb <= z /\ z < 2 * Msb
    <3> DEFINE u == Signed(a) + Signed(Com(b)) + 1
    <3>1. z = u
      BY <1>2, <1>4, <1>6
    <3>2. /\ f.r \in Word /\ f.v \in BOOLEAN /\ f.n \in BOOLEAN
          /\ (f.n # f.v) <=> z < 0
          /\ f.r = IF z < 0 THEN z + 2^W ELSE z
      <4>1. /\ f.r \in Word /\ f.v \in BOOLEAN /\ f.n \in BOOLEAN
            /\ (f.n # f.v) <=> u < 0
            /\ f.r = IF u < 0 THEN u + 2^W ELSE u
        <5> HIDE DEF f
        <5> QED
          BY <1>2, <1>5, <2>2, AdderFlags
      <4> HIDE DEF f, z, u
      <4> QED
        BY <3>1, <4>1
    <3> QED
      BY <1>1, <1>4, <1>6, <3>2
  <2>4. (f.n # f.v) \in BOOLEAN
    BY <2>3, Zenon
  <2> DEFINE g == f.r \div 2 + (IF z < 0 THEN Msb ELSE 0)
  <2>5. two.r = g /\ two.out = f.r % 2
    <3>1. A!Msb = Msb
      BY NewCells
    <3> QED
      BY <1>3, <1>9, <2>3, <3>1 DEF A!Booth2
  <2>6. g \in Word /\ f.r % 2 \in {0, 1} /\ 2 * Signed(g) + (f.r % 2) = z /\ (Signed(g) < 0 <=> z < 0)
    <3> HIDE DEF f, z
    <3> QED
      BY <2>3, Halving
  <2> HIDE DEF g
  <2>7. r = g \div 2 + (IF z < 0 THEN Msb ELSE 0)
    BY <2>3, <2>5
  <2>8. r \in Word /\ g % 2 \in {0, 1} /\ 2 * Signed(r) + (g % 2) = Signed(g)
    <3>1. /\ Signed(g) \in Int /\ -2 * Msb <= Signed(g) /\ Signed(g) < 2 * Msb
          /\ g = IF Signed(g) < 0 THEN Signed(g) + 2 * Msb ELSE Signed(g)
      BY <1>1, <2>6, SignedRange
    <3>2. r = g \div 2 + (IF Signed(g) < 0 THEN Msb ELSE 0)
      BY <2>6, <2>7
    <3> HIDE DEF r
    <3> QED
      BY <2>6, <3>1, <3>2, Halving
  <2>9. Digit(fl, y) * Signed(b) = -Signed(b)
    BY <1>4, <1>9, BoothCases
  <2>10. Signed(r) \in Int /\ Signed(g) \in Int /\ two.r % 2 = g % 2
    BY <2>5, <2>6, <2>8, SignedRange
  <2> HIDE DEF one, f, two, r
  <2>11. 4 * Signed(r) + two.out + 2 * (two.r % 2) = Signed(a) + Digit(fl, y) * Signed(b)
    BY <1>4, <2>3, <2>5, <2>6, <2>8, <2>9, <2>10
  <2> QED
    BY <2>4, <2>5, <2>6, <2>8, <2>10, <2>11 DEF one, f, two, r
<1>10. CASE c = 3
  <2> DEFINE z == Signed(h) + Signed(b)
  <2>1. one.sum = Addop(h, b, 0) /\ one.out = a % 2
    <3>1. one.sum = Addop(h, b, 0)
      BY <1>3, <1>10, NewCells DEF A!Booth1, h
    <3>2. one.out = a % 2
      BY <1>3, <1>10 DEF A!Booth1
    <3> QED
      BY <3>1, <3>2
  <2>2. f = Flagged(Addop(h, b, 0))
    BY <2>1
  <2>3. /\ f.r \in Word /\ f.v \in BOOLEAN /\ f.n \in BOOLEAN
        /\ (f.n # f.v) <=> z < 0
        /\ f.r = IF z < 0 THEN z + 2 * Msb ELSE z
        /\ z \in Int /\ -2 * Msb <= z /\ z < 2 * Msb
    <3> DEFINE u == Signed(h) + Signed(b) + 0
    <3>1. z = u
      BY <1>2, <1>4, <1>6
    <3>2. /\ f.r \in Word /\ f.v \in BOOLEAN /\ f.n \in BOOLEAN
          /\ (f.n # f.v) <=> z < 0
          /\ f.r = IF z < 0 THEN z + 2^W ELSE z
      <4>1. /\ f.r \in Word /\ f.v \in BOOLEAN /\ f.n \in BOOLEAN
            /\ (f.n # f.v) <=> u < 0
            /\ f.r = IF u < 0 THEN u + 2^W ELSE u
        <5> HIDE DEF f
        <5> QED
          BY <1>2, <1>5, <2>2, AdderFlags
      <4> HIDE DEF f, z, u
      <4> QED
        BY <3>1, <4>1
    <3> QED
      BY <1>1, <1>4, <1>6, <3>2
  <2>4. (f.n # f.v) \in BOOLEAN
    BY <2>3, Zenon
  <2>5. two.r = f.r /\ two.out = a % 2
    BY <1>3, <1>10, <2>1 DEF A!Booth2
  <2>6. r = f.r \div 2 + (IF z < 0 THEN Msb ELSE 0)
    BY <2>3, <2>5
  <2>7. r \in Word /\ f.r % 2 \in {0, 1} /\ 2 * Signed(r) + (f.r % 2) = z
    <3> HIDE DEF r, f, z
    <3> QED
      BY <2>3, <2>6, Halving
  <2>8. Digit(fl, y) * Signed(b) = 2 * Signed(b)
    BY <1>4, <1>10, BoothCases
  <2>9. Signed(r) \in Int /\ two.r % 2 = f.r % 2
    BY <2>5, <2>7, SignedRange
  <2> HIDE DEF one, f, two, r
  <2>10. 4 * Signed(r) + two.out + 2 * (two.r % 2) = Signed(a) + Digit(fl, y) * Signed(b)
    BY <1>4, <1>5, <1>6, <2>5, <2>7, <2>8, <2>9
  <2> QED
    BY <1>5, <2>4, <2>5, <2>7, <2>9, <2>10 DEF one, f, two, r
<1>11. CASE c = 4
  <2> DEFINE z == Signed(h) - Signed(b)
  <2>1. one.sum = Addop(h, Com(b), 1) /\ one.out = a % 2
    <3>1. one.sum = Addop(h, Com(b), 1)
      BY <1>3, <1>11, NewCells DEF A!Booth1, h
    <3>2. one.out = a % 2
      BY <1>3, <1>11 DEF A!Booth1
    <3> QED
      BY <3>1, <3>2
  <2>2. f = Flagged(Addop(h, Com(b), 1))
    BY <2>1
  <2>3. /\ f.r \in Word /\ f.v \in BOOLEAN /\ f.n \in BOOLEAN
        /\ (f.n # f.v) <=> z < 0
        /\ f.r = IF z < 0 THEN z + 2 * Msb ELSE z
        /\ z \in Int /\ -2 * Msb <= z /\ z < 2 * Msb
    <3> DEFINE u == Signed(h) + Signed(Com(b)) + 1
    <3>1. z = u
      BY <1>2, <1>4, <1>6
    <3>2. /\ f.r \in Word /\ f.v \in BOOLEAN /\ f.n \in BOOLEAN
          /\ (f.n # f.v) <=> z < 0
          /\ f.r = IF z < 0 THEN z + 2^W ELSE z
      <4>1. /\ f.r \in Word /\ f.v \in BOOLEAN /\ f.n \in BOOLEAN
            /\ (f.n # f.v) <=> u < 0
            /\ f.r = IF u < 0 THEN u + 2^W ELSE u
        <5> HIDE DEF f
        <5> QED
          BY <1>2, <1>5, <2>2, AdderFlags
      <4> HIDE DEF f, z, u
      <4> QED
        BY <3>1, <4>1
    <3> QED
      BY <1>1, <1>4, <1>6, <3>2
  <2>4. (f.n # f.v) \in BOOLEAN
    BY <2>3, Zenon
  <2>5. two.r = f.r /\ two.out = a % 2
    BY <1>3, <1>11, <2>1 DEF A!Booth2
  <2>6. r = f.r \div 2 + (IF z < 0 THEN Msb ELSE 0)
    BY <2>3, <2>5
  <2>7. r \in Word /\ f.r % 2 \in {0, 1} /\ 2 * Signed(r) + (f.r % 2) = z
    <3> HIDE DEF r, f, z
    <3> QED
      BY <2>3, <2>6, Halving
  <2>8. Digit(fl, y) * Signed(b) = 0 - 2 * Signed(b)
    BY <1>4, <1>11, BoothCases
  <2>9. Signed(r) \in Int /\ two.r % 2 = f.r % 2
    BY <2>5, <2>7, SignedRange
  <2> HIDE DEF one, f, two, r
  <2>10. 4 * Signed(r) + two.out + 2 * (two.r % 2) = Signed(a) + Digit(fl, y) * Signed(b)
    <3>1. 2 * Signed(r) + (f.r % 2) = Signed(h) - Signed(b)
      BY <2>7
    <3>2. 4 * Signed(r) + (a % 2) + 2 * (f.r % 2) = Signed(a) - 2 * Signed(b)
      <4>1. \A p, q, s, u, v, x \in Int :
              2 * p + q = s - u /\ 2 * s + v = x => 4 * p + v + 2 * q = x - 2 * u
        OBVIOUS
      <4>2. f.r % 2 \in Int /\ a % 2 \in Int
        BY <1>5, <2>7
      <4> HIDE DEF z
      <4> QED
        BY <1>4, <1>5, <1>6, <2>9, <3>1, <4>1, <4>2
    <3>3. Signed(a) - 2 * Signed(b) = Signed(a) + (0 - 2 * Signed(b))
      BY <1>4
    <3> QED
      BY <2>5, <2>8, <2>9, <3>2, <3>3
  <2> QED
    BY <1>5, <2>4, <2>5, <2>7, <2>9, <2>10 DEF one, f, two, r
<1>12. c \in {0, 7} \/ c \in {1, 2} \/ c \in {5, 6} \/ c = 3 \/ c = 4
  BY <1>3
<1> QED
  BY <1>7, <1>8, <1>9, <1>10, <1>11, <1>12, Zenon

LEMMA SharedBooth ==
  ASSUME NEW a, NEW b, NEW fl, NEW y, NEW r, NEW s, NEW o
  PROVE  /\ C!Booth1(a, b, fl, y) = A!Booth1(a, b, fl, y)
         /\ C!Booth2(r, s, o, fl, y) = A!Booth2(r, s, o, fl, y)
<1>1. C!A!Boothcase(fl, y) = A!Boothcase(fl, y)
  BY DEF C!A!Boothcase, A!Boothcase
<1>2. C!A!Asr(a) = A!Asr(a)
  BY NewCells, SharedCells DEF C!A!Asr, A!Asr
<1>3. C!A!Booth1(a, b, fl, y) = A!Booth1(a, b, fl, y)
  BY <1>1, <1>2, NewCells, SharedCells DEF C!A!Booth1, A!Booth1
<1>4. C!A!Booth2(r, s, o, fl, y) = A!Booth2(r, s, o, fl, y)
  BY <1>1, NewCells, SharedCells DEF C!A!Booth2, A!Booth2
<1> QED
  BY <1>3, <1>4 DEF C!Booth1, C!Booth2

LEMMA BoothFields ==
  LET i == Booth
  IN  /\ i.in = "reg" /\ i.out = "tos" /\ i.type = "MICRO" /\ i.class = "STEP" /\ i.step = "MUL"
      /\ i.left = FALSE /\ i.right = TRUE /\ i.rsrc = "SALUCOND" /\ i.cond = "LESS" /\ i.fsrc = "FLY1"
      /\ i.ycont = "YRIGHT" /\ i.flag = TRUE /\ i.imm = FALSE
  BY DEF Booth, Plainstep

LEMMA BoothOutcome ==
  ASSUME NEW a \in Word, NEW b \in Word, reg.y \in Word, flag \in {0, 1}, alu \in New
  PROVE  LET u == Outcome(Booth, a, b)
         IN  /\ u.r \in Word
             /\ u.flag = (reg.y \div 2) % 2
             /\ \E rem \in 0 .. 3 :
                  /\ u.y = reg.y \div 4 + (Msb \div 2) * rem
                  /\ 4 * Signed(u.r) + rem = Signed(a) + Digit(flag, reg.y) * Signed(b)
<1> DEFINE i == Booth
           y == reg.y
           one == A!Booth1(a, b, flag, y)
           f == Boothflags(a, b, flag, y)
           less == Boothless(a, b, flag, y)
           two == Boothhalf(a, b, flag, y)
           r == Boothresult(a, b, flag, y)
           ny == y \div 4 + (Msb \div 2) * two.out + Msb * (two.r % 2)
           u == Outcome(i, a, b)
<1>1. /\ i.type = "MICRO" /\ i.class = "STEP" /\ i.step = "MUL"
      /\ i.left = FALSE /\ i.right = TRUE /\ i.rsrc = "SALUCOND" /\ i.cond = "LESS" /\ i.fsrc = "FLY1"
      /\ i.ycont = "YRIGHT" /\ i.flag = TRUE /\ i.imm = FALSE
  BY BoothFields
<1>2. /\ r \in Word /\ two.out \in {0, 1} /\ two.r % 2 \in {0, 1} /\ less \in BOOLEAN
      /\ 4 * Signed(r) + two.out + 2 * (two.r % 2) = Signed(a) + Digit(flag, y) * Signed(b)
  <2>1. r \in Word /\ two.out \in {0, 1} /\ two.r % 2 \in {0, 1} /\ less \in BOOLEAN
    BY BoothSum
  <2>2. Boothexact(a, b, flag, y)
    BY BoothSum
  <2> QED
    BY <2>1, <2>2 DEF Boothexact
<1> HIDE DEF i
<1>0. /\ f = Flagged(one.sum) /\ less = (f.n # f.v)
      /\ two = A!Booth2(f.r, less, one.out, flag, y)
      /\ r = two.r \div 2 + (IF less THEN Msb ELSE 0)
  BY DEF Boothflags, Boothless, Boothhalf, Boothresult
<1>3. Amount(i, a) = a
  BY <1>1 DEF Amount
<1>4. u.r = r /\ u.flag = (y \div 2) % 2 /\ u.y = ny
  <2>1. CASE alu = "frisc4"
    <3>1. A!Flagged(A!Stepsum(i, a, b, flag, y)) = f
      BY <1>0, <1>1, NewCells DEF A!Stepsum
    <3>2. A!ALUcond(i.cond, f) = less
      BY <1>0, <1>1, NewCells DEF ALUcond
    <3> DEFINE e == A!Ended(i, A!Negative(b), flag, y, f, less, two)
    <3>3. A!Step(i, a, b, flag, y) = e
      <4> HIDE DEF f, less, two
      <4> QED
        BY <1>0, <1>1, <3>1, <3>2 DEF A!Step
    <3>4. e.r = r /\ e.flag = (y \div 2) % 2 /\ e.y = ny
      <4> HIDE DEF f, less, two, r, y
      <4> QED
        BY <1>0, <1>1, <1>2, NewCells DEF A!Ended, ny
    <3>5. A!Microalu(i, a, b, flag, y) = [e EXCEPT !.flag = e.flag]
      <4> HIDE DEF e
      <4> QED
        BY <1>1, <3>3 DEF A!Microalu
    <3>6. e = [r |-> r, cond |-> less, flag |-> (y \div 2) % 2, y |-> ny]
      <4> HIDE DEF f, less, two, r, y
      <4> QED
        BY <1>0, <1>1, <1>2, NewCells DEF A!Ended, ny
    <3>7. u = [r |-> e.r, flag |-> e.flag, y |-> e.y]
      <4>1. u = Newly(i, A!Microalu(i, a, b, flag, y), A!Microalu(i, a, b, flag, y).flag,
                      A!Microbarrel(i, a, b))
        BY <1>3, <2>1 DEF Outcome
      <4> HIDE DEF e, r, ny, f, y
      <4> QED
        BY <1>1, <3>5, <3>6, <4>1 DEF Newly
    <3> QED
      BY <3>4, <3>7
  <2>2. CASE alu = "frisc4c"
    <3>1. C!Booth1(a, b, flag, y) = one
      BY SharedBooth
    <3>2. C!Flagged(one.sum) = f
      BY <1>0, CacheCells
    <3>3. C!Booth2(f.r, less, one.out, flag, y) = two
      BY <1>0, SharedBooth
    <3> DEFINE m == C!Multiplied(a, b, flag, y)
               e == C!Ended(i, C!Negative(b), flag, y, m, C!ALUcond(i.cond, m.f))
    <3>4. m = [f |-> f, r |-> r, right |-> two.r % 2, out |-> two.out]
      <4> HIDE DEF one, f, less, two, r
      <4> QED
        BY <1>0, <3>1, <3>2, <3>3, CacheCells DEF C!Multiplied
    <3>5. C!Step(i, a, b, flag, y) = e
      <4> HIDE DEF m
      <4> QED
        BY <1>1 DEF C!Step, m
    <3>6. e.r = r /\ e.fl = (y \div 2) % 2 /\ e.y = ny
      <4> HIDE DEF m, f, less, two, r, y
      <4> QED
        BY <1>1, <3>4, CacheCells DEF C!Ended, ny
    <3>7. C!Microalu(i, a, b, flag, y) = e
      <4> HIDE DEF e
      <4> QED
        BY <1>1, <3>5 DEF C!Microalu
    <3>8. C!Flag(i, e.fl, flag) = e.fl
      BY <1>1 DEF C!Flag
    <3> HIDE DEF e
    <3>9. u = Newly(i, e, e.fl, C!Microbarrel(i, a, b, flag))
      BY <1>3, <2>2, <3>7, <3>8 DEF Outcome
    <3> QED
      BY <1>1, <3>6, <3>9 DEF Newly
  <2> QED
    BY <2>1, <2>2 DEF New
<1> DEFINE rem == two.out + 2 * (two.r % 2)
<1>5. rem \in 0 .. 3 /\ ny = y \div 4 + (Msb \div 2) * rem
  <2>1. Msb \div 2 \in Int /\ Msb = 2 * (Msb \div 2) /\ y \div 4 \in Int
    BY CellSize DEF Word
  <2> DEFINE q == Msb \div 2
             p == two.r % 2
             o == two.out
             z == y \div 4
  <2>2. o \in {0, 1} /\ p \in {0, 1} /\ q \in Int /\ z \in Int /\ Msb = 2 * q
    BY <1>2, <2>1
  <2> HIDE DEF q, p, o, z
  <2>3. z + q * o + (2 * q) * p = z + q * (o + 2 * p)
    BY <2>2
  <2> QED
    BY <2>2, <2>3 DEF q, p, o, z
<1>6. 4 * Signed(r) + rem = Signed(a) + Digit(flag, y) * Signed(b)
  <2>1. Signed(r) \in Int
    BY <1>2, SignedRange
  <2> HIDE DEF r, two
  <2> QED
    BY <1>2, <2>1
<1> HIDE DEF r, rem, ny, u
<1> QED
  BY <1>2, <1>4, <1>5, <1>6 DEF u, i

(* The accumulator s above the bits done of the product of x and the bits  *)
(* low below P of the multiplier, of which the flag has the sign.          *)
Accumulated(P, s, x, low, done, fl) == s * P + done = x * (low - fl * P)

(* A cell of two parts, the upper one from the bit with the value R on.    *)
Joined(y, low, R, high) == y = low + R * high

(* Between the steps: low and high are the bits of the multiplier that     *)
(* have been used and that have not, done the bits of the product that Y   *)
(* has.                                                                    *)
Boothed(g, r, fl, low, high, done, P, R) ==
  /\ g[2] = low + P * high /\ low < P /\ high < R
  /\ fl = (IF 2 * low >= P THEN 1 ELSE 0)
  /\ Accumulated(P, Signed(r.tos), Signed(g[1]), low, done, fl) /\ done < P
  /\ Joined(r.y, high, R, done)

BoothPart ==
  /\ given \in Word \X Word /\ reg.reg = given[1] /\ k \in 0 .. W \div 2
  /\ \E low, high, done \in Nat :
       Boothed(given, reg, flag, low, high, done, 2^(2 * k), 2^(W - 2 * k))

(* The lowest two bits d of y and of its lower part.                       *)
Quartered(y, high, h, d, R, done) ==
  /\ high = 4 * h + d /\ h < R /\ y \div 4 = h + R * done
  /\ y % 2 = d % 2 /\ (y \div 2) % 2 = d \div 2

LEMMA FourBits ==
  ASSUME NEW R \in Nat, NEW S \in Nat, S = 4 * R, NEW done \in Nat, NEW high \in Nat, high < S,
         NEW y \in Nat, Joined(y, high, S, done)
  PROVE  \E h \in Nat : \E d \in 0 .. 3 : Quartered(y, high, h, d, R, done)
<1> DEFINE h == high \div 4
           d == high % 4
           q == h + R * done
<1>1. h \in Nat /\ d \in 0 .. 3 /\ high = 4 * h + d
  OBVIOUS
<1> HIDE DEF h, d
<1>2. R * done \in Nat /\ (4 * R) * done = 4 * (R * done)
  OBVIOUS
<1>3. q \in Nat /\ y = 4 * q + d
  BY <1>1, <1>2 DEF Joined
<1> HIDE DEF q
<1>4. y \div 4 = q /\ y % 2 = d % 2 /\ (y \div 2) % 2 = d \div 2
  BY <1>1, <1>3
<1>5. h < R
  BY <1>1
<1> QED
  BY <1>1, <1>4, <1>5 DEF q, Quartered

Digits(fl, d) == (d % 2) + fl - 2 * (d \div 2)
Added(s, r, x, fl, d, rem) == 4 * r + rem = s + Digits(fl, d) * x

LEMMA BoothAlgebra ==
  ASSUME NEW p \in Nat, NEW s \in Int, NEW r \in Int, NEW x \in Int, NEW low \in Nat, NEW done \in Nat,
         NEW fl \in {0, 1}, NEW d \in 0 .. 3, NEW rem \in 0 .. 3,
         Accumulated(p, s, x, low, done, fl), Added(s, r, x, fl, d, rem)
  PROVE  Accumulated(4 * p, r, x, low + p * d, done + p * rem, d \div 2)
<1> DEFINE o == d % 2
           e == d \div 2
<1>1. o \in Int /\ e \in Int /\ d = 2 * e + o
  OBVIOUS
<1> HIDE DEF o, e
<1>2. 4 * r + rem = s + (o + fl - 2 * e) * x
  BY DEF Added, Digits, o, e
<1>3. p * (4 * r + rem) = p * s + p * ((o + fl - 2 * e) * x)
  BY <1>1, <1>2
<1>4. r * (4 * p) + p * rem = p * (4 * r + rem)
  OBVIOUS
<1>5. x * (low - fl * p) + p * ((o + fl - 2 * e) * x) = x * ((low + p * (2 * e + o)) - e * (4 * p))
  BY <1>1
<1>6. p * s = s * p /\ s * p + done = x * (low - fl * p)
  BY DEF Accumulated
<1> DEFINE H == r * (4 * p)
           B == p * rem
           D == p * ((o + fl - 2 * e) * x)
           E == s * p
           F == x * (low - fl * p)
           G == x * ((low + p * (2 * e + o)) - e * (4 * p))
<1>7. H \in Int /\ B \in Int /\ D \in Int /\ E \in Int /\ F \in Int /\ G \in Int
  BY <1>1
<1>8. H + B = E + D /\ F + D = G /\ E + done = F
  BY <1>1, <1>3, <1>4, <1>5, <1>6
<1>9. H + (done + B) = G
  <2> HIDE DEF H, B, D, E, F, G
  <2> QED
    BY <1>7, <1>8
<1> QED
  BY <1>1, <1>9 DEF Accumulated, o, e

Registers == [tos : Word, reg : Word, y : Word]

TypePart ==
  /\ alu \in Old \cup New
  /\ reg \in Registers /\ flag \in {0, 1} /\ k \in Nat

LEMMA InstructionEffect ==
  ASSUME Instruction
  PROVE  LET i == Step(k)
             u == Outcome(i, reg.tos, reg[i.in])
         IN  /\ k < Length /\ k' = k + 1 /\ flag' = u.flag
             /\ reg' = [[reg EXCEPT !.y = u.y] EXCEPT ![i.out] = u.r]
             /\ alu' = alu /\ task' = task /\ given' = given
  BY DEF Instruction

LEMMA BoothStep ==
  ASSUME TypePart, alu \in New, task.name = "multiply", BoothPart, Instruction
  PROVE  TypePart' /\ BoothPart'
<1> DEFINE a == reg.tos
           b == reg.reg
           u == Outcome(Booth, a, b)
           j == W - 2 * k - 2
           p == 2^(2 * k)
           R == 2^j
<1>1. reg.tos \in Word /\ reg.reg \in Word /\ reg.y \in Word /\ flag \in {0, 1} /\ k \in Nat
  BY DEF TypePart, Registers
<1>2. Step(k) = Booth
  BY DEF Step, Multiply
<1>3. /\ k < W \div 2 /\ k' = k + 1 /\ flag' = u.flag
      /\ reg' = [[reg EXCEPT !.y = u.y] EXCEPT !.tos = u.r]
      /\ alu' = alu /\ task' = task /\ given' = given
  <2>1. Length = W \div 2
    BY DEF Length
  <2>2. Booth.in = "reg" /\ Booth.out = "tos"
    BY BoothFields
  <2> QED
    BY <1>2, <2>1, <2>2, InstructionEffect
<1>4. reg'.tos = u.r /\ reg'.reg = reg.reg /\ reg'.y = u.y
  BY <1>3 DEF TypePart, Registers
<1>5. PICK rem \in 0 .. 3 :
        /\ u.r \in Word /\ u.flag = (reg.y \div 2) % 2
        /\ u.y = reg.y \div 4 + (Msb \div 2) * rem
        /\ 4 * Signed(u.r) + rem = Signed(a) + Digit(flag, reg.y) * Signed(b)
  BY <1>1, BoothOutcome
<1> HIDE DEF u
<1>6. /\ W \in Nat /\ W >= 2 /\ W % 2 = 0 /\ Msb \div 2 \in Nat /\ Msb \in Nat
      /\ 2^W = 4 * (Msb \div 2) /\ Msb = 2 * (Msb \div 2)
  BY CellSize
<1>7. j \in Nat
  BY <1>1, <1>3, <1>6
<1>8. p \in Nat /\ R \in Nat
  BY <1>1, <1>7, PowerPositive
<1>9. 2^(2 * (k + 1)) = 4 * p
  <2>1. 2^(2 * k + 1) = 2 * p /\ 2^(2 * k + 1 + 1) = 2 * 2^(2 * k + 1)
    BY <1>1, PowerNext
  <2>2. 2 * k + 1 + 1 = 2 * (k + 1)
    BY <1>1
  <2> QED
    BY <1>8, <2>1, <2>2
<1>10. 2^(W - 2 * k) = 4 * R /\ 2^(W - 2 * (k + 1)) = R
  <2>1. 2^(j + 1) = 2 * R /\ 2^(j + 1 + 1) = 2 * 2^(j + 1)
    BY <1>7, PowerNext
  <2>2. j + 1 + 1 = W - 2 * k /\ W - 2 * (k + 1) = j
    BY <1>1, <1>6
  <2> QED
    BY <1>8, <2>1, <2>2
<1>11. Msb \div 2 = R * p
  <2>1. W - 2 = j + 2 * k /\ 2 * k \in Nat
    BY <1>1, <1>6
  <2>2. 2^(W - 2) = R * p
    BY <1>7, <2>1, PowerSum
  <2>3. Msb = 2 * 2^(W - 2)
    <3>1. 2^(W - 2 + 1) = 2 * 2^(W - 2) /\ W - 2 + 1 = W - 1
      BY <1>6, PowerNext
    <3> QED
      BY <3>1 DEF Msb
  <2>4. 2^(W - 2) \in Nat
    BY <1>6, PowerPositive
  <2> QED
    BY <2>2, <2>3, <2>4
<1>12. PICK low, high, done \in Nat : Boothed(given, reg, flag, low, high, done, p, 4 * R)
  BY <1>10 DEF BoothPart
<1> HIDE DEF p, R, j
<1>13. /\ given[2] = low + p * high /\ low < p /\ high < 4 * R
       /\ flag = (IF 2 * low >= p THEN 1 ELSE 0)
       /\ Accumulated(p, Signed(a), Signed(given[1]), low, done, flag) /\ done < p
       /\ Joined(reg.y, high, 4 * R, done)
  BY <1>12 DEF Boothed
<1>14. PICK h \in Nat, d \in 0 .. 3 :
         /\ high = 4 * h + d /\ h < R /\ reg.y \div 4 = h + R * done
         /\ reg.y % 2 = d % 2 /\ (reg.y \div 2) % 2 = d \div 2
  <2> DEFINE S == 4 * R
  <2>1. reg.y \in Nat /\ R \in Nat /\ S \in Nat /\ S = 4 * R
    BY <1>1, <1>6, <1>8 DEF Word
  <2>2. high < S /\ Joined(reg.y, high, S, done)
    BY <1>13, Zenon
  <2> HIDE DEF S
  <2>3. \E h \in Nat : \E d \in 0 .. 3 : Quartered(reg.y, high, h, d, R, done)
    BY <2>1, <2>2, FourBits
  <2> QED
    BY <2>3 DEF Quartered
<1> DEFINE nlow == low + p * d
           ndone == done + p * rem
<1>15. nlow \in Nat /\ ndone \in Nat /\ nlow < 4 * p /\ ndone < 4 * p
  <2>1. p * d \in Nat /\ p * d <= 3 * p /\ p * rem \in Nat /\ p * rem <= 3 * p
    BY <1>8
  <2> QED
    BY <1>8, <1>13, <2>1
<1>16. u.flag = (IF 2 * nlow >= 4 * p THEN 1 ELSE 0) /\ u.flag = d \div 2
  <2>1. CASE d \in {0, 1}
    BY <1>5, <1>8, <1>13, <1>14, <2>1
  <2>2. CASE d \in {2, 3}
    BY <1>5, <1>8, <1>13, <1>14, <2>2
  <2> QED
    BY <2>1, <2>2
<1>17. given[2] = nlow + (4 * p) * h
  <2>1. p * (4 * h + d) = (4 * p) * h + p * d
    BY <1>8
  <2> QED
    BY <1>8, <1>13, <1>14, <2>1
<1>18. Joined(u.y, h, R, ndone)
  <2>1. (R * p) * rem = R * (p * rem) /\ R * (done + p * rem) = R * done + R * (p * rem)
    BY <1>8
  <2> QED
    BY <1>5, <1>8, <1>11, <1>14, <2>1 DEF Joined
<1>19. Accumulated(4 * p, Signed(u.r), Signed(given[1]), nlow, ndone, u.flag)
  <2>1. Signed(a) \in Int /\ Signed(u.r) \in Int /\ Signed(b) \in Int /\ b = given[1]
    BY <1>1, <1>5, SignedRange DEF BoothPart
  <2>2. Added(Signed(a), Signed(u.r), Signed(b), flag, d, rem)
    <3>1. Digit(flag, reg.y) = Digits(flag, d)
      BY <1>14 DEF Digit, Digits
    <3> QED
      BY <1>5, <3>1 DEF Added
  <2>3. Accumulated(p, Signed(a), Signed(b), low, done, flag)
    BY <1>13, <2>1
  <2> HIDE DEF a, b
  <2>4. Accumulated(4 * p, Signed(u.r), Signed(b), low + p * d, done + p * rem, d \div 2)
    BY <1>1, <1>8, <2>1, <2>2, <2>3, BoothAlgebra
  <2> QED
    BY <1>16, <2>1, <2>4
<1>20. u.y \in Word /\ u.flag \in {0, 1}
  <2> DEFINE q == Msb \div 2
             v == reg.y \div 4
  <2>1. reg.y \in Nat /\ reg.y < 4 * q
    BY <1>1, <1>6 DEF Word
  <2>2. v \in Nat /\ v < q /\ u.y = v + q * rem
    BY <1>5, <1>6, <2>1
  <2>3. u.y \in 0 .. 4 * q - 1
    <3> HIDE DEF q, v
    <3>1. q \in Nat
      BY <1>6 DEF q
    <3>2. rem = 0 \/ rem = 1 \/ rem = 2 \/ rem = 3
      OBVIOUS
    <3> QED
      BY <2>2, <3>1, <3>2
  <2> QED
    BY <1>6, <1>16, <2>3 DEF Word
<1> HIDE DEF nlow, ndone
<1>21. Boothed(given', reg', flag', nlow, h, ndone, 4 * p, R)
  BY <1>3, <1>4, <1>13, <1>14, <1>15, <1>16, <1>17, <1>18, <1>19 DEF Boothed
<1>22. Boothed(given', reg', flag', nlow, h, ndone, 2^(2 * k'), 2^(W - 2 * k'))
  BY <1>3, <1>9, <1>10, <1>21
<1>23. BoothPart'
  <2>1. given' \in Word \X Word /\ reg'.reg = given'[1]
    BY <1>3, <1>4 DEF BoothPart
  <2>2. k' \in 0 .. W \div 2
    BY <1>1, <1>3, <1>6
  <2> QED
    BY <1>15, <1>22, <2>1, <2>2 DEF BoothPart
<1>24. TypePart'
  <2>1. reg' = [tos |-> u.r, reg |-> reg.reg, y |-> u.y]
    BY <1>3 DEF TypePart, Registers
  <2>2. reg' \in Registers
    BY <1>1, <1>5, <1>20, <2>1 DEF Registers
  <2> QED
    BY <1>1, <1>3, <1>20, <2>2 DEF TypePart
<1> QED
  BY <1>23, <1>24

LEMMA BoothBegins ==
  ASSUME NEW a \in Word, NEW b \in Word, given = <<a, b>>, reg = [tos |-> 0, reg |-> a, y |-> b],
         flag = 0, k = 0
  PROVE  BoothPart
<1>1. W \in Nat /\ W >= 2 /\ 2^W \in Nat /\ Msb \in Nat /\ Msb >= 2 /\ 2^W = 2 * Msb
  BY CellSize, PowerPositive
<1>2. 2^(2 * k) = 1 /\ 2^(W - 2 * k) = 2^W
  <2>1. 2 * k = 0 /\ W - 2 * k = W
    BY <1>1
  <2> QED
    BY <2>1, PowerZero
<1>3. Accumulated(1, Signed(0), Signed(a), 0, 0, 0)
  <2>1. Signed(0) = 0 /\ Signed(a) \in Int
    BY <1>1, SignedRange DEF Signed, Negative
  <2> QED
    BY <2>1 DEF Accumulated
<1>4. Joined(b, b, 2^W, 0) /\ b \in Nat /\ b < 2^W /\ b = 0 + 1 * b
  BY <1>1 DEF Joined, Word
<1>5. Boothed(given, reg, flag, 0, b, 0, 1, 2^W)
  BY <1>3, <1>4 DEF Boothed
<1>6. k \in 0 .. W \div 2
  BY <1>1
<1> QED
  BY <1>2, <1>4, <1>5, <1>6 DEF BoothPart

LEMMA BoothEnds ==
  ASSUME TypePart, BoothPart, k = W \div 2
  PROVE  2^W * Signed(reg.tos) + reg.y = Signed(given[1]) * Signed(given[2])
<1> DEFINE s == Signed(reg.tos)
           x == Signed(given[1])
           z == Signed(given[2])
<1>1. W \in Nat /\ W >= 2 /\ W % 2 = 0 /\ Msb \in Nat /\ 2^W = 2 * Msb
  BY CellSize
<1>2. 2^(2 * k) = 2^W /\ 2^(W - 2 * k) = 1
  <2>1. 2 * k = W /\ W - 2 * k = 0
    BY <1>1
  <2> QED
    BY <2>1, PowerZero
<1>3. PICK low, high, done \in Nat : Boothed(given, reg, flag, low, high, done, 2^W, 1)
  BY <1>2 DEF BoothPart
<1>4. high = 0 /\ low = given[2] /\ reg.y = done
  BY <1>1, <1>3 DEF Boothed, Joined
<1>5. s \in Int /\ x \in Int /\ z \in Int /\ given[2] \in Word
  BY SignedRange DEF TypePart, Registers, BoothPart
<1>6. low - flag * 2^W = z
  BY <1>1, <1>3, <1>4, <1>5 DEF Boothed, Signed, Negative, Word
<1>7. s * 2^W + done = x * (low - flag * 2^W)
  BY <1>3 DEF Boothed, Accumulated
<1> HIDE DEF s, x, z
<1>8. 2^W * s + reg.y = x * z
  BY <1>1, <1>4, <1>5, <1>6, <1>7
<1> QED
  BY <1>8 DEF s, x, z

-----------------------------------------------------------------------------
(* The instructions of FRISC 3 and of its study.                           *)

LEMMA NothingAdded ==
  ASSUME NEW b \in Word
  PROVE  Flagged(Addop(0, b, 0)) = Plain(b) /\ Flagged(Addop(b, 0, 0)) = Plain(b)
<1>1. Msb \in Nat /\ Msb >= 2 /\ 2^W = 2 * Msb /\ b \in 0 .. 2 * Msb - 1
  BY CellSize DEF Word
<1>2. (0 + b + 0) % 2^W = b /\ (b + 0 + 0) % 2^W = b /\ ~Negative(0)
  BY <1>1 DEF Negative
<1>3. Addop(0, b, 0).r = b /\ Addop(b, 0, 0).r = b
  BY <1>2 DEF Addop
<1>4. Negative(b) \in BOOLEAN
  BY DEF Negative
<1>5. /\ Addop(0, b, 0).v = FALSE /\ Addop(0, b, 0).c = FALSE
      /\ Addop(b, 0, 0).v = FALSE /\ Addop(b, 0, 0).c = FALSE
  BY <1>2, <1>4 DEF Addop
<1> QED
  BY <1>3, <1>5 DEF Plain, Flagged

(* What a step adds up, with the carry that it needs.                      *)
Stepped(i, fl, a, b) ==
  CASE i.step = "STEPB" -> Plain(b)
    [] i.step = "DIV1" -> Difference(b, a)
    [] i.step = "DIV2" -> IF fl = 0 THEN Flagged(Addop(a, b, 0)) ELSE Plain(b)
    [] i.step = "MUL" -> IF fl = 1 THEN Flagged(Addop(a, b, 0)) ELSE Plain(b)

LEMMA StepSums ==
  ASSUME NEW i, i.step \in {"STEPB", "DIV1", "DIV2", "MUL"},
         i.cin = IF i.step = "DIV1" THEN "ONE" ELSE "ZERO",
         NEW fl, NEW a, NEW b \in Word
  PROVE  /\ F3!Flagged(F3!StepSum(i, fl, a, b)) = Stepped(i, fl, a, b)
         /\ Q!F!Flagged(Q!StepSum(i, fl, a, b)) = Stepped(i, fl, a, b)
<1>1. Flagged(Plain(b)) = Plain(b)
  BY DEF Plain, Flagged
<1>2. /\ F3!Carry(i.cin, fl) = IF i.step = "DIV1" THEN 1 ELSE 0
      /\ Q!Carry(i.cin, fl) = IF i.step = "DIV1" THEN 1 ELSE 0
  BY DEF F3!Carry, Q!Carry
<1>3. /\ F3!Flagged(F3!StepSum(i, fl, a, b)) = Flagged(F3!StepSum(i, fl, a, b))
      /\ Q!F!Flagged(Q!StepSum(i, fl, a, b)) = Flagged(Q!StepSum(i, fl, a, b))
  BY OldCells, StudyCells
<1>4. CASE i.step = "STEPB"
  BY <1>1, <1>2, <1>3, <1>4, NothingAdded, OldCells, BranchCells DEF F3!StepSum, Q!StepSum, Stepped
<1>5. CASE i.step = "DIV1"
  BY <1>2, <1>3, <1>5, OldCells, BranchCells DEF F3!StepSum, Q!StepSum, Stepped, Difference
<1>6. CASE i.step = "DIV2"
  BY <1>1, <1>2, <1>3, <1>6, NothingAdded, OldCells, BranchCells DEF F3!StepSum, Q!StepSum, Stepped
<1>7. CASE i.step = "MUL"
  BY <1>1, <1>2, <1>3, <1>7, NothingAdded, OldCells, BranchCells DEF F3!StepSum, Q!StepSum, Stepped
<1> QED
  BY <1>4, <1>5, <1>6, <1>7

Sin(i, fl, f) == (i.sin = "SFLAG" /\ fl = 1) \/ (i.sin = "SALUCOND" /\ ALUcond(i.cond, f))

Oldstep(i) ==
  /\ i.step \in {"STEPB", "DIV1", "DIV2", "MUL"}
  /\ i.cin = IF i.step = "DIV1" THEN "ONE" ELSE "ZERO"
  /\ i.type = "MICRO" /\ i.mode = "SHIFT" /\ i.class = "STEP" /\ i.bsrc = "DL" /\ i.flag \in BOOLEAN

Entered(i, fl, b) == IF i.shift = "LEFT" THEN Cell(2 * b) + fl ELSE b
Oldresult(i, fl, f) ==
  IF i.shift = "RIGHT" THEN f.r \div 2 + (IF Sin(i, fl, f) THEN Msb ELSE 0) ELSE f.r
Oldflag(i, fl, b, f) ==
  IF ~i.flag THEN fl
  ELSE IF i.flagin # "FLSHIFT" THEN Bit(ALUcond(i.cond, f))
  ELSE IF i.shift = "LEFT" THEN Bit(Negative(b))
  ELSE IF i.shift = "RIGHT" THEN f.r % 2 ELSE 0

LEMMA OldOutcome ==
  ASSUME alu \in Old, NEW i, Oldstep(i), NEW a, NEW b, Entered(i, flag, b) \in Word,
         NEW f, f = Stepped(i, flag, a, Entered(i, flag, b))
  PROVE  Outcome(i, a, b) =
           [r |-> Oldresult(i, flag, f), flag |-> Oldflag(i, flag, b, f), y |-> reg.y]
<1> DEFINE c == Entered(i, flag, b)
           x == [ir |-> i, alua |-> a, alub |-> b, flag |-> flag, shr |-> 0]
           g == Oldresult(i, flag, f)
           l == IF i.shift = "LEFT" THEN Bit(Negative(b)) ELSE 0
           h == IF i.shift = "RIGHT" THEN f.r % 2 ELSE 0
           w == Oldflag(i, flag, b, f)
<1>0. /\ i.step \in {"STEPB", "DIV1", "DIV2", "MUL"}
      /\ i.cin = IF i.step = "DIV1" THEN "ONE" ELSE "ZERO"
      /\ i.type = "MICRO" /\ i.mode = "SHIFT" /\ i.class = "STEP" /\ i.bsrc = "DL" /\ i.flag \in BOOLEAN
  BY DEF Oldstep
<1>1. /\ F3!Flagged(F3!StepSum(i, flag, a, c)) = f
      /\ Q!F!Flagged(Q!StepSum(i, flag, a, c)) = f
  BY <1>0, StepSums
<1>2. x.ir = i /\ x.alua = a /\ x.alub = b /\ x.flag = flag /\ x.shr = 0
  OBVIOUS
<1>3. Amount(i, a) = a
  BY <1>0 DEF Amount
<1> HIDE DEF x
<1>4. /\ F3!Shiftedright(i, flag, f) = f.r \div 2 + (IF Sin(i, flag, f) THEN Msb ELSE 0)
      /\ Q!F!Shiftedright(i, flag, f) = f.r \div 2 + (IF Sin(i, flag, f) THEN Msb ELSE 0)
  <2>1. F3!Shiftedright(i, flag, f) = f.r \div 2 + (IF Sin(i, flag, f) THEN Msb ELSE 0)
    BY OldCells DEF F3!Shiftedright, Sin
  <2>2. Q!F!Shiftedright(i, flag, f) = f.r \div 2 + (IF Sin(i, flag, f) THEN Msb ELSE 0)
    BY StudyCells DEF Q!F!Shiftedright, Sin
  <2> QED
    BY <2>1, <2>2
<1>5. CASE alu = "frisc3"
  <2> DEFINE u == F3!Microalu(x)
  <2>1. u = [r |-> g, f |-> f, left |-> l, right |-> h]
    <3>1. c = IF i.mode = "SHIFT" /\ i.shift = "LEFT" THEN F3!Cell(2 * b) + flag ELSE b
      BY <1>0, OldCells DEF Entered
    <3>2. F3!Bit(F3!Negative(b)) = Bit(Negative(b))
      BY OldCells
    <3> QED
      BY <1>0, <1>1, <1>2, <1>4, <3>1, <3>2 DEF F3!Microalu, F3!Computed, Oldresult
  <2>2. u.r = g /\ u.f = f /\ u.left = l /\ u.right = h
    BY <2>1
  <2> HIDE DEF u, g, l, h
  <2>3. F3!Flag(x, u) = w
    BY <1>0, <1>2, <2>2, OldCells DEF F3!Flag, l, h, Oldflag
  <2>4. F3!Bsrcb(x, u, F3!Flag(x, u)) = g
    BY <1>0, <1>2, <2>2 DEF F3!Bsrcb
  <2> HIDE DEF w
  <2>5. Outcome(i, a, b) = [r |-> g, flag |-> w, y |-> reg.y]
    BY <1>3, <1>5, <2>3, <2>4 DEF Outcome, Oldly, x, u
  <2> QED
    BY <2>5 DEF g, w
<1>6. CASE alu = "simqbr"
  <2> DEFINE u == Q!Microalu(x)
  <2>1. u = [r |-> g, f |-> f, left |-> l, right |-> h]
    <3>1. c = IF i.mode = "SHIFT" /\ i.shift = "LEFT" THEN Q!F!Cell(2 * b) + flag ELSE b
      BY <1>0, StudyCells DEF Entered
    <3>2. Q!F!Bit(Q!F!Negative(b)) = Bit(Negative(b))
      BY StudyCells
    <3> QED
      BY <1>0, <1>1, <1>2, <1>4, <3>1, <3>2 DEF Q!Microalu, Q!F!Computed, Oldresult
  <2>2. u.r = g /\ u.f = f /\ u.left = l /\ u.right = h
    BY <2>1
  <2> HIDE DEF u, g, l, h
  <2>3. F3!Flag(x, u) = w
    BY <1>0, <1>2, <2>2, OldCells DEF F3!Flag, l, h, Oldflag
  <2>4. F3!Bsrcb(x, u, F3!Flag(x, u)) = g
    BY <1>0, <1>2, <2>2 DEF F3!Bsrcb
  <2> HIDE DEF w
  <2>5. Outcome(i, a, b) = [r |-> g, flag |-> w, y |-> reg.y]
    BY <1>3, <1>6, <2>3, <2>4 DEF Outcome, Oldly, x, u
  <2> QED
    BY <2>5 DEF g, w
<1> QED
  BY <1>5, <1>6 DEF Old

(* The five instructions by what they do to numbers.                       *)
LEMMA RightOutcome ==
  ASSUME alu \in Old, NEW a, NEW b \in Word, flag \in {0, 1}
  PROVE  LET u == Outcome(Shifted("RIGHT"), a, b)
         IN  u.r = b \div 2 + Msb * flag /\ u.flag = b % 2 /\ u.y = reg.y
<1> DEFINE i == Shifted("RIGHT")
<1>1. /\ i.step = "STEPB" /\ i.cin = "ZERO" /\ i.type = "MICRO" /\ i.mode = "SHIFT" /\ i.class = "STEP"
      /\ i.bsrc = "DL" /\ i.flag = TRUE /\ i.shift = "RIGHT" /\ i.sin = "SFLAG" /\ i.flagin = "FLSHIFT"
  BY DEF Shifted, Plainstep
<1> HIDE DEF i
<1> DEFINE f == Stepped(i, flag, a, Entered(i, flag, b))
<1>2. Oldstep(i) /\ Entered(i, flag, b) = b /\ f.r = b
  BY <1>1 DEF Oldstep, Entered, Stepped, Plain, Flagged
<1> HIDE DEF f
<1>3. LET u == Outcome(i, a, b)
      IN  /\ u.r = b \div 2 + (IF Sin(i, flag, f) THEN Msb ELSE 0)
          /\ u.flag = b % 2 /\ u.y = reg.y
  <2>1. Outcome(i, a, b) = [r |-> Oldresult(i, flag, f), flag |-> Oldflag(i, flag, b, f), y |-> reg.y]
    BY <1>2, OldOutcome DEF f
  <2>2. /\ Oldresult(i, flag, f) = b \div 2 + (IF Sin(i, flag, f) THEN Msb ELSE 0)
        /\ Oldflag(i, flag, b, f) = b % 2
    BY <1>1, <1>2 DEF Oldresult, Oldflag
  <2> QED
    BY <2>1, <2>2
<1>4. (IF Sin(i, flag, f) THEN Msb ELSE 0) = Msb * flag
  BY <1>1, CellSize DEF Sin
<1> QED
  BY <1>3, <1>4 DEF i

LEMMA LeftOutcome ==
  ASSUME alu \in Old, NEW a, NEW b \in Word, flag \in {0, 1}
  PROVE  LET u == Outcome(Shifted("LEFT"), a, b)
         IN  /\ Cell(2 * b) + flag \in Word
             /\ u.r = Cell(2 * b) + flag /\ u.flag = Bit(Negative(b)) /\ u.y = reg.y
<1> DEFINE i == Shifted("LEFT")
           c == Cell(2 * b) + flag
<1>1. /\ i.step = "STEPB" /\ i.cin = "ZERO" /\ i.type = "MICRO" /\ i.mode = "SHIFT" /\ i.class = "STEP"
      /\ i.bsrc = "DL" /\ i.flag = TRUE /\ i.shift = "LEFT" /\ i.sin = "SFLAG" /\ i.flagin = "FLSHIFT"
  BY DEF Shifted, Plainstep
<1> HIDE DEF i
<1>2. c \in Word
  BY CellSize, CellOf DEF Word
<1> DEFINE f == Stepped(i, flag, a, Entered(i, flag, b))
<1>3. Oldstep(i) /\ Entered(i, flag, b) = c
  BY <1>1 DEF Oldstep, Entered
<1>4. f.r = c
  BY <1>1, <1>3 DEF Stepped, Plain, Flagged
<1> HIDE DEF c, f
<1>5. LET u == Outcome(i, a, b)
      IN  u.r = c /\ u.flag = Bit(Negative(b)) /\ u.y = reg.y
  <2>1. Outcome(i, a, b) = [r |-> Oldresult(i, flag, f), flag |-> Oldflag(i, flag, b, f), y |-> reg.y]
    BY <1>2, <1>3, OldOutcome DEF f
  <2>2. Oldresult(i, flag, f) = c /\ Oldflag(i, flag, b, f) = Bit(Negative(b))
    BY <1>1, <1>4 DEF Oldresult, Oldflag
  <2> QED
    BY <2>1, <2>2
<1> QED
  BY <1>2, <1>5 DEF i, c

LEMMA AddbitOutcome ==
  ASSUME alu \in Old, NEW a \in Word, NEW b \in Word, flag \in {0, 1}
  PROVE  LET u == Outcome(Addbit, a, b)
         IN  u.r \in Word /\ u.flag \in {0, 1} /\ 2 * u.r + u.flag = b + a * flag /\ u.y = reg.y
<1> DEFINE i == Addbit
           f == Stepped(i, flag, a, b)
           u == Outcome(i, a, b)
           s == b + a * flag
<1>1. /\ i.step = "MUL" /\ i.cin = "ZERO" /\ i.type = "MICRO" /\ i.mode = "SHIFT" /\ i.class = "STEP"
      /\ i.bsrc = "DL" /\ i.flag = TRUE /\ i.shift = "RIGHT" /\ i.sin = "SALUCOND" /\ i.cond = "COUT"
      /\ i.flagin = "FLSHIFT"
  BY DEF Addbit, Plainstep
<1> HIDE DEF i
<1>2. Msb \in Nat /\ Msb >= 2 /\ 2^W = 2 * Msb /\ a \in 0 .. 2 * Msb - 1 /\ b \in 0 .. 2 * Msb - 1
  BY CellSize DEF Word
<1>3. f.r \in Word /\ (f.c <=> s >= 2^W) /\ f.r = IF s >= 2^W THEN s - 2^W ELSE s
  <2>1. CASE flag = 1
    <3>1. f = Flagged(Addop(a, b, 0))
      BY <1>1, <2>1 DEF Stepped
    <3>2. s = a + b + 0
      BY <1>2, <2>1
    <3> HIDE DEF f, s
    <3> QED
      BY <3>1, <3>2, AdderFlags
  <2>2. CASE flag = 0
    <3>1. f = Plain(b)
      BY <1>1, <2>2 DEF Stepped
    <3>2. s = b /\ ~(s >= 2^W)
      BY <1>2, <2>2
    <3>3. f.r = b /\ f.c = FALSE
      BY <3>1 DEF Plain, Flagged
    <3> HIDE DEF f, s
    <3> QED
      BY <3>2, <3>3
  <2> QED
    BY <2>1, <2>2
<1>4. /\ u.r = f.r \div 2 + (IF Sin(i, flag, f) THEN Msb ELSE 0)
      /\ u.flag = f.r % 2 /\ u.y = reg.y
  <2>1. Oldstep(i) /\ Entered(i, flag, b) = b
    BY <1>1 DEF Oldstep, Entered
  <2>2. f = Stepped(i, flag, a, Entered(i, flag, b))
    BY <2>1
  <2> HIDE DEF f
  <2>3. Outcome(i, a, b) = [r |-> Oldresult(i, flag, f), flag |-> Oldflag(i, flag, b, f), y |-> reg.y]
    BY <2>1, <2>2, OldOutcome
  <2>4. /\ Oldresult(i, flag, f) = f.r \div 2 + (IF Sin(i, flag, f) THEN Msb ELSE 0)
        /\ Oldflag(i, flag, b, f) = f.r % 2
    BY <1>1 DEF Oldresult, Oldflag
  <2> QED
    BY <2>3, <2>4
<1>5. Sin(i, flag, f) <=> f.c
  BY <1>1 DEF Sin, ALUcond
<1>6. s \in Int
  BY <1>2
<1> HIDE DEF f, u, s
<1> DEFINE q == f.r \div 2
           o == f.r % 2
<1>7. q \in Nat /\ o \in {0, 1} /\ f.r = 2 * q + o /\ q < Msb
  BY <1>2, <1>3 DEF Word
<1>8. u.r = q + (IF s >= 2 * Msb THEN Msb ELSE 0) /\ u.flag = o
  BY <1>2, <1>3, <1>4, <1>5
<1> HIDE DEF q, o
<1>9. u.r \in 0 .. 2 * Msb - 1 /\ 2 * u.r + u.flag = s
  BY <1>2, <1>3, <1>6, <1>7, <1>8
<1> QED
  BY <1>2, <1>4, <1>7, <1>8, <1>9 DEF u, i, s, Word

LEMMA SubtractOutcome ==
  ASSUME alu \in Old, NEW a \in Word, NEW b \in Word, flag \in {0, 1}
  PROVE  LET u == Outcome(Subtract, a, b)
             c == Cell(2 * b) + flag
         IN  /\ u.r \in Word /\ u.flag = (IF c >= a THEN 1 ELSE 0)
             /\ u.r = Cell(c - a) /\ u.y = reg.y
<1> DEFINE i == Subtract
           c == Cell(2 * b) + flag
           u == Outcome(i, a, b)
           f == Stepped(i, flag, a, c)
<1>1. /\ i.step = "DIV1" /\ i.cin = "ONE" /\ i.type = "MICRO" /\ i.mode = "SHIFT" /\ i.class = "STEP"
      /\ i.bsrc = "DL" /\ i.flag = TRUE /\ i.shift = "LEFT" /\ i.cond = "COUT" /\ i.flagin = "FLCOND"
  BY DEF Subtract, Plainstep
<1> HIDE DEF i
<1>2. c \in Word
  BY CellSize, CellOf DEF Word
<1>3. f = Difference(c, a)
  BY <1>1 DEF Stepped
<1>4. Oldstep(i) /\ Entered(i, flag, b) = c
  BY <1>1 DEF Oldstep, Entered
<1>41. f = Stepped(i, flag, a, Entered(i, flag, b))
  BY <1>4
<1> HIDE DEF c
<1>5. u.r = f.r /\ u.flag = Bit(ALUcond(i.cond, f)) /\ u.y = reg.y
  <2> HIDE DEF f
  <2>1. Outcome(i, a, b) = [r |-> Oldresult(i, flag, f), flag |-> Oldflag(i, flag, b, f), y |-> reg.y]
    BY <1>2, <1>4, <1>41, OldOutcome
  <2>2. Oldresult(i, flag, f) = f.r /\ Oldflag(i, flag, b, f) = Bit(ALUcond(i.cond, f))
    BY <1>1 DEF Oldresult, Oldflag
  <2> QED
    BY <2>1, <2>2
<1>6. f.r \in Word /\ f.r = Cell(c - a) /\ f.c \in BOOLEAN /\ (f.c <=> c >= a)
  BY <1>2, <1>3, DifferenceFlags
<1>7. ALUcond(i.cond, f) = f.c
  BY <1>1 DEF ALUcond
<1> HIDE DEF f, u
<1>8. u.flag = (IF c >= a THEN 1 ELSE 0)
  BY <1>5, <1>6, <1>7 DEF Bit
<1> QED
  BY <1>5, <1>6, <1>8 DEF u, i, c

LEMMA AddbackOutcome ==
  ASSUME alu \in Old, NEW a \in Word, NEW b \in Word, flag \in {0, 1}
  PROVE  LET u == Outcome(Addback, a, b)
         IN  /\ u.r = (IF flag = 0 THEN Cell(a + b) ELSE b)
             /\ u.flag = flag /\ u.y = reg.y
<1> DEFINE i == Addback
           u == Outcome(i, a, b)
           f == Stepped(i, flag, a, b)
<1>1. /\ i.step = "DIV2" /\ i.cin = "ZERO" /\ i.type = "MICRO" /\ i.mode = "SHIFT" /\ i.class = "STEP"
      /\ i.bsrc = "DL" /\ i.flag = FALSE /\ i.shift = "NONE"
  BY DEF Addback, Plainstep
<1> HIDE DEF i
<1>2. Oldstep(i) /\ Entered(i, flag, b) = b
  BY <1>1 DEF Oldstep, Entered
<1>21. f = Stepped(i, flag, a, Entered(i, flag, b))
  BY <1>2
<1>3. u.r = f.r /\ u.flag = flag /\ u.y = reg.y
  <2> HIDE DEF f
  <2>1. Outcome(i, a, b) = [r |-> Oldresult(i, flag, f), flag |-> Oldflag(i, flag, b, f), y |-> reg.y]
    BY <1>2, <1>21, OldOutcome
  <2>2. Oldresult(i, flag, f) = f.r /\ Oldflag(i, flag, b, f) = flag
    BY <1>1 DEF Oldresult, Oldflag
  <2> QED
    BY <2>1, <2>2
<1>4. f.r = IF flag = 0 THEN Cell(a + b) ELSE b
  <2>1. Addop(a, b, 0).r = Cell(a + b)
    <3>1. a + b + 0 = a + b
      BY CellSize DEF Word
    <3> QED
      BY <3>1 DEF Addop, Cell
  <2> QED
    BY <1>1, <2>1 DEF Stepped, Plain, Flagged
<1> QED
  BY <1>3, <1>4 DEF i

-----------------------------------------------------------------------------
(* Multiplication on FRISC 3, bit by bit.                                  *)

(* The sum s above the bits low of the product of x and the bits used.     *)
Product(s, R, low, x, used) == s * R + low = x * used

(* Before the shift of Y, the flag has the next bit of the product.        *)
Summed(g, r, fl, used, rest, low, R, T) ==
  /\ Joined(g[2], used, R, rest) /\ used < R /\ rest < T
  /\ Product(r.reg, R, low, g[1], used) /\ low < R
  /\ Joined(r.y + 2^W * fl, rest, 2 * T, low)

(* After it, the next bit of the multiplier.                               *)
Selected(g, r, fl, used, rest, low, R, T) ==
  /\ Joined(g[2], used, R, fl + 2 * rest) /\ used < R /\ fl + 2 * rest < T
  /\ Product(r.reg, R, low, g[1], used) /\ low < R
  /\ Joined(r.y, rest, T, low)

BitPart ==
  /\ given \in Word \X Word /\ reg.tos = given[1]
  /\ \E n \in 0 .. W : \E used, rest, low \in Nat :
       \/ k = 2 * n /\ Summed(given, reg, flag, used, rest, low, 2^n, 2^(W-n))
       \/ k = 2 * n + 1 /\ Selected(given, reg, flag, used, rest, low, 2^n, 2^(W-n))

LEMMA SelectAlgebra ==
  ASSUME NEW m \in Nat, NEW y \in Nat, NEW rest \in Nat, NEW low \in Nat,
         NEW T \in Nat, NEW S \in Nat, S = 2 * T, NEW z \in Nat, z = y + 2 * m,
         Joined(z, rest, S, low), NEW v \in Nat, v = y \div 2 + m, NEW h \in Nat, h = rest \div 2
  PROVE  Joined(v, h, T, low) /\ y % 2 = rest % 2
<1> DEFINE o == rest % 2
           t == T * low
<1>1. o \in {0, 1} /\ rest = 2 * h + o
  OBVIOUS
<1>2. t \in Nat /\ S * low = 2 * t
  OBVIOUS
<1>3. y + 2 * m = rest + 2 * t
  BY <1>2 DEF Joined
<1> HIDE DEF o, t
<1>4. y \div 2 = h + t - m /\ y % 2 = o
  BY <1>1, <1>2, <1>3
<1>5. v = h + t
  BY <1>1, <1>2, <1>4
<1> QED
  BY <1>4, <1>5 DEF Joined, o, t

LEMMA SumAlgebra ==
  ASSUME NEW R \in Nat, NEW low \in Nat, NEW x \in Nat, NEW used \in Nat,
         NEW s \in Nat, NEW z \in Nat, NEW fl \in {0, 1}, NEW o \in {0, 1},
         2 * z + o = s + x * fl, Product(s, R, low, x, used)
  PROVE  Product(z, 2 * R, low + R * o, x, used + R * fl)
<1>1. R * (2 * z + o) = R * (s + x * fl)
  OBVIOUS
<1>2. R * (2 * z + o) = z * (2 * R) + R * o
  OBVIOUS
<1>3. R * (s + x * fl) = s * R + x * (R * fl)
  OBVIOUS
<1>4. x * (used + R * fl) = x * used + x * (R * fl)
  OBVIOUS
<1>5. s * R + low = x * used
  BY DEF Product
<1> DEFINE H == z * (2 * R)
           B == R * o
           K == s * R
           D == x * (R * fl)
           E == x * used
<1>6. H \in Int /\ B \in Int /\ K \in Int /\ D \in Int /\ E \in Int
  OBVIOUS
<1>7. H + B = K + D /\ K + low = E /\ x * (used + R * fl) = E + D
  BY <1>1, <1>2, <1>3, <1>4, <1>5
<1>8. H + (low + B) = E + D
  <2> HIDE DEF H, B, K, D, E
  <2> QED
    BY <1>6, <1>7
<1> QED
  BY <1>7, <1>8 DEF Product

(* What an instruction writes, by the registers of its operand and result. *)
LEMMA Stepping ==
  ASSUME TypePart, Instruction, NEW i, i = Step(k), NEW u, u = Outcome(i, reg.tos, reg[i.in])
  PROVE  /\ k' = k + 1 /\ flag' = u.flag /\ alu' = alu /\ task' = task /\ given' = given
         /\ i.out = "reg" => reg' = [tos |-> reg.tos, reg |-> u.r, y |-> u.y]
         /\ i.out = "y" => reg' = [tos |-> reg.tos, reg |-> reg.reg, y |-> u.r]
         /\ i.out = "tos" => reg' = [tos |-> u.r, reg |-> reg.reg, y |-> u.y]
<1>1. reg' = [[reg EXCEPT !.y = u.y] EXCEPT ![i.out] = u.r]
  BY InstructionEffect
<1> QED
  BY <1>1, InstructionEffect DEF TypePart, Registers

LEMMA SelectStep ==
  ASSUME TypePart, alu \in Old, task.name = "multiply", BitPart, Instruction, k % 2 = 0
  PROVE  TypePart' /\ BitPart'
<1> DEFINE i == Shifted("RIGHT")
           u == Outcome(i, reg.tos, reg.y)
<1>1. reg.tos \in Word /\ reg.reg \in Word /\ reg.y \in Word /\ flag \in {0, 1} /\ k \in Nat
  BY DEF TypePart, Registers
<1>2. Step(k) = i /\ i.in = "y" /\ i.out = "y"
  BY DEF Step, Multiply, Shifted, Plainstep, Old, New
<1>3. /\ k' = k + 1 /\ flag' = u.flag /\ alu' = alu /\ task' = task /\ given' = given
      /\ reg' = [tos |-> reg.tos, reg |-> reg.reg, y |-> u.r]
  <2> HIDE DEF i
  <2>1. u = Outcome(i, reg.tos, reg[i.in])
    BY <1>2
  <2> HIDE DEF u
  <2> QED
    BY <1>2, <2>1, Stepping
<1>4. u.r = reg.y \div 2 + Msb * flag /\ u.flag = reg.y % 2
  BY <1>1, RightOutcome
<1> HIDE DEF u, i
<1>5. PICK n \in 0 .. W, used \in Nat, rest \in Nat, low \in Nat :
        k = 2 * n /\ Summed(given, reg, flag, used, rest, low, 2^n, 2^(W-n))
  BY <1>1, CellSize DEF BitPart
<1> DEFINE R == 2^n
           T == 2^(W-n)
<1>6. R \in Nat /\ T \in Nat /\ Msb \in Nat /\ 2^W = 2 * Msb
  BY <1>5, CellSize, PowerPositive
<1> HIDE DEF R, T
<1>7. /\ Joined(given[2], used, R, rest) /\ used < R /\ rest < T
      /\ Product(reg.reg, R, low, given[1], used) /\ low < R
      /\ Joined(reg.y + 2^W * flag, rest, 2 * T, low)
  BY <1>5 DEF Summed, R, T
<1> DEFINE h == rest \div 2
<1>8. Joined(u.r, h, T, low) /\ u.flag = rest % 2
  <2> DEFINE S == 2 * T
             z == reg.y + 2^W * flag
             m == Msb * flag
             v == reg.y \div 2 + m
  <2>1. /\ reg.y \in Nat /\ S \in Nat /\ m \in Nat /\ z \in Nat /\ z = reg.y + 2 * m /\ S = 2 * T
        /\ v \in Nat /\ v = reg.y \div 2 + m /\ h \in Nat /\ h = rest \div 2
    BY <1>1, <1>6 DEF Word
  <2>2. Joined(z, rest, S, low) /\ u.r = v
    BY <1>4, <1>7
  <2> HIDE DEF S, z, m, v, h
  <2>3. Joined(v, h, T, low) /\ reg.y % 2 = rest % 2
    BY <1>6, <2>1, <2>2, SelectAlgebra
  <2> QED
    BY <1>4, <2>2, <2>3
<1>9. h \in Nat /\ u.flag \in {0, 1} /\ u.flag + 2 * h = rest
  BY <1>8
<1> HIDE DEF h
<1>10. Selected(given', reg', flag', used, h, low, R, T)
  BY <1>3, <1>7, <1>8, <1>9 DEF Selected, h
<1>11. k' = 2 * n + 1
  BY <1>3, <1>5
<1>12. BitPart'
  <2>1. given' \in Word \X Word /\ reg'.tos = given'[1]
    BY <1>3 DEF BitPart
  <2> QED
    BY <1>9, <1>10, <1>11, <2>1 DEF BitPart, R, T
<1>13. u.r \in Word
  BY <1>1, <1>4, <1>6 DEF Word
<1> QED
  BY <1>1, <1>3, <1>9, <1>12, <1>13 DEF TypePart, Registers

LEMMA SumStep ==
  ASSUME TypePart, alu \in Old, task.name = "multiply", BitPart, Instruction, k % 2 = 1
  PROVE  TypePart' /\ BitPart'
<1> DEFINE i == Addbit
           u == Outcome(i, reg.tos, reg.reg)
<1>1. reg.tos \in Word /\ reg.reg \in Word /\ reg.y \in Word /\ flag \in {0, 1} /\ k \in Nat
  BY DEF TypePart, Registers
<1>2. Step(k) = i /\ i.in = "reg" /\ i.out = "reg"
  BY DEF Step, Multiply, Addbit, Plainstep, Old, New
<1>3. /\ k' = k + 1 /\ flag' = u.flag /\ alu' = alu /\ task' = task /\ given' = given
      /\ reg' = [tos |-> reg.tos, reg |-> u.r, y |-> u.y]
  <2> HIDE DEF i
  <2>1. u = Outcome(i, reg.tos, reg[i.in])
    BY <1>2
  <2> HIDE DEF u
  <2> QED
    BY <1>2, <2>1, Stepping
<1>4. u.r \in Word /\ u.flag \in {0, 1} /\ 2 * u.r + u.flag = reg.reg + reg.tos * flag /\ u.y = reg.y
  BY <1>1, AddbitOutcome
<1>5. k < 2 * W + 1
  <2>1. Length = 2 * W + 1
    BY DEF Length, Old, New
  <2> QED
    BY <2>1, InstructionEffect
<1> HIDE DEF u, i
<1>6. PICK n \in 0 .. W, used \in Nat, rest \in Nat, low \in Nat :
        k = 2 * n + 1 /\ Selected(given, reg, flag, used, rest, low, 2^n, 2^(W-n))
  BY <1>1, CellSize DEF BitPart
<1> DEFINE R == 2^n
           T == 2^(W-n-1)
<1>7. W \in Nat /\ n < W /\ n + 1 \in 0 .. W /\ W - n - 1 \in Nat
  BY <1>5, <1>6, CellSize
<1>8. /\ R \in Nat /\ T \in Nat /\ Msb \in Nat /\ 2^W = 2 * Msb
      /\ 2^(n+1) = 2 * R /\ 2^(W-n) = 2 * T /\ 2^(W-(n+1)) = T
  <2>1. W - n - 1 + 1 = W - n /\ W - (n + 1) = W - n - 1
    BY <1>7
  <2> QED
    BY <1>6, <1>7, <2>1, CellSize, PowerPositive, PowerNext
<1>9. 2^W = R * (2 * T)
  <2> DEFINE e == W - n
  <2>1. n \in Nat /\ n + e = W /\ e \in Nat /\ 2^e = 2 * T
    BY <1>7, <1>8
  <2> HIDE DEF e, T
  <2>2. 2^(n+e) = 2^n * 2^e
    BY <2>1, PowerSum, Zenon
  <2> QED
    BY <2>1, <2>2
<1> HIDE DEF R, T
<1>10. /\ Joined(given[2], used, R, flag + 2 * rest) /\ used < R /\ flag + 2 * rest < 2 * T
       /\ Product(reg.reg, R, low, given[1], used) /\ low < R
       /\ Joined(reg.y, rest, 2 * T, low)
  BY <1>6, <1>8 DEF Selected, R
<1> DEFINE o == u.flag
           nused == used + R * flag
           nlow == low + R * o
<1>11. o \in {0, 1} /\ nused \in Nat /\ nlow \in Nat /\ nused < 2 * R /\ nlow < 2 * R
  BY <1>1, <1>4, <1>8, <1>10
<1>12. Product(u.r, 2 * R, nlow, given[1], nused)
  <2>1. reg.reg \in Nat /\ u.r \in Nat /\ reg.tos \in Nat /\ reg.tos = given[1]
    BY <1>1, <1>4 DEF Word, BitPart
  <2> DEFINE x == reg.tos
             s == reg.reg
             z == u.r
  <2>2. 2 * z + o = s + x * flag /\ Product(s, R, low, x, used)
    BY <1>4, <1>10, <2>1
  <2> HIDE DEF x, s, z, o
  <2>3. Product(z, 2 * R, low + R * o, x, used + R * flag)
    BY <1>1, <1>8, <1>11, <2>1, <2>2, SumAlgebra DEF x, s, z
  <2> QED
    BY <2>1, <2>3 DEF x, z
<1>13. Joined(given[2], nused, 2 * R, rest) /\ rest < T
  <2>1. R * (flag + 2 * rest) = R * flag + (2 * R) * rest
    BY <1>1, <1>8
  <2>2. R * flag \in Nat /\ (2 * R) * rest \in Nat
    BY <1>1, <1>8
  <2>3. used + (R * flag + (2 * R) * rest) = (used + R * flag) + (2 * R) * rest
    BY <2>2
  <2> QED
    BY <1>1, <1>8, <1>10, <2>1, <2>3 DEF Joined
<1>14. Joined(u.y + 2^W * o, rest, 2 * T, nlow)
  <2>1. (R * (2 * T)) * o = (2 * T) * (R * o)
    <3>1. \A x, y, z \in Nat : (x * y) * z = y * (x * z)
      OBVIOUS
    <3>2. R \in Nat /\ 2 * T \in Nat /\ o \in Nat
      BY <1>8, <1>11
    <3> QED
      BY <3>1, <3>2
  <2>2. (2 * T) * (low + R * o) = (2 * T) * low + (2 * T) * (R * o)
    <3>1. \A x, y, z \in Nat : x * (y + z) = x * y + x * z
      OBVIOUS
    <3>2. R * o \in Nat /\ 2 * T \in Nat
      BY <1>8, <1>11
    <3> QED
      BY <3>1, <3>2
  <2>3. (2 * T) * low \in Nat /\ (2 * T) * (R * o) \in Nat
    BY <1>8, <1>11
  <2>4. (rest + (2 * T) * low) + (2 * T) * (R * o) = rest + ((2 * T) * low + (2 * T) * (R * o))
    BY <2>3
  <2> QED
    BY <1>4, <1>9, <1>10, <2>1, <2>2, <2>4 DEF Joined
<1> HIDE DEF nused, nlow, o
<1>15. Summed(given', reg', flag', nused, rest, nlow, 2 * R, T)
  BY <1>3, <1>11, <1>12, <1>13, <1>14 DEF Summed, o
<1>16. k' = 2 * (n + 1)
  BY <1>3, <1>6
<1>17. BitPart'
  <2>1. given' \in Word \X Word /\ reg'.tos = given'[1]
    BY <1>3 DEF BitPart
  <2>2. Summed(given', reg', flag', nused, rest, nlow, 2^(n+1), 2^(W-(n+1)))
    BY <1>8, <1>15
  <2> QED
    BY <1>7, <1>11, <1>16, <2>1, <2>2 DEF BitPart
<1> QED
  BY <1>1, <1>3, <1>4, <1>17 DEF TypePart, Registers

LEMMA BitBegins ==
  ASSUME NEW a \in Word, NEW b \in Word, given = <<a, b>>, reg = [tos |-> a, reg |-> 0, y |-> b],
         flag = 0, k = 0
  PROVE  BitPart
<1>1. W \in Nat /\ 2^W \in Nat /\ 2^0 = 1 /\ 2^(W-0) = 2^W
  <2>1. W \in Nat /\ W - 0 = W
    BY CellSize
  <2> QED
    BY <2>1, PowerPositive, PowerZero
<1>2. a \in Nat /\ b \in Nat /\ b < 2^W
  BY <1>1 DEF Word
<1>3. Product(0, 1, 0, a, 0) /\ Joined(b, 0, 1, b) /\ Joined(b + 2^W * 0, b, 2 * 2^W, 0)
  BY <1>1, <1>2 DEF Product, Joined
<1>4. Summed(given, reg, flag, 0, b, 0, 2^0, 2^(W-0))
  BY <1>1, <1>2, <1>3 DEF Summed
<1>5. 0 \in 0 .. W /\ k = 2 * 0
  BY <1>1
<1> QED
  BY <1>2, <1>4, <1>5 DEF BitPart

LEMMA BitEnds ==
  ASSUME TypePart, BitPart, k = 2 * W + 1
  PROVE  2^W * reg.reg + reg.y = given[1] * given[2]
<1>1. W \in Nat /\ 2^W \in Nat /\ 2^0 = 1 /\ W - W = 0
  BY CellSize, PowerPositive, PowerZero
<1>2. PICK used, rest, low \in Nat : Selected(given, reg, flag, used, rest, low, 2^W, 1)
  <2>1. PICK n \in 0 .. W, used \in Nat, rest \in Nat, low \in Nat :
          k = 2 * n + 1 /\ Selected(given, reg, flag, used, rest, low, 2^n, 2^(W-n))
    BY <1>1 DEF BitPart
  <2>2. n = W
    BY <1>1, <2>1
  <2> QED
    BY <1>1, <2>1, <2>2
<1>3. flag \in {0, 1} /\ reg.reg \in Nat /\ given[1] \in Nat /\ given[2] \in Nat
  BY <1>1 DEF TypePart, Registers, Word, BitPart
<1>4. rest = 0 /\ flag = 0
  BY <1>2, <1>3 DEF Selected
<1>5. given[2] = used /\ reg.y = low
  BY <1>1, <1>2, <1>4 DEF Selected, Joined
<1>6. reg.reg * 2^W + low = given[1] * used
  BY <1>2 DEF Selected, Product
<1> QED
  BY <1>1, <1>3, <1>5, <1>6

-----------------------------------------------------------------------------
(* Division.                                                               *)

Newstep(i) ==
  /\ i.step \in {"DIV", "CADD"} /\ i.type = "MICRO" /\ i.class = "STEP" /\ i.right = FALSE
  /\ i.flag = TRUE /\ i.fsrc \in {"FLALUCOND", "FLDIVHELP"} /\ i.ycont = "YLEFT"

Shiftedin(i, b, y) == IF i.left THEN Cell(2 * b) + Bit(Negative(y)) ELSE b
Newsum(i, fl, a, c) ==
  CASE i.step = "DIV" -> IF fl = 1 THEN Flagged(Addop(Com(a), c, 1)) ELSE Flagged(Addop(a, c, 0))
    [] i.step = "CADD" -> Flagged(Addop(IF fl = 0 THEN a ELSE 0, c, 0))
Newflag(i, fl, b, f) ==
  IF i.fsrc = "FLALUCOND" THEN Bit(ALUcond(i.cond, f))
  ELSE IF fl = 1 THEN Bit(Negative(b) \/ f.c) ELSE Bit(Negative(b) /\ f.c)

LEMMA NewSums ==
  ASSUME NEW i, Newstep(i), NEW a, NEW c, NEW fl, NEW y
  PROVE  /\ A!Flagged(A!Stepsum(i, a, c, fl, y)) = Newsum(i, fl, a, c)
         /\ C!Flagged(C!A!Stepsum(i, a, c, fl, y)) = Newsum(i, fl, a, c)
<1>1. A!Flagged(A!Stepsum(i, a, c, fl, y)) = Newsum(i, fl, a, c)
  BY NewCells DEF A!Stepsum, A!Divsum, Newsum, Newstep
<1>2. C!Flagged(C!A!Stepsum(i, a, c, fl, y)) = Newsum(i, fl, a, c)
  BY CacheCells, SharedCells DEF C!A!Stepsum, C!A!Divsum, Newsum, Newstep
<1> QED
  BY <1>1, <1>2

LEMMA NewOutcome ==
  ASSUME alu \in New, NEW i, Newstep(i), NEW a, NEW b,
         NEW c, c = Shiftedin(i, b, reg.y), NEW f, f = Newsum(i, flag, a, c)
  PROVE  LET u == Outcome(i, a, b)
         IN  u.r = f.r /\ u.flag = Newflag(i, flag, b, f) /\ u.y = Cell(2 * reg.y) + flag
<1> DEFINE y == reg.y
           w == Newflag(i, flag, b, f)
           ny == Cell(2 * y) + flag
<1>1. /\ i.step \in {"DIV", "CADD"} /\ i.type = "MICRO" /\ i.class = "STEP" /\ i.right = FALSE
      /\ i.flag = TRUE /\ i.fsrc \in {"FLALUCOND", "FLDIVHELP"} /\ i.ycont = "YLEFT"
  BY DEF Newstep
<1>2. Amount(i, a) = a
  BY <1>1 DEF Amount
<1> HIDE DEF y
<1>3. CASE alu = "frisc4"
  <2> DEFINE cond == A!ALUcond(i.cond, f)
             e == A!Ended(i, A!Negative(b), flag, y, f, cond, [r |-> f.r, out |-> 0])
  <2>1. A!Flagged(A!Stepsum(i, a, c, flag, y)) = f
    BY NewSums DEF y
  <2>2. c = IF i.left THEN A!Cell(2 * b) + A!Bit(A!Negative(y)) ELSE b
    BY NewCells DEF Shiftedin, y
  <2>3. A!Step(i, a, b, flag, y) = e
    BY <1>1, <2>1, <2>2 DEF A!Step
  <2>4. e = [r |-> f.r, cond |-> cond, flag |-> w, y |-> ny]
    <3> HIDE DEF ny
    <3>1. e.r = f.r /\ e.cond = cond /\ e = [r |-> e.r, cond |-> e.cond, flag |-> e.flag, y |-> e.y]
      BY <1>1 DEF A!Ended
    <3>2. e.flag = w
      BY <1>1, NewCells DEF A!Ended, Newflag
    <3>3. e.y = ny
      BY <1>1, NewCells DEF A!Ended, ny
    <3> HIDE DEF e, cond, w
    <3> QED
      BY <3>1, <3>2, <3>3
  <2> HIDE DEF e, cond, w, ny
  <2>5. A!Microalu(i, a, b, flag, y) = e
    BY <1>1, <2>3, <2>4 DEF A!Microalu
  <2>6. Outcome(i, a, b) = Newly(i, e, e.flag, A!Microbarrel(i, a, b))
    BY <1>2, <1>3, <2>5 DEF Outcome, y
  <2>7. Outcome(i, a, b) = [r |-> e.r, flag |-> e.flag, y |-> e.y]
    BY <1>1, <2>6 DEF Newly
  <2> QED
    BY <2>4, <2>7 DEF w, ny, y
<1>4. CASE alu = "frisc4c"
  <2> DEFINE m == [f |-> f, r |-> f.r]
             cond == C!ALUcond(i.cond, m.f)
             e == C!Ended(i, C!Negative(b), flag, y, m, cond)
  <2>1. C!Flagged(C!A!Stepsum(i, a, c, flag, y)) = f
    BY NewSums DEF y
  <2>2. c = IF i.left THEN C!Cell(2 * b) + C!Bit(C!Negative(y)) ELSE b
    BY CacheCells DEF Shiftedin, y
  <2>3. C!Step(i, a, b, flag, y) = e
    BY <1>1, <2>1, <2>2 DEF C!Step
  <2>4. e.r = f.r /\ e.fl = w /\ e.y = ny
    <3> HIDE DEF ny
    <3>1. e.r = f.r
      BY <1>1 DEF C!Ended
    <3>2. e.fl = w
      BY <1>1, CacheCells DEF C!Ended, Newflag
    <3>3. e.y = ny
      BY <1>1, CacheCells DEF C!Ended, ny
    <3> QED
      BY <3>1, <3>2, <3>3
  <2> HIDE DEF e, m, cond, w, ny
  <2>5. C!Microalu(i, a, b, flag, y) = e
    BY <1>1, <2>3 DEF C!Microalu
  <2>6. C!Flag(i, e.fl, flag) = e.fl
    BY <1>1 DEF C!Flag
  <2>7. Outcome(i, a, b) = Newly(i, e, e.fl, C!Microbarrel(i, a, b, flag))
    BY <1>2, <1>4, <2>5, <2>6 DEF Outcome, y
  <2>8. Outcome(i, a, b) = [r |-> e.r, flag |-> e.fl, y |-> e.y]
    BY <1>1, <2>7 DEF Newly
  <2> QED
    BY <2>4, <2>8 DEF w, ny, y
<1> QED
  BY <1>3, <1>4 DEF New

Carried(f, s) ==
  /\ f.r \in Word /\ f.c \in BOOLEAN /\ (f.c <=> s >= 2^W)
  /\ f.r = IF s >= 2^W THEN s - 2^W ELSE s

LEMMA AdderCarry ==
  ASSUME NEW t \in Word, NEW b \in Word, NEW cin \in {0, 1}
  PROVE  Carried(Flagged(Addop(t, b, cin)), t + b + cin)
<1> DEFINE s == t + b + cin
           f == Flagged(Addop(t, b, cin))
<1>1. f.r \in Word /\ f.c \in BOOLEAN /\ (f.c <=> s >= 2^W)
  BY AdderFlags
<1>2. f.r = Cell(s)
  BY DEF Flagged, Addop, Cell
<1>3. s \in Int /\ 0 <= s /\ s < 4 * Msb /\ 2^W = 2 * Msb /\ Msb \in Nat
  BY CellSize DEF Word
<1> HIDE DEF s, f
<1>4. f.r = IF s >= 2^W THEN s - 2^W ELSE s
  BY <1>2, <1>3, CellOf
<1>5. Carried(f, s)
  BY <1>1, <1>4 DEF Carried
<1> QED
  BY <1>5 DEF s, f

(* A register that went below zero by a subtraction of d is d too small.   *)
Borrowed(r, d, fl) == IF fl = 1 THEN r ELSE r - d + 2^W

(* A remainder r, doubled and with the next bit of the dividend, gives the *)
(* next bit x of the quotient and the next remainder.                      *)
Nextdigit(r, bit, d, x, s) == s \in 0 .. d - 1 /\ s = 2 * r + bit - (IF x = 1 THEN d ELSE 0)

(* Without restoring: the step subtracts from a remainder or adds to one   *)
(* that is d too small, and its flag is the next bit, whatever is lost.    *)
LEMMA DivideOutcome ==
  ASSUME alu \in New, NEW d \in Word, d > 0, NEW v \in Word, flag \in {0, 1}, reg.y \in Word,
         NEW r \in 0 .. d - 1, v = Borrowed(r, d, flag),
         NEW bit \in {0, 1}, bit = Bit(Negative(reg.y))
  PROVE  LET u == Outcome(Divide, d, v)
         IN  /\ u.y = Cell(2 * reg.y) + flag /\ u.flag \in {0, 1} /\ u.r \in Word
             /\ \E s \in 0 .. d - 1 :
                  Nextdigit(r, bit, d, u.flag, s) /\ u.r = Borrowed(s, d, u.flag)
<1> DEFINE i == Divide
           u == Outcome(i, d, v)
           c == Cell(2 * v) + bit
           f == Newsum(i, flag, d, c)
<1>1. /\ i.step = "DIV" /\ i.type = "MICRO" /\ i.class = "STEP" /\ i.right = FALSE /\ i.left = TRUE
      /\ i.flag = TRUE /\ i.fsrc = "FLDIVHELP" /\ i.ycont = "YLEFT"
  BY DEF Divide, Plainstep
<1> HIDE DEF i
<1>2. /\ Msb \in Nat /\ Msb >= 2 /\ 2^W = 2 * Msb /\ d \in 1 .. 2 * Msb - 1 /\ v \in 0 .. 2 * Msb - 1
  BY CellSize DEF Word
<1>3. Cell(2 * v) = IF v >= Msb THEN 2 * v - 2 * Msb ELSE 2 * v
  BY <1>2, CellOf
<1>4. c = (IF v >= Msb THEN 2 * v + bit - 2 * Msb ELSE 2 * v + bit) /\ c \in Word
  BY <1>2, <1>3 DEF Word
<1>5. /\ f.r \in Word
      /\ flag = 1 => (f.c <=> c >= d) /\ f.r = IF c >= d THEN c - d ELSE c - d + 2 * Msb
      /\ flag = 0 => (f.c <=> c + d >= 2 * Msb) /\ f.r = IF c + d >= 2 * Msb THEN c + d - 2 * Msb ELSE c + d
  <2>1. CASE flag = 1
    <3>1. f = Flagged(Addop(Com(d), c, 1))
      BY <1>1, <2>1 DEF Newsum
    <3>2. Com(d) \in Word /\ Com(d) = 2 * Msb - 1 - d
      BY <1>2, ComFacts
    <3> HIDE DEF c, f
    <3> DEFINE a == Com(d)
               s == a + c + 1
    <3> HIDE DEF a, s
    <3>3. f.r \in Word /\ (f.c <=> s >= 2^W) /\ f.r = IF s >= 2^W THEN s - 2^W ELSE s
      <4>1. c \in Word /\ 1 \in {0, 1} /\ a \in Word /\ f = Flagged(Addop(a, c, 1)) /\ s = a + c + 1
        BY <1>4, <3>1, <3>2 DEF a, s
      <4>2. Carried(f, s)
        BY <4>1, AdderCarry
      <4> QED
        BY <4>2 DEF Carried
    <3>4. c \in 0 .. 2 * Msb - 1
      BY <1>2, <1>4 DEF Word
    <3> QED
      BY <1>2, <2>1, <3>2, <3>3, <3>4 DEF a, s
  <2>2. CASE flag = 0
    <3>1. f = Flagged(Addop(d, c, 0))
      BY <1>1, <2>2 DEF Newsum
    <3> HIDE DEF c, f
    <3> DEFINE s == d + c + 0
    <3> HIDE DEF s
    <3>2. f.r \in Word /\ (f.c <=> s >= 2^W) /\ f.r = IF s >= 2^W THEN s - 2^W ELSE s
      <4>1. c \in Word /\ 0 \in {0, 1} /\ s = d + c + 0
        BY <1>4 DEF s
      <4>2. Carried(f, s)
        BY <3>1, <4>1, AdderCarry
      <4> QED
        BY <4>2 DEF Carried
    <3>3. c \in 0 .. 2 * Msb - 1
      BY <1>2, <1>4 DEF Word
    <3> QED
      BY <1>2, <2>2, <3>2, <3>3 DEF s
  <2> QED
    BY <2>1, <2>2
<1>6. u.r = f.r /\ u.flag = Newflag(i, flag, v, f) /\ u.y = Cell(2 * reg.y) + flag
  <2>1. Newstep(i) /\ c = Shiftedin(i, v, reg.y)
    BY <1>1 DEF Newstep, Shiftedin
  <2> HIDE DEF c
  <2>2. f = Newsum(i, flag, d, c)
    OBVIOUS
  <2> HIDE DEF f
  <2> QED
    BY <2>1, <2>2, NewOutcome
<1>7. u.flag = IF flag = 1 THEN Bit(v >= Msb \/ f.c) ELSE Bit(v >= Msb /\ f.c)
  BY <1>1, <1>6 DEF Newflag, Negative
<1> DEFINE t == 2 * r + bit
<1> HIDE DEF u, f, c
<1>8. /\ u.flag \in {0, 1} /\ (u.flag = 1 <=> t >= d)
      /\ u.r = Borrowed(t - (IF t >= d THEN d ELSE 0), d, u.flag)
  <2>1. CASE flag = 1
    <3>1. v = r /\ c \in Int
      BY <1>2, <1>4, <2>1 DEF Borrowed
    <3>2. v >= Msb \/ f.c <=> t >= d
      BY <1>2, <1>4, <1>5, <2>1, <3>1
    <3>3. u.flag \in {0, 1} /\ (u.flag = 1 <=> t >= d)
      BY <1>7, <2>1, <3>2 DEF Bit
    <3>4. f.r = IF t >= d THEN t - d ELSE t - d + 2 * Msb
      BY <1>2, <1>4, <1>5, <2>1, <3>1, <3>2 DEF Word
    <3> QED
      BY <1>2, <1>6, <3>3, <3>4 DEF Borrowed
  <2>2. CASE flag = 0
    <3>1. v = r - d + 2 * Msb /\ c \in Int
      BY <1>2, <1>4, <2>2 DEF Borrowed
    <3>2. v >= Msb /\ f.c <=> t >= d
      BY <1>2, <1>4, <1>5, <2>2, <3>1
    <3>3. u.flag \in {0, 1} /\ (u.flag = 1 <=> t >= d)
      BY <1>7, <2>2, <3>2 DEF Bit
    <3>4. f.r = IF t >= d THEN t - d ELSE t - d + 2 * Msb
      BY <1>2, <1>4, <1>5, <2>2, <3>1, <3>2 DEF Word
    <3> QED
      BY <1>2, <1>6, <3>3, <3>4 DEF Borrowed
  <2> QED
    BY <2>1, <2>2
<1> DEFINE s == t - (IF t >= d THEN d ELSE 0)
<1>9. s \in 0 .. d - 1 /\ s = t - (IF u.flag = 1 THEN d ELSE 0)
  BY <1>2, <1>8
<1>10. Nextdigit(r, bit, d, u.flag, s) /\ u.r = Borrowed(s, d, u.flag)
  <2>1. u.r = Borrowed(s, d, u.flag)
    BY <1>8
  <2> HIDE DEF s
  <2>2. Nextdigit(r, bit, d, u.flag, s)
    BY <1>2, <1>9 DEF Nextdigit
  <2> QED
    BY <2>1, <2>2
<1> HIDE DEF s
<1> QED
  BY <1>5, <1>6, <1>8, <1>9, <1>10 DEF u, i

LEMMA RestoreOutcome ==
  ASSUME alu \in New, NEW a \in Word, NEW b \in Word, flag \in {0, 1}
  PROVE  LET u == Outcome(Restore, a, b)
         IN  /\ u.r = (IF flag = 0 THEN Cell(a + b) ELSE b)
             /\ u.flag = 0 /\ u.y = Cell(2 * reg.y) + flag
<1> DEFINE i == Restore
           f == Newsum(i, flag, a, b)
<1>1. /\ i.step = "CADD" /\ i.type = "MICRO" /\ i.class = "STEP" /\ i.right = FALSE /\ i.left = FALSE
      /\ i.flag = TRUE /\ i.fsrc = "FLALUCOND" /\ i.ycont = "YLEFT" /\ i.cond = "CLEAR"
  BY DEF Restore, Plainstep
<1> HIDE DEF i
<1>2. Newstep(i) /\ b = Shiftedin(i, b, reg.y)
  BY <1>1 DEF Newstep, Shiftedin
<1>3. f.r = IF flag = 0 THEN Cell(a + b) ELSE b
  <2>1. Addop(a, b, 0).r = Cell(a + b)
    <3>1. a + b + 0 = a + b
      BY CellSize DEF Word
    <3> QED
      BY <3>1 DEF Addop, Cell
  <2>2. Flagged(Addop(0, b, 0)).r = b
    BY NothingAdded DEF Plain, Flagged
  <2> QED
    BY <1>1, <2>1, <2>2 DEF Newsum, Flagged
<1>4. f = Newsum(i, flag, a, b)
  OBVIOUS
<1> HIDE DEF f
<1>5. LET u == Outcome(i, a, b)
      IN  u.r = f.r /\ u.flag = Newflag(i, flag, b, f) /\ u.y = Cell(2 * reg.y) + flag
  BY <1>2, <1>4, NewOutcome
<1>6. Newflag(i, flag, b, f) = 0
  BY <1>1 DEF Newflag, ALUcond, Bit
<1> QED
  BY <1>3, <1>5, <1>6 DEF i

(* The dividend is the quotient times the divisor and the remainder, above *)
(* the bits low that are still to come.                                    *)
Remains(n, q, d, r, P, low) == n = (q * d + r) * P + low

(* Y has the quotient, but for its last bit, which is in the flag, below   *)
(* those bits; the 1 that was the flag at first is above the quotient.     *)
Dividing(g, y, fl, q, r, f, low, P, R) ==
  /\ Remains(g[1], q, g[2], r, P, low) /\ r < g[2] /\ low < P /\ f < R
  /\ 2 * f + fl = R + q
  /\ Joined(y, f, R, low)

Operands == given[1] \in Nat /\ given[2] \in 1 .. 2^W - 1 /\ reg.tos = given[2]
Quotient == reg.y = given[1] \div given[2] /\ reg.reg = given[1] % given[2]

DividePart ==
  /\ Operands
  /\ \/ /\ k \in 0 .. W
        /\ \E q, r, f, low \in Nat :
             /\ Dividing(given, reg.y, flag, q, r, f, low, 2^(W-k), 2^k)
             /\ reg.reg = Borrowed(r, given[2], flag)
     \/ k = W + 1 /\ Quotient

(* The highest bit of Y, and what a shift to the left makes of Y.          *)
Topped(y, f, low, R, P, bit, rest) ==
  /\ Joined(low, rest, P, bit) /\ rest < P /\ bit \in {0, 1} /\ bit = Bit(Negative(y))
  /\ Joined(Cell(2 * y), 2 * f, 2 * R, rest)

Topless(y, f, low, R, P) ==
  f < R /\ low < 2 * P /\ Joined(Msb, 0, R, P) /\ Joined(y, f, R, low)

LEMMA TopBit ==
  ASSUME NEW y \in Word, NEW f \in Nat, NEW low \in Nat, NEW R \in Nat, NEW P \in Nat,
         Topless(y, f, low, R, P)
  PROVE  \E rest, bit \in Nat : Topped(y, f, low, R, P, bit, rest)
<1> DEFINE bit == IF low >= P THEN 1 ELSE 0
           rest == IF low >= P THEN low - P ELSE low
           x == R * rest
<1>1. Msb \in Nat /\ Msb >= 2 /\ 2^W = 2 * Msb /\ y \in 0 .. 2 * Msb - 1
  BY CellSize DEF Word
<1>0. f < R /\ low < 2 * P /\ Joined(Msb, 0, R, P) /\ Joined(y, f, R, low)
  BY DEF Topless
<1>2. rest \in Nat /\ rest < P /\ bit \in {0, 1} /\ low = rest + P * bit
  BY <1>0
<1>3. Joined(low, rest, P, bit)
  BY <1>2 DEF Joined
<1> HIDE DEF bit, rest
<1>4. x \in Nat /\ x <= Msb - R
  <2>1. \A u, v, w \in Nat : u <= v => w * u <= w * v
    OBVIOUS
  <2>2. rest \in Nat /\ P - 1 \in Nat /\ rest <= P - 1
    BY <1>2
  <2>3. R * rest <= R * (P - 1)
    BY <2>1, <2>2
  <2>4. R * (P - 1) = R * P - R /\ Msb = R * P
    BY <1>0, <1>1 DEF Joined
  <2>5. x \in Nat
    BY <1>2
  <2> QED
    BY <1>0, <2>3, <2>4, <2>5
<1>5. y = f + x + Msb * bit
  <2>1. R * (rest + P * bit) = R * rest + (R * P) * bit
    BY <1>2
  <2>2. Msb = R * P
    BY <1>0, <1>1 DEF Joined
  <2>3. y = f + R * low
    BY <1>0 DEF Joined
  <2>4. R * rest \in Nat /\ (R * P) * bit \in Nat
    BY <1>2
  <2> QED
    BY <1>2, <2>1, <2>2, <2>3, <2>4
<1>6. (2 * R) * rest = 2 * x
  BY <1>2
<1> HIDE DEF x
<1>7. bit = Bit(Negative(y)) /\ Cell(2 * y) = 2 * f + 2 * x
  <2>1. CASE bit = 1
    <3>1. y >= Msb /\ 2 * y = 2 * f + 2 * x + 2 * Msb
      BY <1>0, <1>1, <1>4, <1>5, <2>1
    <3>2. Cell(2 * y) = 2 * y - 2 * Msb
      BY <1>1, <3>1, CellOf
    <3> QED
      BY <1>1, <1>4, <2>1, <3>1, <3>2 DEF Bit, Negative
  <2>2. CASE bit = 0
    <3>1. y < Msb /\ 2 * y = 2 * f + 2 * x
      BY <1>0, <1>1, <1>4, <1>5, <2>2
    <3>2. Cell(2 * y) = 2 * y
      BY <1>1, <3>1, CellOf
    <3> QED
      BY <1>1, <1>4, <2>2, <3>1, <3>2 DEF Bit, Negative
  <2> QED
    BY <1>2, <2>1, <2>2
<1>8. Joined(Cell(2 * y), 2 * f, 2 * R, rest)
  BY <1>4, <1>6, <1>7 DEF Joined
<1>9. Topped(y, f, low, R, P, bit, rest)
  BY <1>2, <1>3, <1>7, <1>8 DEF Topped
<1> QED
  BY <1>2, <1>9

LEMMA LastDigit ==
  ASSUME NEW f \in Nat, NEW q \in Nat, NEW fl \in {0, 1}, f < 2^W, 2 * f + fl = 2^W + q
  PROVE  Cell(2 * f) + fl = q
<1>1. Msb \in Nat /\ Msb >= 2 /\ 2^W = 2 * Msb
  BY CellSize
<1>2. 2 * f >= 2 * Msb /\ 2 * f < 4 * Msb
  BY <1>1
<1>3. Cell(2 * f) = 2 * f - 2 * Msb
  BY <1>1, <1>2, CellOf
<1> QED
  BY <1>1, <1>3

LEMMA Restored ==
  ASSUME NEW d \in 1 .. 2^W - 1, NEW r \in 0 .. d - 1, NEW fl \in {0, 1}
  PROVE  (IF fl = 0 THEN Cell(d + Borrowed(r, d, fl)) ELSE Borrowed(r, d, fl)) = r
<1>1. Msb \in Nat /\ Msb >= 2 /\ 2^W = 2 * Msb
  BY CellSize
<1>2. CASE fl = 0
  <2>1. d + Borrowed(r, d, fl) = r + 2 * Msb
    BY <1>1, <1>2 DEF Borrowed
  <2>2. Cell(r + 2 * Msb) = r
    BY <1>1, CellOf
  <2> QED
    BY <1>2, <2>1, <2>2
<1>3. CASE fl = 1
  BY <1>3 DEF Borrowed
<1> QED
  BY <1>2, <1>3

(* After Y is shifted, any right digit x continues the division.           *)
Continues(g, y, bit, q, r, f, rest, P, Z) ==
  \A x \in {0, 1} : \A s \in 0 .. g[2] - 1 :
    Nextdigit(r, bit, g[2], x, s) => Dividing(g, y, x, q + x, s, f, rest, P, Z)

Deciding(g, y, bit, r, P, Z) ==
  /\ r \in 0 .. g[2] - 1
  /\ \E q, f, rest \in Nat : Continues(g, y, bit, q, r, f, rest, P, Z)

LEMMA DigitStep ==
  ASSUME NEW g, g[1] \in Nat, g[2] \in Nat, NEW y \in Word, NEW fl \in {0, 1},
         NEW q \in Nat, NEW r \in Nat, NEW f \in Nat, NEW low \in Nat, NEW R \in Nat, NEW P \in Nat,
         Joined(Msb, 0, R, P), Dividing(g, y, fl, q, r, f, low, 2 * P, R)
  PROVE  Deciding(g, Cell(2 * y) + fl, Bit(Negative(y)), r, P, 2 * R)
<1> DEFINE n == g[1]
           d == g[2]
           ny == Cell(2 * y) + fl
           nf == 2 * f + fl
           nq == 2 * q
<1>1. /\ n = (q * d + r) * (2 * P) + low /\ r < d /\ low < 2 * P /\ f < R
      /\ nf = R + q /\ Joined(y, f, R, low)
  BY DEF Dividing, Remains
<1>2. PICK rest \in Nat, bit \in Nat : Topped(y, f, low, R, P, bit, rest)
  <2> HIDE DEF d, n, ny, nf, nq
  <2>1. Topless(y, f, low, R, P)
    BY <1>1 DEF Topless
  <2>2. \E rest, bit \in Nat : Topped(y, f, low, R, P, bit, rest)
    BY <2>1, TopBit
  <2> QED
    BY <2>2, Zenon
<1>3. /\ low = rest + P * bit /\ rest < P /\ bit \in {0, 1} /\ bit = Bit(Negative(y))
      /\ Joined(ny, nf, 2 * R, rest)
  <2>1. /\ low = rest + P * bit /\ rest < P /\ bit \in {0, 1} /\ bit = Bit(Negative(y))
        /\ Cell(2 * y) = 2 * f + (2 * R) * rest
    BY <1>2 DEF Topped, Joined
  <2>2. (2 * R) * rest \in Nat
    OBVIOUS
  <2>3. Cell(2 * y) + fl = 2 * f + fl + (2 * R) * rest
    BY <2>1, <2>2
  <2> QED
    BY <2>1, <2>3 DEF Joined
<1>4. nf \in Nat /\ nq \in Nat /\ nf < 2 * R /\ d \in Nat /\ n \in Nat
  BY <1>1
<1> HIDE DEF ny, nf, n, d
<1>5. ASSUME NEW x \in {0, 1}, NEW s \in 0 .. d - 1, Nextdigit(r, bit, d, x, s)
      PROVE  Dividing(g, ny, x, nq + x, s, nf, rest, P, 2 * R)
  <2> DEFINE a == q * d
             c == x * d
  <2>1. a \in Nat /\ c \in Nat /\ (nq + x) * d = 2 * a + c /\ s \in Nat /\ s < d
    BY <1>4
  <2>2. s + c = 2 * r + bit
    BY <1>4, <1>5 DEF Nextdigit
  <2> HIDE DEF a, c
  <2>3. (nq + x) * d + s = 2 * a + 2 * r + bit
    BY <1>4, <2>1, <2>2
  <2>4. n = (2 * a + 2 * r + bit) * P + rest
    <3>1. n = (a + r) * (2 * P) + (rest + P * bit)
      BY <1>1, <1>3 DEF a
    <3>2. (a + r) * (2 * P) + (rest + P * bit) = (2 * a + 2 * r + bit) * P + rest
      BY <2>1
    <3> QED
      BY <3>1, <3>2
  <2>5. n = ((nq + x) * d + s) * P + rest
    BY <2>3, <2>4
  <2>6. 2 * nf + x = 2 * R + (nq + x)
    BY <1>1, <1>4
  <2> QED
    BY <1>3, <1>4, <2>1, <2>5, <2>6 DEF Dividing, Remains, n, d
<1> HIDE DEF nq
<1>6. Continues(g, ny, bit, nq, r, nf, rest, P, 2 * R)
  BY <1>5 DEF Continues, d
<1>7. Deciding(g, ny, bit, r, P, 2 * R)
  BY <1>1, <1>4, <1>6 DEF Deciding, d
<1> QED
  BY <1>3, <1>7 DEF ny

LEMMA DivisionBegins ==
  ASSUME NEW d \in Nat, NEW hi \in 0 .. d - 1, NEW lo \in Word, given = <<hi * 2^W + lo, d>>
  PROVE  Dividing(given, lo, 1, 0, hi, 0, lo, 2^(W-0), 2^0)
<1>1. 2^0 = 1 /\ W - 0 = W /\ 2^W \in Nat /\ 2^(W-0) = 2^W
  <2>1. W - 0 = W /\ W \in Nat
    BY CellSize
  <2> QED
    BY <2>1, PowerZero, PowerPositive
<1>2. lo \in Nat /\ lo < 2^W
  BY <1>1 DEF Word
<1>3. Remains(hi * 2^W + lo, 0, d, hi, 2^W, lo)
  BY DEF Remains
<1>4. Joined(lo, 0, 1, lo)
  BY <1>2 DEF Joined
<1> QED
  BY <1>1, <1>2, <1>3, <1>4 DEF Dividing

LEMMA DivisionEnds ==
  ASSUME NEW g, g[1] \in Nat, g[2] \in Nat, NEW y \in Nat, NEW fl \in Nat, fl <= 1,
         NEW q \in Nat, NEW r \in Nat, NEW f \in Nat, NEW low \in Nat,
         Dividing(g, y, fl, q, r, f, low, 1, 2^W)
  PROVE  Cell(2 * y) + fl = g[1] \div g[2] /\ r = g[1] % g[2]
<1>0. fl \in {0, 1}
  OBVIOUS
<1>1. low = 0 /\ r \in 0 .. g[2] - 1 /\ g[2] > 0 /\ f < 2^W /\ 2 * f + fl = 2^W + q
  BY DEF Dividing
<1>2. y = f
  BY <1>1, CellSize DEF Dividing, Joined
<1>3. g[1] = q * g[2] + r
  BY <1>1 DEF Dividing, Remains
<1>4. g[1] \div g[2] = q /\ g[1] % g[2] = r
  <2> DEFINE n == g[1]
             d == g[2]
  <2>1. n \in Int /\ d \in Nat /\ d > 0 /\ r \in 0 .. d - 1 /\ n = q * d + r
    BY <1>1, <1>3
  <2> HIDE DEF n, d
  <2>2. n \div d = q /\ n % d = r
    BY <2>1, DivisionUnique
  <2> QED
    BY <2>2 DEF n, d
<1> QED
  BY <1>0, <1>1, <1>2, <1>4, LastDigit

(* The powers around the n-th digit.                                       *)
LEMMA Around ==
  ASSUME NEW n \in Nat, n < W
  PROVE  LET P == 2^(W-(n+1))
             R == 2^n
         IN  /\ P \in Nat /\ R \in Nat /\ 2^(W-n) = 2 * P /\ 2^(n+1) = 2 * R
             /\ Joined(Msb, 0, R, P)
<1> DEFINE e == W - (n + 1)
           P == 2^e
           R == 2^n
<1>1. e \in Nat /\ e + 1 = W - n /\ n + e = W - 1
  BY CellSize
<1> HIDE DEF e
<1>2. P \in Nat /\ R \in Nat /\ 2^(W-n) = 2 * P /\ 2^(n+1) = 2 * R
  BY <1>1, PowerPositive, PowerNext
<1>3. 2^(n+e) = R * P
  BY <1>1, PowerSum
<1>4. Joined(Msb, 0, R, P)
  BY <1>1, <1>2, <1>3 DEF Joined, Msb
<1> QED
  BY <1>2, <1>4 DEF e

LEMMA DivideStep ==
  ASSUME TypePart, alu \in New, task.name = "divide", DividePart, Instruction
  PROVE  TypePart' /\ DividePart'
<1> DEFINE d == given[2]
<1>1. reg.tos \in Word /\ reg.reg \in Word /\ reg.y \in Word /\ flag \in {0, 1} /\ k \in Nat
  BY DEF TypePart, Registers
<1>2. given[1] \in Nat /\ d \in 1 .. 2^W - 1 /\ d \in Nat /\ d \in Word /\ d > 0 /\ reg.tos = d
  BY <1>1 DEF DividePart, Operands
<1>3. k < W + 1 /\ W \in Nat /\ Step(k) = IF k < W THEN Divide ELSE Restore
  <2>1. Length = W + 1
    BY DEF Length
  <2> QED
    BY <1>1, <2>1, CellSize, InstructionEffect DEF Step, Division
<1>4. PICK q \in Nat, r \in Nat, f \in Nat, low \in Nat :
        /\ Dividing(given, reg.y, flag, q, r, f, low, 2^(W-k), 2^k)
        /\ reg.reg = Borrowed(r, d, flag)
  BY <1>1, <1>3 DEF DividePart
<1>5. r \in 0 .. d - 1
  BY <1>2, <1>4 DEF Dividing
<1>6. CASE k < W
  <2> DEFINE P == 2^(W-(k+1))
             R == 2^k
             bit == Bit(Negative(reg.y))
             i == Divide
             u == Outcome(i, d, reg.reg)
  <2>1. P \in Nat /\ R \in Nat /\ 2^(W-k) = 2 * P /\ 2^(k+1) = 2 * R /\ Joined(Msb, 0, R, P)
    BY <1>1, <1>6, Around
  <2>2. bit \in {0, 1}
    BY DEF Bit
  <2>3. PICK s \in 0 .. d - 1 :
          /\ u.y = Cell(2 * reg.y) + flag /\ u.flag \in {0, 1} /\ u.r \in Word
          /\ Nextdigit(r, bit, d, u.flag, s) /\ u.r = Borrowed(s, d, u.flag)
    <3> HIDE DEF bit
    <3> QED
      BY <1>1, <1>2, <1>4, <1>5, <2>2, DivideOutcome DEF bit
  <2>4. i.in = "reg" /\ i.out = "reg"
    BY DEF Divide, Plainstep
  <2>5. /\ k' = k + 1 /\ flag' = u.flag /\ alu' = alu /\ task' = task /\ given' = given
        /\ reg' = [tos |-> reg.tos, reg |-> u.r, y |-> u.y]
    <3> HIDE DEF i
    <3>1. i = Step(k) /\ u = Outcome(i, reg.tos, reg[i.in])
      BY <1>2, <1>3, <1>6, <2>4 DEF i
    <3> HIDE DEF u
    <3> QED
      BY <2>4, <3>1, Stepping
  <2> HIDE DEF P, R, bit, i, u
  <2>6. Deciding(given, u.y, bit, r, P, 2 * R)
    <3> DEFINE g == given
    <3>1. Dividing(g, reg.y, flag, q, r, f, low, 2 * P, R) /\ g[1] \in Nat /\ g[2] \in Nat
      BY <1>2, <1>4, <2>1 DEF R
    <3> HIDE DEF g
    <3>2. Deciding(g, Cell(2 * reg.y) + flag, Bit(Negative(reg.y)), r, P, 2 * R)
      BY <1>1, <2>1, <3>1, DigitStep
    <3> QED
      BY <2>3, <3>2 DEF g, bit
  <2>7. PICK nq \in Nat, nf \in Nat, rest \in Nat :
          Continues(given, u.y, bit, nq, r, nf, rest, P, 2 * R)
    BY <2>6 DEF Deciding
  <2>8. Dividing(given, u.y, u.flag, nq + u.flag, s, nf, rest, P, 2 * R)
    BY <2>3, <2>7 DEF Continues
  <2>9. nq + u.flag \in Nat /\ s \in Nat /\ k + 1 \in 0 .. W
    BY <1>1, <1>2, <1>3, <1>6, <2>3
  <2>10. reg'.reg = Borrowed(s, given'[2], flag') /\ reg'.y = u.y /\ reg'.tos = reg.tos
    BY <2>3, <2>5
  <2>11. Dividing(given', reg'.y, flag', nq + u.flag, s, nf, rest, 2^(W-k'), 2^k')
    BY <2>1, <2>5, <2>8, <2>10 DEF P
  <2>12. DividePart'
    BY <1>2, <2>5, <2>9, <2>10, <2>11 DEF DividePart, Operands
  <2>13. u.y \in Word
    BY <1>1, <2>3, CellSize, CellOf DEF Word
  <2> QED
    BY <1>1, <2>3, <2>5, <2>12, <2>13 DEF TypePart, Registers
<1>7. CASE k = W
  <2> DEFINE i == Restore
             u == Outcome(i, d, reg.reg)
  <2>1. u.r = (IF flag = 0 THEN Cell(d + reg.reg) ELSE reg.reg) /\ u.flag = 0 /\ u.y = Cell(2 * reg.y) + flag
    BY <1>1, <1>2, RestoreOutcome
  <2>2. i.in = "reg" /\ i.out = "reg"
    BY DEF Restore, Plainstep
  <2>3. /\ k' = k + 1 /\ flag' = u.flag /\ alu' = alu /\ task' = task /\ given' = given
        /\ reg' = [tos |-> reg.tos, reg |-> u.r, y |-> u.y]
    <3> HIDE DEF i
    <3>1. i = Step(k) /\ u = Outcome(i, reg.tos, reg[i.in])
      BY <1>2, <1>3, <1>7, <2>2 DEF i
    <3> HIDE DEF u
    <3> QED
      BY <2>2, <3>1, Stepping
  <2> HIDE DEF u, i
  <2>4. u.r = r
    BY <1>1, <1>2, <1>4, <1>5, <2>1, Restored
  <2>5. Dividing(given, reg.y, flag, q, r, f, low, 1, 2^W)
    <3>1. W - k = 0
      BY <1>3, <1>7
    <3> QED
      BY <1>4, <1>7, <3>1, PowerZero
  <2>6. u.y = given[1] \div d /\ r = given[1] % d
    <3> DEFINE g == given
    <3>1. /\ Dividing(g, reg.y, flag, q, r, f, low, 1, 2^W) /\ g[1] \in Nat /\ g[2] \in Nat /\ reg.y \in Nat
          /\ flag \in Nat /\ flag <= 1
      BY <1>1, <1>2, <2>5, CellSize DEF Word
    <3> HIDE DEF g
    <3>2. Cell(2 * reg.y) + flag = g[1] \div g[2] /\ r = g[1] % g[2]
      BY <1>1, <3>1, DivisionEnds
    <3> QED
      BY <2>1, <3>2 DEF g
  <2>7. Quotient' /\ k' = W + 1
    BY <1>7, <2>3, <2>4, <2>6 DEF Quotient
  <2>8. DividePart'
    BY <1>2, <2>3, <2>7 DEF DividePart, Operands
  <2>9. u.y \in Word /\ u.r \in Word
    BY <1>1, <1>2, <1>5, <2>1, <2>4, CellSize, CellOf DEF Word
  <2> QED
    BY <1>1, <2>1, <2>3, <2>8, <2>9 DEF TypePart, Registers
<1> QED
  BY <1>1, <1>3, <1>6, <1>7

LEMMA DivideBegins ==
  ASSUME NEW d \in 1 .. 2^W - 1, NEW hi \in 0 .. d - 1, NEW lo \in Word, given = <<hi * 2^W + lo, d>>,
         reg = [tos |-> d, reg |-> hi, y |-> lo], flag = 1, k = 0
  PROVE  DividePart
<1>1. W \in Nat /\ 2^W \in Nat /\ d \in Nat /\ hi \in Nat /\ lo \in Nat
  BY CellSize DEF Word
<1>2. Operands
  BY <1>1 DEF Operands
<1>3. Dividing(given, reg.y, flag, 0, hi, 0, lo, 2^(W-k), 2^k)
  BY <1>1, DivisionBegins
<1>4. reg.reg = Borrowed(hi, given[2], flag) /\ k \in 0 .. W
  BY <1>1 DEF Borrowed
<1> QED
  BY <1>1, <1>2, <1>3, <1>4 DEF DividePart

(* FRISC 3 takes three instructions for a digit: it shifts Y, subtracts,   *)
(* and adds the divisor again to a remainder that is too small.            *)
RestoringPart ==
  /\ Operands /\ given[2] < Msb
  /\ \/ \E n \in 0 .. W : \E q, r, f, low \in Nat :
          /\ k = 3 * n
          /\ Dividing(given, reg.y, flag, q, r, f, low, 2^(W-n), 2^n)
          /\ reg.reg = r
     \/ \E n \in 0 .. W - 1 :
          /\ k = 3 * n + 1
          /\ Deciding(given, reg.y, flag, reg.reg, 2^(W-(n+1)), 2^(n+1))
     \/ \E n \in 0 .. W - 1 : \E q, r, f, low \in Nat :
          /\ k = 3 * n + 2
          /\ Dividing(given, reg.y, flag, q, r, f, low, 2^(W-(n+1)), 2^(n+1))
          /\ reg.reg = Borrowed(r, given[2], flag)
     \/ k = 3 * W + 1 /\ Quotient

LEMMA RestoringBegins ==
  ASSUME NEW d \in 1 .. Msb - 1, NEW hi \in 0 .. d - 1, NEW lo \in Word, given = <<hi * 2^W + lo, d>>,
         reg = [tos |-> d, reg |-> hi, y |-> lo], flag = 1, k = 0
  PROVE  RestoringPart
<1>1. W \in Nat /\ 2^W \in Nat /\ d \in Nat /\ hi \in Nat /\ lo \in Nat /\ Msb \in Nat /\ 2^W = 2 * Msb
  BY CellSize DEF Word
<1>2. Operands /\ given[2] < Msb
  BY <1>1 DEF Operands
<1>3. Dividing(given, reg.y, flag, 0, hi, 0, lo, 2^(W-0), 2^0)
  BY <1>1, DivisionBegins
<1>4. k = 3 * 0 /\ reg.reg = hi /\ 0 \in 0 .. W
  BY <1>1
<1> QED
  BY <1>1, <1>2, <1>3, <1>4 DEF RestoringPart

LEMMA ShiftStep ==
  ASSUME TypePart, alu \in Old, task.name = "divide", RestoringPart, Instruction, k % 3 = 0
  PROVE  TypePart' /\ RestoringPart'
<1> DEFINE i == Shifted("LEFT")
           u == Outcome(i, reg.tos, reg.y)
<1>1. reg.tos \in Word /\ reg.reg \in Word /\ reg.y \in Word /\ flag \in {0, 1} /\ k \in Nat
  BY DEF TypePart, Registers
<1>2. i = Step(k) /\ i.in = "y" /\ i.out = "y" /\ k < 3 * W + 1 /\ W \in Nat
  <2>1. Length = 3 * W + 1
    BY DEF Length, Old, New
  <2> QED
    BY <2>1, CellSize, InstructionEffect DEF Step, Division, Shifted, Plainstep, Old, New
<1>3. /\ k' = k + 1 /\ flag' = u.flag /\ alu' = alu /\ task' = task /\ given' = given
      /\ reg' = [tos |-> reg.tos, reg |-> reg.reg, y |-> u.r]
  <2> HIDE DEF i
  <2>1. u = Outcome(i, reg.tos, reg[i.in])
    BY <1>2
  <2> HIDE DEF u
  <2> QED
    BY <1>2, <2>1, Stepping
<1>4. u.r \in Word /\ u.r = Cell(2 * reg.y) + flag /\ u.flag = Bit(Negative(reg.y))
  BY <1>1, LeftOutcome
<1> HIDE DEF u, i
<1>5. PICK n \in 0 .. W, q \in Nat, r \in Nat, f \in Nat, low \in Nat :
        /\ k = 3 * n /\ reg.reg = r
        /\ Dividing(given, reg.y, flag, q, r, f, low, 2^(W-n), 2^n)
  BY <1>1, <1>2 DEF RestoringPart
<1>6. Operands /\ given[1] \in Nat /\ given[2] \in Nat /\ given[2] < Msb
  BY <1>1, CellSize DEF RestoringPart, Operands
<1>7. TypePart'
  BY <1>1, <1>3, <1>4 DEF TypePart, Registers, Bit
<1>8. Operands'
  BY <1>3, <1>6 DEF Operands
<1>9. CASE n < W
  <2> DEFINE P == 2^(W-(n+1))
             R == 2^n
             g == given
  <2>1. P \in Nat /\ R \in Nat /\ 2^(W-n) = 2 * P /\ 2^(n+1) = 2 * R /\ Joined(Msb, 0, R, P)
    BY <1>9, Around
  <2>2. Dividing(g, reg.y, flag, q, r, f, low, 2 * P, R) /\ g[1] \in Nat /\ g[2] \in Nat
    BY <1>5, <1>6, <2>1
  <2> HIDE DEF P, R, g
  <2>3. Deciding(g, Cell(2 * reg.y) + flag, Bit(Negative(reg.y)), r, P, 2 * R)
    BY <1>1, <2>1, <2>2, DigitStep
  <2>4. Deciding(given', reg'.y, flag', reg'.reg, 2^(W-(n+1)), 2^(n+1))
    BY <1>3, <1>4, <1>5, <2>1, <2>3 DEF P, g
  <2>5. k' = 3 * n + 1 /\ n \in 0 .. W - 1
    BY <1>2, <1>3, <1>5, <1>9
  <2>6. given'[2] < Msb
    BY <1>3, <1>6
  <2> QED
    BY <1>7, <1>8, <2>4, <2>5, <2>6 DEF RestoringPart
<1>10. CASE n = W
  <2> DEFINE g == given
  <2>1. /\ Dividing(g, reg.y, flag, q, r, f, low, 1, 2^W) /\ g[1] \in Nat /\ g[2] \in Nat
        /\ reg.y \in Nat /\ flag \in Nat /\ flag <= 1
    <3>1. W - n = 0
      BY <1>2, <1>10
    <3> QED
      BY <1>1, <1>5, <1>6, <1>10, <3>1, PowerZero, CellSize DEF Word
  <2> HIDE DEF g
  <2>2. Cell(2 * reg.y) + flag = g[1] \div g[2] /\ r = g[1] % g[2]
    BY <2>1, DivisionEnds
  <2>3. Quotient' /\ k' = 3 * W + 1
    BY <1>3, <1>4, <1>5, <1>10, <2>2 DEF Quotient, g
  <2>4. given'[2] < Msb
    BY <1>3, <1>6
  <2> QED
    BY <1>7, <1>8, <2>3, <2>4 DEF RestoringPart
<1> QED
  BY <1>2, <1>5, <1>9, <1>10

LEMMA SubtractStep ==
  ASSUME TypePart, alu \in Old, task.name = "divide", RestoringPart, Instruction, k % 3 = 1
  PROVE  TypePart' /\ RestoringPart'
<1> DEFINE i == Subtract
           u == Outcome(i, reg.tos, reg.reg)
           d == given[2]
<1>1. reg.tos \in Word /\ reg.reg \in Word /\ reg.y \in Word /\ flag \in {0, 1} /\ k \in Nat
  BY DEF TypePart, Registers
<1>2. i = Step(k) /\ i.in = "reg" /\ i.out = "reg" /\ k < 3 * W + 1 /\ W \in Nat
  <2>1. Length = 3 * W + 1
    BY DEF Length, Old, New
  <2> QED
    BY <2>1, CellSize, InstructionEffect DEF Step, Division, Subtract, Plainstep, Old, New
<1>3. /\ k' = k + 1 /\ flag' = u.flag /\ alu' = alu /\ task' = task /\ given' = given
      /\ reg' = [tos |-> reg.tos, reg |-> u.r, y |-> u.y]
  <2> HIDE DEF i
  <2>1. u = Outcome(i, reg.tos, reg[i.in])
    BY <1>2
  <2> HIDE DEF u
  <2> QED
    BY <1>2, <2>1, Stepping
<1> DEFINE c == Cell(2 * reg.reg) + flag
<1>4. u.r \in Word /\ u.flag = (IF c >= reg.tos THEN 1 ELSE 0) /\ u.r = Cell(c - reg.tos) /\ u.y = reg.y
  BY <1>1, SubtractOutcome
<1> HIDE DEF u, i
<1>5. PICK n \in 0 .. W - 1 :
        k = 3 * n + 1 /\ Deciding(given, reg.y, flag, reg.reg, 2^(W-(n+1)), 2^(n+1))
  BY <1>1, <1>2 DEF RestoringPart
<1>6. Operands /\ d \in Nat /\ d < Msb /\ d > 0 /\ reg.tos = d /\ Msb \in Nat /\ Msb >= 2 /\ 2^W = 2 * Msb
  BY <1>1, CellSize DEF RestoringPart, Operands
<1> DEFINE r == reg.reg
<1>7. r \in 0 .. d - 1
  BY <1>5 DEF Deciding
<1> HIDE DEF d, r
<1>8. c = 2 * r + flag
  <2>1. Cell(2 * r) = 2 * r
    BY <1>6, <1>7, CellOf
  <2> QED
    BY <2>1 DEF r
<1> HIDE DEF c
<1> DEFINE x == IF c >= d THEN 1 ELSE 0
           s == IF c >= d THEN c - d ELSE c
<1>9. x \in {0, 1} /\ s \in 0 .. d - 1 /\ u.flag = x /\ Nextdigit(r, flag, d, x, s)
  <2>1. x \in {0, 1} /\ u.flag = x
    BY <1>4, <1>6
  <2>2. s \in 0 .. d - 1
    BY <1>1, <1>6, <1>7, <1>8
  <2>3. s = 2 * r + flag - (IF x = 1 THEN d ELSE 0)
    BY <1>1, <1>6, <1>7, <1>8
  <2> HIDE DEF x, s
  <2> QED
    BY <2>1, <2>2, <2>3 DEF Nextdigit
<1>10. u.r = Borrowed(s, d, x)
  <2>1. c \in Int /\ -2 * Msb <= c - d /\ c - d < 2 * Msb /\ (c - d < 0 <=> ~(c >= d))
    BY <1>1, <1>6, <1>7, <1>8
  <2>2. Cell(c - d) = IF c - d < 0 THEN c - d + 2 * Msb ELSE c - d
    BY <1>6, <2>1, CellOf
  <2>3. u.r = Cell(c - d)
    BY <1>4, <1>6
  <2> QED
    BY <1>6, <2>1, <2>2, <2>3 DEF Borrowed
<1> HIDE DEF x, s
<1>11. PICK q \in Nat, f \in Nat, rest \in Nat :
         Continues(given, reg.y, flag, q, r, f, rest, 2^(W-(n+1)), 2^(n+1))
  BY <1>5 DEF Deciding, r
<1>12. Dividing(given, reg.y, x, q + x, s, f, rest, 2^(W-(n+1)), 2^(n+1))
  BY <1>9, <1>11 DEF Continues, d
<1>13. q + x \in Nat /\ s \in Nat
  BY <1>6, <1>9
<1>14. TypePart'
  BY <1>1, <1>3, <1>4, <1>9 DEF TypePart, Registers
<1>15. Operands' /\ given'[2] < Msb
  BY <1>3, <1>6 DEF Operands, d
<1>16. Dividing(given', reg'.y, flag', q + x, s, f, rest, 2^(W-(n+1)), 2^(n+1))
  BY <1>3, <1>4, <1>9, <1>12
<1>17. reg'.reg = Borrowed(s, given'[2], flag') /\ k' = 3 * n + 2
  BY <1>3, <1>5, <1>9, <1>10 DEF d
<1> QED
  BY <1>13, <1>14, <1>15, <1>16, <1>17 DEF RestoringPart

LEMMA AddbackStep ==
  ASSUME TypePart, alu \in Old, task.name = "divide", RestoringPart, Instruction, k % 3 = 2
  PROVE  TypePart' /\ RestoringPart'
<1> DEFINE i == Addback
           u == Outcome(i, reg.tos, reg.reg)
           d == given[2]
<1>1. reg.tos \in Word /\ reg.reg \in Word /\ reg.y \in Word /\ flag \in {0, 1} /\ k \in Nat
  BY DEF TypePart, Registers
<1>2. i = Step(k) /\ i.in = "reg" /\ i.out = "reg" /\ k < 3 * W + 1 /\ W \in Nat
  <2>1. Length = 3 * W + 1
    BY DEF Length, Old, New
  <2> QED
    BY <2>1, CellSize, InstructionEffect DEF Step, Division, Addback, Plainstep, Old, New
<1>3. /\ k' = k + 1 /\ flag' = u.flag /\ alu' = alu /\ task' = task /\ given' = given
      /\ reg' = [tos |-> reg.tos, reg |-> u.r, y |-> u.y]
  <2> HIDE DEF i
  <2>1. u = Outcome(i, reg.tos, reg[i.in])
    BY <1>2
  <2> HIDE DEF u
  <2> QED
    BY <1>2, <2>1, Stepping
<1>4. u.r = (IF flag = 0 THEN Cell(reg.tos + reg.reg) ELSE reg.reg) /\ u.flag = flag /\ u.y = reg.y
  BY <1>1, AddbackOutcome
<1> HIDE DEF u, i
<1>5. PICK n \in 0 .. W - 1, q \in Nat, r \in Nat, f \in Nat, low \in Nat :
        /\ k = 3 * n + 2
        /\ Dividing(given, reg.y, flag, q, r, f, low, 2^(W-(n+1)), 2^(n+1))
        /\ reg.reg = Borrowed(r, given[2], flag)
  BY <1>1, <1>2 DEF RestoringPart
<1>6. /\ Operands /\ d \in Nat /\ d \in 1 .. 2^W - 1 /\ given[2] < Msb /\ reg.tos = d
      /\ r \in 0 .. d - 1
  BY <1>1, <1>5, CellSize DEF RestoringPart, Operands, Dividing
<1>7. u.r = r
  BY <1>1, <1>4, <1>5, <1>6, Restored
<1>8. u.r \in Word
  BY <1>6, <1>7, CellSize DEF Word
<1>9. TypePart'
  BY <1>1, <1>3, <1>4, <1>8 DEF TypePart, Registers
<1>10. Operands' /\ given'[2] < Msb
  BY <1>3, <1>6 DEF Operands
<1>11. Dividing(given', reg'.y, flag', q, r, f, low, 2^(W-(n+1)), 2^(n+1)) /\ reg'.reg = r
  BY <1>3, <1>4, <1>5, <1>7
<1>12. k' = 3 * (n + 1) /\ n + 1 \in 0 .. W
  BY <1>2, <1>3, <1>5
<1> QED
  BY <1>9, <1>10, <1>11, <1>12 DEF RestoringPart

-----------------------------------------------------------------------------
(* Comparison: one instruction, after which the flag has the condition.    *)

ComparePart ==
  /\ given \in Word \X Word /\ task.cond \in Conditions
  /\ \/ k = 0 /\ reg.tos = given[1] /\ reg.reg = given[2]
     \/ k = 1 /\ (flag = 1) = Meant(task.cond, given[1], given[2])

LEMMA CompareStep ==
  ASSUME TypePart, task.name = "compare", ComparePart, Instruction
  PROVE  TypePart' /\ ComparePart'
<1> DEFINE i == Compare(task.cond)
           a == reg.tos
           b == reg.reg
           u == Outcome(i, a, b)
<1>1. reg.tos \in Word /\ reg.reg \in Word /\ reg.y \in Word /\ k \in Nat /\ alu \in Old \cup New
  BY DEF TypePart, Registers
<1>2. i = Step(k) /\ i.in = "reg" /\ i.out = "reg" /\ k < 1
  <2>1. Length = 1
    BY DEF Length
  <2> QED
    BY <2>1, InstructionEffect DEF Step, Compare, Plainstep
<1>3. /\ k' = k + 1 /\ flag' = u.flag /\ alu' = alu /\ task' = task /\ given' = given
      /\ reg' = [tos |-> reg.tos, reg |-> u.r, y |-> u.y]
  <2> HIDE DEF i
  <2>1. u = Outcome(i, reg.tos, reg[i.in])
    BY <1>2
  <2> HIDE DEF u
  <2> QED
    BY <1>2, <2>1, Stepping
<1>4. u.r = Difference(a, b).r /\ u.flag = Bit(ALUcond(task.cond, Difference(a, b))) /\ u.y = reg.y
  BY <1>1, CompareOutcome
<1> HIDE DEF u, i
<1>5. k = 0 /\ a = given[1] /\ b = given[2]
  BY <1>1, <1>2 DEF ComparePart
<1>6. (u.flag = 1) = Meant(task.cond, given[1], given[2])
  <2>1. task.cond \in Conditions
    BY DEF ComparePart
  <2> HIDE DEF a, b
  <2>2. a \in Word /\ b \in Word
    BY <1>1 DEF a, b
  <2>3. (Bit(ALUcond(task.cond, Difference(a, b))) = 1) = Meant(task.cond, a, b)
    BY <2>1, <2>2, ConditionsTell
  <2> QED
    BY <1>4, <1>5, <2>3
<1>7. u.r \in Word /\ u.flag \in {0, 1}
  BY <1>1, <1>4, DifferenceFlags DEF Bit
<1>8. TypePart'
  BY <1>1, <1>3, <1>4, <1>7 DEF TypePart, Registers
<1>9. k' = 1 /\ (flag' = 1) = Meant(task'.cond, given'[1], given'[2])
  <2>1. k' = 1 /\ flag' = u.flag /\ task' = task /\ given' = given
    BY <1>3, <1>5
  <2> QED
    BY <1>6, <2>1
<1>10. given' \in Word \X Word /\ task'.cond \in Conditions
  BY <1>3 DEF ComparePart
<1> QED
  BY <1>8, <1>9, <1>10 DEF ComparePart

-----------------------------------------------------------------------------
(* Normalisation: the count of leading zeros, and a shift by it.           *)

LEMMA WidthFits == W < 2^W
<1> DEFINE Bad == {j \in Nat : ~(j < 2^j)}
<1> SUFFICES ASSUME Bad # {} PROVE FALSE
  BY CellSize
<1>1. PICK j \in Bad : \A l \in Bad : j <= l
  BY LeastNatural
<1>2. j # 0
  <2>1. 0 < 2^0
    BY PowerZero
  <2>2. 0 \notin Bad
    BY <2>1
  <2> QED
    BY <1>1, <2>2
<1>3. j-1 \in Nat /\ j-1 \notin Bad
  BY <1>1, <1>2
<1>4. 2^((j-1)+1) = 2 * 2^(j-1) /\ 2^(j-1) \in Nat /\ (j-1)+1 = j
  BY <1>3, PowerNext, PowerPositive
<1>5. j-1 < 2^(j-1)
  BY <1>3
<1> QED
  BY <1>1, <1>3, <1>4, <1>5

(* A count of leading zeros: the highest bit of b stands below them.       *)
Counted(b, z) == z \in 0 .. W /\ (z < W => b >= 2^(W-1-z)) /\ b < 2^(W-z)

LEMMA ZerosCounted ==
  ASSUME NEW b \in Word
  PROVE  Counted(b, A!Leadingzeros(b))
<1> DEFINE S == {j \in Nat : b < 2^j}
<1>1. W \in Nat /\ b \in Nat /\ b < 2^W
  BY CellSize DEF Word
<1>2. S \in SUBSET Nat /\ W \in S
  BY <1>1
<1> HIDE DEF S
<1>3. PICK n \in S : \A j \in S : n <= j
  BY <1>2, LeastNatural
<1>4. n \in Nat /\ n <= W /\ b < 2^n
  BY <1>1, <1>2, <1>3 DEF S
<1>5. n > 0 => b >= 2^(n-1)
  <2> SUFFICES ASSUME n > 0 PROVE b >= 2^(n-1)
    OBVIOUS
  <2>1. n-1 \in Nat /\ n-1 \notin S
    BY <1>3, <1>4
  <2>2. 2^(n-1) \in Nat
    BY <2>1, PowerPositive
  <2> QED
    BY <1>1, <2>1, <2>2 DEF S
<1> DEFINE z == W - n
<1>6. z \in 0 .. W /\ W - z = n /\ W-1-z = n-1 /\ (z < W <=> n > 0)
  BY <1>1, <1>4
<1> HIDE DEF z
<1>7. z \in 0 .. W /\ (z < W => b >= 2^(W-1-z)) /\ b < 2^(W-z)
  BY <1>4, <1>5, <1>6
<1>8. A!Leadingzeros(b) = CHOOSE v \in 0 .. W : (v < W => b >= 2^(W-1-v)) /\ b < 2^(W-v)
  BY DEF A!Leadingzeros
<1> DEFINE Right(v) == (v < W => b >= 2^(W-1-v)) /\ b < 2^(W-v)
<1>9. \E v \in 0 .. W : Right(v)
  BY <1>7
<1>10. A!Leadingzeros(b) = CHOOSE v \in 0 .. W : Right(v)
  BY <1>8
<1> HIDE DEF Right
<1>11. A!Leadingzeros(b) \in 0 .. W /\ Right(A!Leadingzeros(b))
  BY <1>9, <1>10, Zenon
<1> QED
  BY <1>11 DEF Counted, Right

LEMMA Scaled ==
  ASSUME NEW b \in Word, NEW z, Counted(b, z)
  PROVE  /\ Cell(b * 2^(z % W)) \in Word
         /\ b # 0 => /\ Cell(b * 2^(z % W)) >= Msb
                     /\ Cell(b * 2^(z % W)) \div 2^z = b
         /\ b = 0 => Cell(b * 2^(z % W)) = 0 /\ z = W
<1>1. W \in Nat /\ W >= 2 /\ b \in Nat /\ z \in Nat /\ z <= W /\ Msb \in Nat /\ 2^W = 2 * Msb /\ Msb >= 2
  BY CellSize DEF Word, Counted
<1>2. CASE z = W
  <2>1. b = 0
    BY <1>1, <1>2, PowerZero DEF Counted
  <2>2. z % W = 0
    <3>1. z = 1 * W + 0
      BY <1>1, <1>2
    <3> QED
      BY <1>1, <3>1, DivisionUnique
  <2>3. b * 2^(z % W) = 0
    BY <2>1, <2>2, PowerZero
  <2>4. Cell(0) = 0
    BY <1>1, CellOf
  <2> QED
    BY <1>1, <1>2, <2>1, <2>3, <2>4 DEF Word
<1>3. CASE z < W
  <2>1. z % W = z
    <3>1. z = 0 * W + z /\ z \in 0 .. W - 1
      BY <1>1, <1>3
    <3> QED
      BY <1>1, <3>1, DivisionUnique
  <2> DEFINE L == 2^(W-1-z)
             Z == 2^z
             P == 2^(W-z)
             s == b * Z
  <2>2. L \in Nat /\ L > 0 /\ Z \in Nat /\ Z > 0 /\ P \in Nat
    BY <1>1, <1>3, PowerPositive
  <2>3. L * Z = Msb
    <3>1. W-1-z \in Nat /\ (W-1-z) + z = W-1
      BY <1>1, <1>3
    <3> QED
      BY <1>1, <3>1, PowerSum DEF Msb
  <2>4. P * Z = 2 * Msb
    <3>1. W-z \in Nat /\ (W-z) + z = W
      BY <1>1, <1>3
    <3> QED
      BY <1>1, <3>1, PowerSum
  <2>5. b >= L /\ b < P
    BY <1>3 DEF Counted
  <2> HIDE DEF L, Z, P
  <2>6. \A x, y, v \in Nat : x >= y => x * v >= y * v
    OBVIOUS
  <2>7. \A x, y, v \in Nat : x < y /\ v > 0 => x * v < y * v
    OBVIOUS
  <2>8. s \in Nat /\ s >= Msb /\ s < 2 * Msb
    BY <1>1, <2>2, <2>3, <2>4, <2>5, <2>6, <2>7
  <2> HIDE DEF s
  <2>9. Cell(s) = s
    BY <1>1, <2>8, CellOf
  <2>10. s \div Z = b
    <3>1. s = b * Z + 0 /\ 0 \in 0 .. Z - 1 /\ s \in Int /\ b \in Int
      BY <1>1, <2>2, <2>8 DEF s
    <3> QED
      BY <2>2, <3>1, DivisionUnique
  <2>11. b * 2^(z % W) = s
    BY <2>1 DEF s, Z
  <2>12. b # 0 /\ s \in Word
    BY <1>1, <2>2, <2>5, <2>8 DEF Word
  <2> QED
    BY <2>8, <2>9, <2>10, <2>11, <2>12 DEF Z
<1> QED
  BY <1>1, <1>2, <1>3

(* An instruction of the barrel shifter with condition CLEAR.              *)
Shifting(i) ==
  /\ i.type = "MICRO" /\ i.class = "SHIFT" /\ i.cond = "CLEAR" /\ i.flag = TRUE

LEMMA ShiftOutcome ==
  ASSUME NEW i, Shifting(i), NEW a, NEW b \in Word, alu \in New
  PROVE  LET u == Outcome(i, a, b)
         IN  /\ u.flag \in {0, 1} /\ u.y = reg.y
             /\ alu = "frisc4" => u.r = A!Microbarrel(i, Amount(i, a), b)
             /\ alu = "frisc4c" => u.r = C!Microbarrel(i, Amount(i, a), b, flag)
<1> DEFINE t == Amount(i, a)
<1>1. CASE alu = "frisc4"
  <2>1. A!ALUcond(i.cond, A!Plain(b)) = FALSE
    BY DEF Shifting, A!ALUcond
  <2>2. A!Bit(FALSE) = 0
    BY DEF A!Bit
  <2>3. A!Shift(i, b, reg.y) = [r |-> b, cond |-> FALSE, flag |-> 0, y |-> reg.y]
    BY <2>1, <2>2 DEF A!Shift, A!Judged
  <2>4. A!Microalu(i, t, b, flag, reg.y) = [r |-> b, cond |-> FALSE, flag |-> 0, y |-> reg.y]
    BY <2>3 DEF A!Microalu, Shifting
  <2> QED
    BY <1>1, <2>4 DEF Outcome, Newly, Shifting
<1>2. CASE alu = "frisc4c"
  <2> DEFINE e == C!Shift(i, b, reg.y)
  <2>1. e.fl = b % 2 /\ e.y = reg.y
    BY DEF C!Shift
  <2>2. C!Microalu(i, t, b, flag, reg.y) = e
    BY DEF C!Microalu, Shifting
  <2>3. C!Flag(i, e.fl, flag) = e.fl
    BY DEF C!Flag, Shifting
  <2>4. b % 2 \in {0, 1}
    BY CellSize DEF Word
  <2> QED
    BY <1>2, <2>1, <2>2, <2>3, <2>4 DEF Outcome, Newly, Shifting
<1> QED
  BY <1>1, <1>2 DEF New

LEMMA ZerosOutcome ==
  ASSUME NEW a, NEW b \in Word, alu \in New
  PROVE  LET u == Outcome(Zeros, a, b)
         IN  u.flag \in {0, 1} /\ u.y = reg.y /\ u.r = A!Leadingzeros(b)
<1> DEFINE i == Zeros
<1>1. /\ Shifting(i) /\ i.imm = TRUE /\ i.pri = TRUE /\ i.literal = 0
      /\ i.mode = IF alu = "frisc4c" THEN "PRI" ELSE "LSR"
  BY DEF Shifting, Zeros, Plainstep
<1> HIDE DEF i
<1>2. Amount(i, a) = 0
  BY <1>1 DEF Amount, Shifting
<1>3. CASE alu = "frisc4"
  <2>1. 0 % W = 0
    <3>1. 0 = 0 * W + 0 /\ W \in Nat /\ W > 0
      BY CellSize
    <3> QED
      BY <3>1, DivisionUnique
  <2>2. A!Leadingzeros(b) \in Int
    BY ZerosCounted, CellSize DEF Counted
  <2>3. A!Leadingzeros(b) \div 2^0 = A!Leadingzeros(b)
    BY <2>2, PowerZero
  <2>4. A!Microbarrel(i, 0, b) = A!Leadingzeros(b)
    BY <1>1, <1>3, <2>1, <2>3 DEF A!Microbarrel, Shifting
  <2> QED
    BY <1>1, <1>2, <1>3, <2>4, ShiftOutcome DEF i
<1>4. CASE alu = "frisc4c"
  <2>1. C!A!Leadingzeros(b) = A!Leadingzeros(b)
    BY DEF C!A!Leadingzeros, A!Leadingzeros
  <2>2. C!Microbarrel(i, 0, b, flag) = A!Leadingzeros(b)
    BY <1>1, <1>4, <2>1 DEF C!Microbarrel, Shifting
  <2> QED
    BY <1>1, <1>2, <1>4, <2>2, ShiftOutcome DEF i
<1> QED
  BY <1>3, <1>4 DEF New

LEMMA ScaleOutcome ==
  ASSUME NEW a, NEW b \in Word, alu \in New
  PROVE  LET u == Outcome(Scale, a, b)
         IN  u.flag \in {0, 1} /\ u.y = reg.y /\ u.r = Cell(b * 2^(a % W))
<1> DEFINE i == Scale
<1>1. Shifting(i) /\ i.imm = FALSE /\ i.pri = FALSE /\ i.mode = "LSL"
  BY DEF Shifting, Scale, Plainstep
<1> HIDE DEF i
<1>2. Amount(i, a) = a
  BY <1>1 DEF Amount
<1>3. A!Microbarrel(i, a, b) = Cell(b * 2^(a % W))
  BY <1>1, NewCells DEF A!Microbarrel, Shifting
<1>4. C!Microbarrel(i, a, b, flag) = Cell(b * 2^(a % W))
  BY <1>1, CacheCells DEF C!Microbarrel, Shifting
<1> QED
  BY <1>1, <1>2, <1>3, <1>4, ShiftOutcome DEF i, New

NormalPart ==
  /\ given[1] \in Word
  /\ \/ k = 0 /\ reg.reg = given[1]
     \/ k = 1 /\ reg.reg = given[1] /\ Counted(given[1], reg.tos)
     \/ /\ k = 2
        /\ given[1] # 0 => reg.reg >= Msb /\ reg.reg \div 2^reg.tos = given[1]
        /\ given[1] = 0 => reg.reg = 0 /\ reg.tos = W

LEMMA NormalStep ==
  ASSUME TypePart, alu \in New, task.name = "normalise", NormalPart, Instruction
  PROVE  TypePart' /\ NormalPart'
<1> DEFINE b == reg.reg
<1>1. reg.tos \in Word /\ reg.reg \in Word /\ reg.y \in Word /\ k \in Nat /\ alu \in Old \cup New
  BY DEF TypePart, Registers
<1>2. k < 2 /\ b = given[1] /\ b \in Word
  <2>1. Length = 2
    BY DEF Length
  <2> QED
    BY <1>1, <2>1, InstructionEffect DEF NormalPart
<1>3. CASE k = 0
  <2> DEFINE i == Zeros
             u == Outcome(i, reg.tos, b)
  <2>1. i = Step(k) /\ i.in = "reg" /\ i.out = "tos"
    BY <1>3 DEF Step, Zeros, Plainstep
  <2>2. /\ k' = k + 1 /\ flag' = u.flag /\ alu' = alu /\ task' = task /\ given' = given
        /\ reg' = [tos |-> u.r, reg |-> reg.reg, y |-> u.y]
    <3> HIDE DEF i
    <3>1. u = Outcome(i, reg.tos, reg[i.in])
      BY <2>1
    <3> HIDE DEF u
    <3> QED
      BY <2>1, <3>1, Stepping
  <2>3. u.flag \in {0, 1} /\ u.y = reg.y /\ u.r = A!Leadingzeros(b)
    BY <1>1, ZerosOutcome
  <2> HIDE DEF u, i
  <2>4. Counted(b, u.r)
    BY <1>1, <2>3, ZerosCounted
  <2>5. u.r \in Word
    <3>1. u.r \in 0 .. W
      BY <2>4 DEF Counted
    <3> QED
      BY <3>1, WidthFits, CellSize DEF Word
  <2>6. TypePart'
    BY <1>1, <2>2, <2>3, <2>5 DEF TypePart, Registers
  <2>7. k' = 1 /\ reg'.reg = given'[1] /\ Counted(given'[1], reg'.tos) /\ given'[1] \in Word
    BY <1>2, <1>3, <2>2, <2>4
  <2> QED
    BY <2>6, <2>7 DEF NormalPart
<1>4. CASE k = 1
  <2> DEFINE i == Scale
             u == Outcome(i, reg.tos, b)
             z == reg.tos
  <2>1. i = Step(k) /\ i.in = "reg" /\ i.out = "reg"
    BY <1>4 DEF Step, Scale, Plainstep
  <2>2. /\ k' = k + 1 /\ flag' = u.flag /\ alu' = alu /\ task' = task /\ given' = given
        /\ reg' = [tos |-> reg.tos, reg |-> u.r, y |-> u.y]
    <3> HIDE DEF i
    <3>1. u = Outcome(i, reg.tos, reg[i.in])
      BY <2>1
    <3> HIDE DEF u
    <3> QED
      BY <2>1, <3>1, Stepping
  <2>3. u.flag \in {0, 1} /\ u.y = reg.y /\ u.r = Cell(b * 2^(z % W))
    BY <1>1, ScaleOutcome
  <2> HIDE DEF u, i
  <2>4. Counted(b, z)
    BY <1>2, <1>4 DEF NormalPart
  <2>5. /\ u.r \in Word
        /\ b # 0 => u.r >= Msb /\ u.r \div 2^z = b
        /\ b = 0 => u.r = 0 /\ z = W
    <3> HIDE DEF b, z
    <3> QED
      BY <1>2, <2>3, <2>4, Scaled
  <2>6. TypePart'
    BY <1>1, <2>2, <2>3, <2>5 DEF TypePart, Registers
  <2>7. /\ k' = 2 /\ given'[1] = b /\ reg'.reg = u.r /\ reg'.tos = z
    BY <1>2, <1>4, <2>2
  <2>8. /\ given'[1] # 0 => reg'.reg >= Msb /\ reg'.reg \div 2^(reg'.tos) = given'[1]
        /\ given'[1] = 0 => reg'.reg = 0 /\ reg'.tos = W
    BY <2>5, <2>7
  <2>9. given'[1] \in Word /\ Msb' = Msb
    BY <1>2, <2>7 DEF Msb
  <2> HIDE DEF b, z
  <2> QED
    BY <2>6, <2>7, <2>8, <2>9 DEF NormalPart
<1> QED
  BY <1>1, <1>2, <1>3, <1>4

-----------------------------------------------------------------------------
(* The inductive invariant: how far each task has come.                    *)

Computing ==
  \/ task.name = "multiply" /\ alu \in New /\ BoothPart
  \/ task.name = "multiply" /\ alu \in Old /\ BitPart
  \/ task.name = "divide" /\ alu \in New /\ DividePart
  \/ task.name = "divide" /\ alu \in Old /\ RestoringPart
  \/ task.name = "compare" /\ ComparePart
  \/ task.name = "normalise" /\ alu \in New /\ NormalPart

IInv == TypePart /\ Computing

LEMMA InitIInv == Init => IInv
<1> SUFFICES ASSUME Init PROVE IInv
  OBVIOUS
<1>1. W \in Nat /\ 2^W \in Nat /\ Msb \in Nat /\ Msb >= 2 /\ 2^W = 2 * Msb
  BY CellSize
<1>2. alu \in Old \cup New /\ 0 \in Word
  <2>1. alu \in Old \cup New
    BY Zenon DEF Init
  <2>2. 0 \in Word
    BY <1>1 DEF Word
  <2> QED
    BY <2>1, <2>2
<1>3. ASSUME NEW a \in Word, NEW b \in Word, NEW start,
             start = IF alu \in Old THEN [tos |-> a, reg |-> 0, y |-> b] ELSE [tos |-> 0, reg |-> a, y |-> b],
             Begin("multiply", "CLEAR", <<a, b>>, start, 0)
      PROVE  IInv
  <2>1. task.name = "multiply" /\ given = <<a, b>> /\ flag = 0 /\ k = 0 /\ reg = start
    BY <1>3 DEF Begin
  <2>2. TypePart
    BY <1>2, <1>3, <2>1 DEF TypePart, Registers
  <2>3. CASE alu \in Old
    <3>1. BitPart
      BY <1>3, <2>1, <2>3, BitBegins
    <3> QED
      BY <2>1, <2>2, <2>3, <3>1 DEF IInv, Computing
  <2>4. CASE alu \notin Old
    <3>1. BoothPart
      BY <1>3, <2>1, <2>4, BoothBegins
    <3> QED
      BY <1>2, <2>1, <2>2, <2>4, <3>1 DEF IInv, Computing
  <2> QED
    BY <2>3, <2>4
<1>4. ASSUME NEW d \in Divisors, NEW hi \in 0 .. d - 1, NEW lo \in Word,
             Begin("divide", "CLEAR", <<hi * 2^W + lo, d>>, [tos |-> d, reg |-> hi, y |-> lo], 1)
      PROVE  IInv
  <2>1. /\ task.name = "divide" /\ given = <<hi * 2^W + lo, d>> /\ flag = 1 /\ k = 0
        /\ reg = [tos |-> d, reg |-> hi, y |-> lo]
    BY <1>4 DEF Begin
  <2>2. d \in 1 .. 2^W - 1 /\ d \in Word /\ hi \in Word
    BY <1>1, <1>4 DEF Divisors, Word
  <2>3. TypePart
    BY <1>2, <1>4, <2>1, <2>2 DEF TypePart, Registers
  <2>4. CASE alu \in Old
    <3>1. d \in 1 .. Msb - 1
      BY <1>4, <2>4 DEF Divisors
    <3>2. RestoringPart
      BY <1>4, <2>1, <3>1, RestoringBegins
    <3> QED
      BY <2>1, <2>3, <2>4, <3>2 DEF IInv, Computing
  <2>5. CASE alu \notin Old
    <3>1. DividePart
      BY <1>4, <2>1, <2>2, DivideBegins
    <3> QED
      BY <1>2, <2>1, <2>3, <2>5, <3>1 DEF IInv, Computing
  <2> QED
    BY <2>4, <2>5
<1>5. ASSUME NEW a \in Word, NEW b \in Word, NEW c \in Conditions,
             Begin("compare", c, <<a, b>>, [tos |-> a, reg |-> b, y |-> 0], 0)
      PROVE  IInv
  <2>1. /\ task = [name |-> "compare", cond |-> c] /\ given = <<a, b>> /\ flag = 0 /\ k = 0
        /\ reg = [tos |-> a, reg |-> b, y |-> 0]
    BY <1>5 DEF Begin
  <2>2. TypePart
    BY <1>2, <2>1 DEF TypePart, Registers
  <2>3. ComparePart
    BY <2>1 DEF ComparePart
  <2> QED
    BY <2>1, <2>2, <2>3 DEF IInv, Computing
<1>6. ASSUME alu \in New, NEW b \in Word,
             Begin("normalise", "CLEAR", <<b>>, [tos |-> 0, reg |-> b, y |-> 0], 0)
      PROVE  IInv
  <2>1. /\ task.name = "normalise" /\ given = <<b>> /\ flag = 0 /\ k = 0
        /\ reg = [tos |-> 0, reg |-> b, y |-> 0]
    BY <1>6 DEF Begin
  <2>2. TypePart
    BY <1>2, <2>1 DEF TypePart, Registers
  <2>3. NormalPart
    BY <2>1 DEF NormalPart
  <2> QED
    BY <1>6, <2>1, <2>2, <2>3 DEF IInv, Computing
<1> QED
  BY <1>3, <1>4, <1>5, <1>6 DEF Init

LEMMA InstructionIInv ==
  ASSUME IInv, Instruction
  PROVE  IInv'
<1>1. TypePart /\ k \in Nat /\ k % 2 \in {0, 1} /\ k % 3 \in {0, 1, 2}
  BY DEF IInv, TypePart
<1>2. alu' = alu /\ task' = task
  BY InstructionEffect
<1>3. CASE task.name = "multiply" /\ alu \in New /\ BoothPart
  BY <1>1, <1>2, <1>3, BoothStep DEF IInv, Computing
<1>4. CASE task.name = "multiply" /\ alu \in Old /\ BitPart
  <2>1. TypePart' /\ BitPart'
    BY <1>1, <1>4, SelectStep, SumStep
  <2> QED
    BY <1>2, <1>4, <2>1 DEF IInv, Computing
<1>5. CASE task.name = "divide" /\ alu \in New /\ DividePart
  BY <1>1, <1>2, <1>5, DivideStep DEF IInv, Computing
<1>6. CASE task.name = "divide" /\ alu \in Old /\ RestoringPart
  <2>1. TypePart' /\ RestoringPart'
    BY <1>1, <1>6, ShiftStep, SubtractStep, AddbackStep
  <2> QED
    BY <1>2, <1>6, <2>1 DEF IInv, Computing
<1>7. CASE task.name = "compare" /\ ComparePart
  BY <1>1, <1>2, <1>7, CompareStep DEF IInv, Computing
<1>8. CASE task.name = "normalise" /\ alu \in New /\ NormalPart
  BY <1>1, <1>2, <1>8, NormalStep DEF IInv, Computing
<1> QED
  BY <1>3, <1>4, <1>5, <1>6, <1>7, <1>8 DEF IInv, Computing

LEMMA StutterIInv ==
  ASSUME IInv, UNCHANGED vars
  PROVE  IInv'
<1>1. alu' = alu /\ task' = task /\ given' = given /\ reg' = reg /\ flag' = flag /\ k' = k
  BY DEF vars
<1>2. TypePart' = TypePart
  BY <1>1 DEF TypePart
<1>3. BoothPart' = BoothPart /\ BitPart' = BitPart
  BY <1>1 DEF BoothPart, BitPart
<1>4. DividePart' = DividePart /\ RestoringPart' = RestoringPart
  BY <1>1 DEF DividePart, RestoringPart, Operands, Quotient
<1>5. ComparePart' = ComparePart /\ NormalPart' = NormalPart
  BY <1>1 DEF ComparePart, NormalPart
<1> QED
  BY <1>1, <1>2, <1>3, <1>4, <1>5 DEF IInv, Computing

LEMMA NumInvariant == Spec => []IInv
<1>1. IInv /\ [Next]_vars => IInv'
  BY InstructionIInv, StutterIInv DEF Next
<1> QED
  BY <1>1, InitIInv, PTL DEF Spec

(* On cells of any even number of bits, Booth's steps with their repaired  *)
(* shifts leave the signed product of all operands, and the steps of       *)
(* FRISC 3 the unsigned one.                                               *)
THEOREM NumMultiplied == Spec => []Multiplied
<1>1. IInv => Multiplied
  <2> SUFFICES ASSUME IInv, task.name = "multiply", k = Length
      PROVE  IF alu \in New THEN 2^W * Signed(reg.tos) + reg.y = Signed(given[1]) * Signed(given[2])
             ELSE 2^W * reg.reg + reg.y = given[1] * given[2]
    BY DEF Multiplied, Ended
  <2>1. TypePart
    BY DEF IInv
  <2>2. CASE alu \in New
    <3>1. BoothPart
      BY <2>2 DEF IInv, Computing, Old, New
    <3>2. k = W \div 2
      BY <2>2 DEF Length
    <3> QED
      BY <2>1, <2>2, <3>1, <3>2, BoothEnds
  <2>3. CASE alu \notin New
    <3>1. BitPart
      BY <2>3 DEF IInv, Computing
    <3>2. k = 2 * W + 1
      BY <2>3 DEF Length
    <3> QED
      BY <2>1, <2>3, <3>1, <3>2, BitEnds
  <2> QED
    BY <2>2, <2>3
<1> QED
  BY <1>1, NumInvariant, PTL

(* The steps of division leave the quotient and the remainder of every     *)
(* dividend of 2W bits whose quotient has W bits: the digits that were     *)
(* decided, the remainder they leave and the bits still to come make up    *)
(* the dividend, also while the remainder is below zero.                   *)
THEOREM NumDivided == Spec => []Divided
<1>1. IInv => Divided
  <2> SUFFICES ASSUME IInv, task.name = "divide", k = Length PROVE Quotient
    BY DEF Divided, Ended, Quotient
  <2>1. W \in Nat
    BY CellSize
  <2>2. CASE alu \in New
    <3>1. DividePart
      BY <2>2 DEF IInv, Computing, Old, New
    <3>2. k = W + 1 /\ k \notin 0 .. W
      BY <2>1, <2>2 DEF Length
    <3> QED
      BY <3>1, <3>2, Zenon DEF DividePart
  <2>3. CASE alu \notin New
    <3>1. RestoringPart
      BY <2>3 DEF IInv, Computing
    <3>2. k = 3 * W + 1
      BY <2>3 DEF Length
    <3> QED
      BY <2>1, <3>1, <3>2 DEF RestoringPart
  <2> QED
    BY <2>2, <2>3
<1> QED
  BY <1>1, NumInvariant, PTL

(* After a subtraction of cells of any width every condition tells what it *)
(* is named for.                                                           *)
THEOREM NumCompared == Spec => []Compared
<1>1. IInv => Compared
  <2> SUFFICES ASSUME IInv, task.name = "compare", k = Length
      PROVE  (flag = 1) = Meant(task.cond, given[1], given[2])
    BY DEF Compared, Ended
  <2>1. k = 1
    BY DEF Length
  <2>2. ComparePart
    BY DEF IInv, Computing
  <2> QED
    BY <2>1, <2>2 DEF ComparePart
<1> QED
  BY <1>1, NumInvariant, PTL

(* The count of leading zeros exists for every cell, and a shift by it     *)
(* normalises the cell without losing a bit.                               *)
THEOREM NumNormalised == Spec => []Normalised
<1>1. IInv => Normalised
  <2> SUFFICES ASSUME IInv, task.name = "normalise", k = Length
      PROVE  /\ given[1] # 0 => reg.reg >= Msb /\ reg.reg \div 2^reg.tos = given[1]
             /\ given[1] = 0 => reg.reg = 0 /\ reg.tos = W
    BY DEF Normalised, Ended
  <2>1. k = 2
    BY DEF Length
  <2>2. NormalPart
    BY DEF IInv, Computing
  <2> QED
    BY <2>1, <2>2 DEF NormalPart
<1> QED
  BY <1>1, NumInvariant, PTL

=============================================================================
