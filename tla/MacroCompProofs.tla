-------------------------- MODULE MacroCompProofs --------------------------
(***************************************************************************)
(* Proofs about MacroComp and the queues of FarQueue.  First the pool of   *)
(* blocks.  The invariant is about a function P that gives every holder    *)
(* (the free list, the macro being learned, each macro) the list of its    *)
(* blocks: the links and the headers are those of the lists, and every     *)
(* block is in one list, once.  Each operation moves the first blocks of   *)
(* one list behind another, which keeps that (MoveApart, MoveChained).     *)
(* Then, with the same lists, what the bytes of the blocks are: the        *)
(* invariant gives the current place of the compiler as a position in the  *)
(* macro being learned, so that the block and the offset of comp-pc stand  *)
(* for as many bytes as have been learned.                                 *)
(***************************************************************************)
EXTENDS MacroComp, SequenceTheorems, FiniteSetTheorems, WellFoundedInduction, TLAPS

(* The strict order of the naturals as a set of pairs. *)
Less == {ss \in Nat \X Nat : ss[1] < ss[2]}

(* The order as an operator and as a set of pairs. *)
LEMMA LessIsRelation == OpToRel(<, Nat) = Less
  BY Zenon DEF OpToRel, Less

(* No sequence of naturals descends for ever. *)
LEMMA LessWellFounded == IsWellFoundedOn(Less, Nat)
  BY NatLessThanWellFounded, LessIsRelation, Zenon

(* Every nonempty set of naturals has a least element. *)
LEMMA LeastNatural ==
  ASSUME NEW S \in SUBSET Nat, S # {}
  PROVE  \E n \in S : \A m \in S : n <= m
<1>1. \E n \in S : \A m \in S : <<m, n>> \notin Less
  <2> HIDE DEF Less
  <2> QED BY LessWellFounded, WFMin
<1>2. \A a, b \in Nat : a < b => <<a, b>> \in Less
  BY DEF Less
<1>3. PICK n \in S : \A m \in S : <<m, n>> \notin Less
  BY <1>1
<1>4. \A m \in S : ~(m < n)
  BY <1>2, <1>3
<1>5. QED
  BY <1>4


(* Walk as the sequence of pointers that it is defined by. *)
LEMMA WalkRuns ==
  ASSUME NEW nx, NEW b, NEW n \in Nat
  PROVE  \E w : /\ Walk(nx, b, n) = w[n]
                /\ \A i \in 0..n : w[i] = IF i = 0 THEN b
                                          ELSE IF w[i - 1] = Null THEN Null ELSE nx[w[i - 1]]
<1> DEFINE Step(x) == IF x = Null THEN Null ELSE nx[x]
           Is(w, k) == w = [i \in 0..k |-> IF i = 0 THEN b ELSE Step(w[i - 1])]
<1>1. Walk(nx, b, n) = (CHOOSE w : Is(w, n))[n]
  BY DEF Walk
<1> HIDE DEF Step
<1>2. \E w : Is(w, n)
  <2> DEFINE S == {m \in Nat : ~\E w : Is(w, m)}
  <2>1. S \in SUBSET Nat /\ \A m \in Nat : m \notin S <=> \E w : Is(w, m)
    OBVIOUS
  <2> HIDE DEF S, Is
  <2>2. SUFFICES ASSUME S # {} PROVE FALSE
    BY <2>1
  <2>3. PICK m \in S : \A l \in S : m <= l
    BY <2>1, <2>2, LeastNatural
  <2>4. m # 0
    <3>1. Is([i \in 0..0 |-> b], 0)
      BY DEF Is
    <3>2. QED
      BY <2>1, <2>3, <3>1
  <2>5. m - 1 \in Nat /\ m - 1 \notin S /\ m \in Nat
    BY <2>1, <2>3, <2>4
  <2>6. PICK w : Is(w, m - 1)
    BY <2>1, <2>5
  <2> DEFINE v == [i \in 0..m |-> IF i < m THEN w[i] ELSE Step(w[m - 1])]
  <2>7. \A i \in 0..m - 1 : w[i] = IF i = 0 THEN b ELSE Step(w[i - 1])
    BY <2>5, <2>6 DEF Is
  <2>8. \A i \in 0..m : v[i] = IF i = 0 THEN b ELSE Step(v[i - 1])
    BY <2>4, <2>5, <2>7
  <2>9. v = [i \in 0..m |-> IF i = 0 THEN b ELSE Step(v[i - 1])]
    BY <2>8
  <2> HIDE DEF v
  <2>10. Is(v, m)
    BY <2>9 DEF Is
  <2>11. QED
    BY <2>1, <2>3, <2>5, <2>10
<1> HIDE DEF Is
<1> DEFINE u == CHOOSE w : Is(w, n)
<1>3. Is(u, n)
  BY <1>2
<1>4. Walk(nx, b, n) = u[n]
  BY <1>1
<1> HIDE DEF u
<1>5. \A i \in 0..n : u[i] = IF i = 0 THEN b ELSE Step(u[i - 1])
  BY <1>3 DEF Is
<1>6. QED
  BY <1>4, <1>5 DEF Step
-----------------------------------------------------------------------------
(* Chains. *)

\* What points to the list s of blocks, and how its blocks are linked.
First(s) == IF s = <<>> THEN Null ELSE s[1]
Chained(nx, s) ==
  \A i \in 1..Len(s) : nx[s[i]] = IF i = Len(s) THEN Null ELSE s[i + 1]

(* A walk goes along the list and stays at its end. *)
LEMMA WalkChained ==
  ASSUME NEW nx, NEW s \in Seq(Block), Chained(nx, s), NEW n \in Nat
  PROVE  Walk(nx, First(s), n) = IF n < Len(s) THEN s[n + 1] ELSE Null
<1>1. PICK w : /\ Walk(nx, First(s), n) = w[n]
               /\ \A i \in 0..n : w[i] = IF i = 0 THEN First(s)
                                         ELSE IF w[i - 1] = Null THEN Null ELSE nx[w[i - 1]]
  BY WalkRuns
<1> DEFINE At(i) == IF i < Len(s) THEN s[i + 1] ELSE Null
           S == {i \in 0..n : w[i] # At(i)}
<1>2. SUFFICES ASSUME S # {} PROVE FALSE
  BY <1>1
<1>3. S \in SUBSET Nat
  OBVIOUS
<1> HIDE DEF S
<1>4. PICK i \in S : \A j \in S : i <= j
  BY <1>2, <1>3, LeastNatural
<1>5. i \in 0..n /\ w[i] # At(i) /\ \A j \in 0..n : j < i => w[j] = At(j)
  BY <1>4 DEF S
<1>6. i # 0
  BY <1>1, <1>5 DEF First
<1>7. w[i - 1] = At(i - 1) /\ i - 1 \in 0..n
  BY <1>5, <1>6
<1>8. CASE i - 1 < Len(s)
  <2>1. s[i] \in Block /\ i \in 1..Len(s) /\ w[i - 1] = s[i]
    BY <1>5, <1>6, <1>7, <1>8
  <2>2. s[i] # Null /\ nx[s[i]] = IF i = Len(s) THEN Null ELSE s[i + 1]
    BY <2>1 DEF Chained, Block, Null
  <2>3. QED
    BY <1>1, <1>5, <1>6, <2>1, <2>2
<1>9. CASE ~(i - 1 < Len(s))
  BY <1>1, <1>5, <1>6, <1>7, <1>9
<1>10. QED
  BY <1>8, <1>9

(* Chain gives the list back. *)
LEMMA ChainIs ==
  ASSUME NEW nx, NEW s \in Seq(Block), Chained(nx, s), NEW bound \in Nat, Len(s) <= bound
  PROVE  Chain(nx, First(s), bound) = s
<1> DEFINE sizes == {i \in 0..bound : Ends(nx, First(s), i)}
           n == IF sizes = {} THEN bound ELSE CHOOSE i \in sizes : TRUE
<1>1. \A i \in 0..bound : Ends(nx, First(s), i) <=> i = Len(s)
  <2> SUFFICES ASSUME NEW i \in 0..bound
               PROVE  Ends(nx, First(s), i) <=> i = Len(s)
    OBVIOUS
  <2>1. \A j \in Nat : j < Len(s) => s[j + 1] # Null
    <3>1. \A j \in Nat : j < Len(s) => s[j + 1] \in Block
      OBVIOUS
    <3>2. Null \notin Block
      BY DEF Block, Null
    <3>3. QED
      BY <3>1, <3>2
  <2>2. \A j \in Nat : Walk(nx, First(s), j) = Null <=> ~(j < Len(s))
    BY <2>1, WalkChained
  <2>3. QED
    BY <2>2 DEF Ends
<1>2. sizes = {Len(s)}
  BY <1>1
<1>3. n = Len(s)
  BY <1>2
<1>4. Chain(nx, First(s), bound) = [i \in 1..n |-> Walk(nx, First(s), i - 1)]
  BY DEF Chain
<1> HIDE DEF n
<1>5. \A i \in 1..Len(s) : Walk(nx, First(s), i - 1) = s[i]
  BY WalkChained
<1>6. s = [i \in 1..Len(s) |-> s[i]]
  OBVIOUS
<1>7. QED
  BY <1>3, <1>4, <1>5, <1>6
-----------------------------------------------------------------------------
(* Who holds the blocks.  P gives the list of each holder. *)

FreeList == <<"free">>
Compiled == <<"comp">>
Macro(m) == <<"macro", m>>

\* Every block is in one list, and there once.
Apart(P) ==
  /\ P \in [Holder -> Seq(Block)]
  /\ \A b \in Block : \E o \in Holder : \E i \in 1..Len(P[o]) : P[o][i] = b
  /\ \A o, q \in Holder : \A i \in 1..Len(P[o]), j \in 1..Len(P[q]) :
       P[o][i] = P[q][j] => o = q /\ i = j

\* Q is P after the first n blocks of one list were put behind another.
Moves(P, Q, from, to, n) ==
  /\ Q \in [Holder -> Seq(Block)]
  /\ \A o \in Holder \ {from, to} : Q[o] = P[o]
  /\ Len(Q[from]) = Len(P[from]) - n
  /\ \A i \in 1..Len(P[from]) - n : Q[from][i] = P[from][i + n]
  /\ Len(Q[to]) = Len(P[to]) + n
  /\ \A i \in 1..Len(P[to]) : Q[to][i] = P[to][i]
  /\ \A i \in 1..n : Q[to][Len(P[to]) + i] = P[from][i]

(* The holders are distinct. *)
LEMMA Holders ==
  /\ FreeList \in Holder /\ Compiled \in Holder /\ \A m \in MacroId : Macro(m) \in Holder
  /\ FreeList # Compiled
  /\ \A m \in MacroId : Macro(m) # FreeList /\ Macro(m) # Compiled
  /\ \A l, m \in MacroId : Macro(l) = Macro(m) => l = m
  /\ \A o \in Holder : o = FreeList \/ o = Compiled \/ \E m \in MacroId : o = Macro(m)
  BY DEF FreeList, Compiled, Macro, Holder

(* A list holds at most all the blocks. *)
LEMMA HeldLength ==
  ASSUME NEW P, Apart(P), NEW o \in Holder
  PROVE  Len(P[o]) \in Nat /\ Len(P[o]) <= NBlocks
<1> DEFINE s == P[o]
<1>1. s \in Seq(Block) /\ Len(s) \in Nat /\ NBlocks \in Nat
  BY SizesAssumption DEF Apart
<1>2. \A i, j \in 1..Len(s) : s[i] = s[j] => i = j
  BY DEF Apart
<1>3. s \in [1..Len(s) -> Block]
  BY <1>1
<1>4. /\ IsFiniteSet(1..Len(s)) /\ Cardinality(1..Len(s)) = Len(s)
      /\ IsFiniteSet(Block) /\ Cardinality(Block) = NBlocks
  <2>1. \A k \in Nat : IsFiniteSet(1..k) /\ Cardinality(1..k) = k
    BY FS_Interval
  <2>2. QED
    BY <1>1, <2>1 DEF Block
<1> HIDE DEF s
<1>5. s \in Injection(1..Len(s), Block)
  BY <1>2, <1>3 DEF Injection, IsInjective
<1>6. Cardinality(1..Len(s)) <= Cardinality(Block)
  BY <1>4, <1>5, FS_Injection
<1>7. QED
  BY <1>1, <1>4, <1>6 DEF s

(* Lists are equal if their elements are. *)
LEMMA SameList ==
  ASSUME NEW S, NEW s \in Seq(S), NEW t \in Seq(S), Len(s) = Len(t),
         \A i \in 1..Len(s) : s[i] = t[i]
  PROVE  s = t
<1>1. s = [i \in 1..Len(s) |-> s[i]] /\ t = [i \in 1..Len(t) |-> t[i]]
  OBVIOUS
<1>2. QED
  BY <1>1

(* Two lists, one behind the other. *)
LEMMA Joined ==
  ASSUME NEW S, NEW s \in Seq(S), NEW t \in Seq(S)
  PROVE  /\ s \o t \in Seq(S) /\ Len(s) \in Nat /\ Len(t) \in Nat
         /\ Len(s \o t) = Len(s) + Len(t)
         /\ \A i \in 1..Len(s) : (s \o t)[i] = s[i]
         /\ \A i \in 1..Len(t) : (s \o t)[Len(s) + i] = t[i]
  OBVIOUS

(* There are such lists. *)
LEMMA MoveExists ==
  ASSUME NEW P, Apart(P), NEW from \in Holder, NEW to \in Holder, from # to,
         NEW n \in 0..Len(P[from])
  PROVE  \E Q : Moves(P, Q, from, to, n)
<1>1. P \in [Holder -> Seq(Block)] /\ P[from] \in Seq(Block) /\ P[to] \in Seq(Block)
  BY DEF Apart
<1> DEFINE p == P[to]
           a == SubSeq(P[from], 1, n)
           c == SubSeq(P[from], n + 1, Len(P[from]))
           Q == [o \in Holder |-> IF o = from THEN c ELSE IF o = to THEN p \o a ELSE P[o]]
<1>2. a \in Seq(Block) /\ Len(a) = n /\ \A i \in 1..n : a[i] = P[from][i]
  BY <1>1
<1>3. /\ c \in Seq(Block) /\ Len(c) = Len(P[from]) - n
      /\ \A i \in 1..Len(P[from]) - n : c[i] = P[from][i + n]
  BY <1>1
<1>4. p \in Seq(Block) /\ p = P[to]
  BY <1>1
<1> HIDE DEF a, c, p
<1>5. /\ p \o a \in Seq(Block)
      /\ Len(p \o a) = Len(p) + Len(a)
      /\ \A i \in 1..Len(p) : (p \o a)[i] = p[i]
      /\ \A i \in 1..Len(a) : (p \o a)[Len(p) + i] = a[i]
  <2>1. p \in Seq(Block) /\ a \in Seq(Block)
    BY <1>2, <1>4
  <2>2. QED
    BY <2>1, Joined
<1>6. /\ Q \in [Holder -> Seq(Block)] /\ Q[from] = c /\ Q[to] = p \o a
      /\ \A o \in Holder \ {from, to} : Q[o] = P[o]
  BY <1>1, <1>3, <1>5
<1> HIDE DEF Q
<1>7. Moves(P, Q, from, to, n)
  BY <1>2, <1>3, <1>4, <1>5, <1>6 DEF Moves
<1>8. QED
  BY <1>7

(* Each block of the new lists was in one of the old ones. *)
MovedFrom(P, from, to, n, o, i) ==
  IF o = from THEN [by |-> from, at |-> i + n]
  ELSE IF o = to /\ i > Len(P[to]) THEN [by |-> from, at |-> i - Len(P[to])]
  ELSE [by |-> o, at |-> i]

(* A move keeps lists apart. *)
LEMMA MoveApart ==
  ASSUME NEW P, NEW Q, Apart(P), NEW from \in Holder, NEW to \in Holder, from # to,
         NEW n \in 0..Len(P[from]), Moves(P, Q, from, to, n)
  PROVE  Apart(Q)
<1>1. Q \in [Holder -> Seq(Block)] /\ \A o \in Holder : Len(P[o]) \in Nat /\ Len(Q[o]) \in Nat
  <2>1. P \in [Holder -> Seq(Block)] /\ Q \in [Holder -> Seq(Block)]
    BY DEF Moves, Apart
  <2>2. QED
    BY <2>1
<1>2. \A o \in Holder \ {from, to} : Q[o] = P[o]
  BY DEF Moves
<1>3. n \in Nat /\ n <= Len(P[from])
  BY <1>1
<1>4. /\ Len(Q[from]) = Len(P[from]) - n
      /\ \A i \in 1..Len(P[from]) - n : Q[from][i] = P[from][i + n]
      /\ Len(Q[to]) = Len(P[to]) + n
      /\ \A i \in 1..Len(P[to]) : Q[to][i] = P[to][i]
      /\ \A i \in 1..n : Q[to][Len(P[to]) + i] = P[from][i]
  BY DEF Moves
<1>5. \A b \in Block : \E o \in Holder : \E i \in 1..Len(Q[o]) : Q[o][i] = b
  <2> TAKE b \in Block
  <2>1. PICK o \in Holder : \E i \in 1..Len(P[o]) : P[o][i] = b
    BY DEF Apart
  <2>2. PICK i \in 1..Len(P[o]) : P[o][i] = b
    BY <2>1
  <2>3. CASE o = from /\ i <= n
    <3>1. i \in 1..n /\ Len(P[to]) + i \in 1..Len(P[to]) + n
      BY <1>1, <2>2, <2>3, <1>3
    <3>2. Len(P[to]) + i \in 1..Len(Q[to])
      BY <1>4, <3>1
    <3>3. Q[to][Len(P[to]) + i] = P[from][i]
      BY <1>4, <3>1
    <3>4. QED
      BY <2>2, <2>3, <3>2, <3>3
  <2>4. CASE o = from /\ ~(i <= n)
    <3>1. i - n \in 1..Len(P[from]) - n /\ (i - n) + n = i
      BY <1>1, <2>2, <2>4
    <3>2. i - n \in 1..Len(Q[from]) /\ Q[from][i - n] = b
      BY <2>2, <2>4, <3>1, <1>4, <1>3
    <3>3. QED
      BY <3>2
  <2>5. CASE o = to
    BY <1>1, <2>2, <2>5, <1>4, <1>3
  <2>6. CASE o # from /\ o # to
    BY <1>2, <2>2, <2>6
  <2>7. QED
    BY <2>3, <2>4, <2>5, <2>6
<1>6. ASSUME NEW o \in Holder, NEW i \in 1..Len(Q[o])
      PROVE  LET x == MovedFrom(P, from, to, n, o, i)
             IN  x.by \in Holder /\ x.at \in 1..Len(P[x.by]) /\ P[x.by][x.at] = Q[o][i]
  <2>1. CASE o = from
    <3>1. i \in 1..Len(P[from]) - n
      BY <1>4, <2>1
    <3>2. i + n \in 1..Len(P[from])
      BY <1>1, <1>3, <3>1
    <3>3. Q[from][i] = P[from][i + n]
      BY <1>4, <3>1
    <3>4. QED
      BY <2>1, <3>2, <3>3 DEF MovedFrom
  <2>2. CASE o = to /\ i <= Len(P[to])
    BY <1>1, <2>2, <1>4, <1>3 DEF MovedFrom
  <2>3. CASE o = to /\ ~(i <= Len(P[to]))
    <3>1. i - Len(P[to]) \in 1..n /\ Len(P[to]) + (i - Len(P[to])) = i
      <4>1. i \in 1..Len(P[to]) + n /\ Len(P[to]) \in Nat
        BY <1>1, <1>4, <2>3
      <4>2. QED
        BY <1>3, <2>3, <4>1
    <3>2. Q[o][i] = P[from][i - Len(P[to])]
      BY <2>3, <3>1, <1>4, <1>3
    <3>3. i - Len(P[to]) \in 1..Len(P[from])
      BY <1>1, <3>1
    <3>4. QED
      BY <2>3, <3>1, <3>2, <3>3 DEF MovedFrom
  <2>4. CASE o # from /\ o # to
    BY <1>2, <2>4 DEF MovedFrom
  <2>5. QED
    BY <2>1, <2>2, <2>3, <2>4
<1>7. ASSUME NEW o \in Holder, NEW q \in Holder,
             NEW i \in 1..Len(Q[o]), NEW j \in 1..Len(Q[q]), Q[o][i] = Q[q][j]
      PROVE  o = q /\ i = j
  <2> DEFINE x == MovedFrom(P, from, to, n, o, i)
             y == MovedFrom(P, from, to, n, q, j)
  <2>1. /\ x.by \in Holder /\ x.at \in 1..Len(P[x.by]) /\ P[x.by][x.at] = Q[o][i]
        /\ y.by \in Holder /\ y.at \in 1..Len(P[y.by]) /\ P[y.by][y.at] = Q[q][j]
    BY <1>6
  <2>2. x.by = y.by /\ x.at = y.at
    <3>1. \A u, v \in Holder : \A k \in 1..Len(P[u]), l \in 1..Len(P[v]) :
            P[u][k] = P[v][l] => u = v /\ k = l
      BY DEF Apart
    <3> HIDE DEF x, y
    <3>2. P[x.by][x.at] = P[y.by][y.at]
      BY <1>7, <2>1
    <3>3. QED
      BY <2>1, <3>1, <3>2
  <2>3. i \in Nat /\ j \in Nat /\ Len(P[to]) \in Nat
    BY <1>1
  <2>4. /\ i + n > n /\ j + n > n
        /\ o = to /\ i > Len(P[to]) => i - Len(P[to]) <= n
        /\ q = to /\ j > Len(P[to]) => j - Len(P[to]) <= n
    BY <1>1, <2>3, <1>4, <1>3 DEF MovedFrom
  <2>5. QED
    BY <2>2, <2>3, <2>4 DEF MovedFrom
<1>8. QED
  BY <1>1, <1>5, <1>7 DEF Apart

(* A move keeps lists linked if the last block moved is made the last, and *)
(* the one that was last where it goes points to the first.                *)
LEMMA MoveChained ==
  ASSUME NEW P, NEW Q, Apart(P), NEW from \in Holder, NEW to \in Holder, from # to,
         NEW n \in 1..Len(P[from]), Moves(P, Q, from, to, n),
         NEW nx, \A o \in Holder : Chained(nx, P[o]),
         NEW nx2, nx2[P[from][n]] = Null,
         P[to] # <<>> => nx2[P[to][Len(P[to])]] = P[from][1],
         \A b \in Block : b # P[from][n] /\ (P[to] # <<>> => b # P[to][Len(P[to])])
                            => nx2[b] = nx[b]
  PROVE  \A o \in Holder : Chained(nx2, Q[o])
<1>1. /\ P \in [Holder -> Seq(Block)] /\ Q \in [Holder -> Seq(Block)]
      /\ \A o \in Holder : Len(P[o]) \in Nat /\ Len(Q[o]) \in Nat
      /\ n \in Nat /\ n >= 1 /\ n <= Len(P[from])
  <2>1. P \in [Holder -> Seq(Block)] /\ Q \in [Holder -> Seq(Block)]
    BY DEF Moves, Apart
  <2>2. \A o \in Holder : Len(P[o]) \in Nat /\ Len(Q[o]) \in Nat
    BY <2>1
  <2>3. QED
    BY <2>1, <2>2
<1>2. /\ Len(Q[from]) = Len(P[from]) - n
      /\ \A i \in 1..Len(P[from]) - n : Q[from][i] = P[from][i + n]
      /\ Len(Q[to]) = Len(P[to]) + n
      /\ \A i \in 1..Len(P[to]) : Q[to][i] = P[to][i]
      /\ \A i \in 1..n : Q[to][Len(P[to]) + i] = P[from][i]
      /\ \A o \in Holder \ {from, to} : Q[o] = P[o]
  BY DEF Moves
<1>3. \A o, q \in Holder : \A i \in 1..Len(P[o]), j \in 1..Len(P[q]) :
        P[o][i] = P[q][j] => o = q /\ i = j
  BY DEF Apart
<1>4. ASSUME NEW o \in Holder, NEW i \in 1..Len(P[o]),
             o = from => i # n, o = to => i # Len(P[to])
      PROVE  nx2[P[o][i]] = IF i = Len(P[o]) THEN Null ELSE P[o][i + 1]
  <2>1. P[o][i] \in Block
    BY <1>1
  <2>2. P[o][i] # P[from][n]
    BY <1>1, <1>3, <1>4
  <2>3. P[to] # <<>> => P[o][i] # P[to][Len(P[to])]
    <3>1. P[to] # <<>> => Len(P[to]) \in 1..Len(P[to])
      BY <1>1
    <3>2. QED
      BY <1>3, <1>4, <3>1
  <2>4. nx2[P[o][i]] = nx[P[o][i]]
    BY <2>1, <2>2, <2>3
  <2>5. QED
    BY <2>4 DEF Chained
<1>5. ASSUME NEW o \in Holder, NEW i \in 1..Len(Q[o])
      PROVE  nx2[Q[o][i]] = IF i = Len(Q[o]) THEN Null ELSE Q[o][i + 1]
  <2>1. i \in Nat /\ i >= 1 /\ i <= Len(Q[o]) /\ Len(P[to]) \in Nat /\ Len(P[from]) \in Nat
    BY <1>1
  <2>2. CASE o = from
    <3>1. i \in 1..Len(P[from]) - n /\ i + n \in 1..Len(P[from]) /\ i + n # n
      BY <1>1, <1>2, <2>1, <2>2
    <3>2. nx2[P[from][i + n]] = IF i + n = Len(P[from]) THEN Null ELSE P[from][i + n + 1]
      BY <1>4, <3>1, <2>2
    <3>3. Q[from][i] = P[from][i + n]
      BY <1>2, <3>1
    <3>4. i # Len(Q[from]) => Q[from][i + 1] = P[from][i + n + 1]
      <4>1. SUFFICES ASSUME i # Len(Q[from]) PROVE Q[from][i + 1] = P[from][i + n + 1]
        OBVIOUS
      <4>2. i + 1 \in 1..Len(P[from]) - n /\ (i + 1) + n = i + n + 1
        <5>1. i \in Nat /\ n \in Nat /\ Len(P[from]) \in Nat /\ i <= Len(P[from]) - n
              /\ i # Len(P[from]) - n
          BY <1>1, <1>2, <2>1, <3>1, <4>1, <2>2
        <5>2. QED
          BY <5>1
      <4>3. QED
        BY <1>2, <4>2
    <3>5. i = Len(Q[from]) <=> i + n = Len(P[from])
      BY <1>1, <1>2, <2>1
    <3>6. QED
      BY <2>2, <3>2, <3>3, <3>4, <3>5
  <2>3. CASE o = to /\ i <= Len(P[to])
    <3>1. i \in 1..Len(P[to]) /\ i # Len(Q[to]) /\ Q[to][i] = P[to][i]
      BY <1>1, <1>2, <2>1, <2>3
    <3>2. CASE i = Len(P[to])
      <4>1. P[to] # <<>>
        BY <2>1, <3>2
      <4>2. Q[to][i + 1] = P[from][1]
        BY <1>1, <1>2, <3>2
      <4>3. QED
        BY <2>3, <3>1, <3>2, <4>1, <4>2
    <3>3. CASE i # Len(P[to])
      <4>1. nx2[P[to][i]] = P[to][i + 1]
        BY <1>4, <2>3, <3>1, <3>3
      <4>2. i + 1 \in 1..Len(P[to])
        BY <2>1, <3>1, <3>3
      <4>3. Q[to][i + 1] = P[to][i + 1]
        BY <1>2, <4>2
      <4>4. QED
        BY <2>3, <3>1, <4>1, <4>3
    <3>4. QED
      BY <3>2, <3>3
  <2>4. CASE o = to /\ ~(i <= Len(P[to]))
    <3> DEFINE k == i - Len(P[to])
    <3>1. k \in 1..n /\ i = Len(P[to]) + k /\ k \in 1..Len(P[from])
      BY <1>1, <1>2, <2>1, <2>4
    <3> HIDE DEF k
    <3>2. Q[to][i] = P[from][k]
      BY <1>2, <3>1
    <3>3. CASE k = n
      BY <1>1, <1>2, <2>1, <2>4, <3>1, <3>2, <3>3
    <3>4. CASE k # n
      <4>1. k + 1 \in 1..n /\ Len(P[to]) + (k + 1) = i + 1 /\ k # Len(P[from]) /\ i # Len(Q[to])
        <5>1. k \in Nat /\ k >= 1 /\ k < n /\ i = Len(P[to]) + k /\ n <= Len(P[from])
              /\ Len(P[to]) \in Nat /\ n \in Nat /\ Len(P[from]) \in Nat
              /\ Len(Q[to]) = Len(P[to]) + n
          BY <1>1, <1>2, <2>1, <3>1, <3>4
        <5>2. k + 1 \in 1..n /\ k # Len(P[from])
          BY <5>1
        <5> DEFINE l == Len(P[to])
        <5>3. l \in Nat /\ i = l + k /\ Len(Q[to]) = l + n
          BY <5>1
        <5> HIDE DEF l
        <5>4. l + (k + 1) = i + 1
          BY <5>1, <5>3
        <5>5. i # Len(Q[to])
          BY <5>1, <5>3
        <5>6. QED
          BY <5>2, <5>5, <5>4 DEF l
      <4>2. Q[to][i + 1] = P[from][k + 1]
        <5> DEFINE d == k + 1
        <5>1. d \in 1..n /\ Len(P[to]) + d = i + 1
          BY <4>1
        <5> HIDE DEF d
        <5>2. Q[to][Len(P[to]) + d] = P[from][d]
          BY <1>2, <5>1
        <5>3. Q[to][i + 1] = P[from][d]
          BY <5>1, <5>2
        <5>4. QED
          BY <5>3 DEF d
      <4>3. nx2[P[from][k]] = P[from][k + 1]
        BY <1>4, <3>1, <3>4, <4>1
      <4>4. QED
        BY <2>4, <3>2, <4>1, <4>2, <4>3
    <3>5. QED
      BY <3>3, <3>4
  <2>5. CASE o # from /\ o # to
    BY <1>2, <1>4, <2>5
  <2>6. QED
    BY <2>2, <2>3, <2>4, <2>5
<1>6. QED
  BY <1>5 DEF Chained
-----------------------------------------------------------------------------
(* The pool: the links, the headers of the two queues, and the macros.     *)

Lists(P, nx) ==
  /\ Apart(P) /\ nx \in [Block -> Block \cup {Null}]
  /\ \A o \in Holder : Chained(nx, P[o])

\* A header of a queue that holds the list s.
Queue(q, s) ==
  q \in Header /\ q.head = First(s) /\ (s # <<>> => q.tail = s[Len(s)])

Pool(P, nx, fr, cm, ms) ==
  /\ Lists(P, nx)
  /\ Queue(fr, P[FreeList]) /\ Queue(cm, P[Compiled])
  /\ \A m \in MacroId : ms[m] = First(P[Macro(m)])

(* A head is null just if the list is empty. *)
LEMMA FirstNull ==
  ASSUME NEW s \in Seq(Block)
  PROVE  /\ Len(s) \in Nat /\ (s = <<>> <=> Len(s) = 0)
         /\ s # <<>> => First(s) = s[1] /\ s[1] \in Block /\ s[Len(s)] \in Block
         /\ First(s) \in Block \cup {Null}
         /\ First(s) = Null <=> s = <<>>
<1>1. Null \notin Block
  BY DEF Null, Block
<1>2. Len(s) \in Nat /\ (s = <<>> <=> Len(s) = 0)
  OBVIOUS
<1>3. s # <<>> => s[1] \in Block /\ s[Len(s)] \in Block
  OBVIOUS
<1>4. QED
  BY <1>1, <1>2, <1>3 DEF First

(* The heads and the lengths that the code reads. *)
LEMMA ListRead ==
  ASSUME NEW P, NEW nx, Lists(P, nx), NEW o \in Holder
  PROVE  /\ Chain(nx, First(P[o]), NBlocks) = P[o]
         /\ P[o] \in Seq(Block)
         /\ Len(P[o]) \in Nat /\ Len(P[o]) <= NBlocks
<1>1. P[o] \in Seq(Block) /\ Chained(nx, P[o])
  BY DEF Lists, Apart
<1>2. Len(P[o]) \in Nat /\ Len(P[o]) <= NBlocks /\ NBlocks \in Nat
  BY HeldLength, SizesAssumption DEF Lists
<1>3. QED
  BY <1>1, <1>2, ChainIs

(* A whole list is put behind another: the last block of that one now      *)
(* points to the first of it.                                              *)
LEMMA ListAppended ==
  ASSUME NEW P, NEW nx, Lists(P, nx), NEW from \in Holder, NEW to \in Holder, from # to,
         P[from] # <<>>, NEW nx2 \in [Block -> Block \cup {Null}],
         P[to] # <<>> => nx2[P[to][Len(P[to])]] = P[from][1],
         \A b \in Block : (P[to] # <<>> => b # P[to][Len(P[to])]) => nx2[b] = nx[b]
  PROVE  \E Q : Moves(P, Q, from, to, Len(P[from])) /\ Lists(Q, nx2)
<1>1. /\ P[from] \in Seq(Block) /\ P[to] \in Seq(Block) /\ Apart(P)
      /\ nx \in [Block -> Block \cup {Null}] /\ \A o \in Holder : Chained(nx, P[o])
  BY DEF Lists, Apart
<1> DEFINE n == Len(P[from])
<1>2. n \in 1..Len(P[from]) /\ n \in 0..Len(P[from])
  BY <1>1, FirstNull
<1>3. PICK Q : Moves(P, Q, from, to, n)
  BY <1>1, <1>2, MoveExists
<1>4. Apart(Q)
  BY <1>1, <1>2, <1>3, MoveApart
<1>5. P[from][1] \in Block /\ P[from][n] \in Block
  BY <1>1, <1>2
<1>6. P[to] # <<>> => P[to][Len(P[to])] \in Block /\ Len(P[to]) \in 1..Len(P[to])
  BY <1>1, FirstNull
<1>7. nx[P[from][n]] = Null
  BY <1>1, <1>2 DEF Chained
<1>8. P[to] # <<>> => P[to][Len(P[to])] # P[from][n]
  <2>1. \A o, q \in Holder : \A i \in 1..Len(P[o]), j \in 1..Len(P[q]) :
          P[o][i] = P[q][j] => o = q /\ i = j
    BY <1>1 DEF Apart
  <2>2. QED
    BY <1>2, <1>6, <2>1
<1>9. nx2[P[from][n]] = Null
  BY <1>5, <1>7, <1>8
<1>10. \A o \in Holder : Chained(nx2, Q[o])
  <2>1. n \in 1..Len(P[from]) /\ Moves(P, Q, from, to, n)
    BY <1>2, <1>3
  <2> HIDE DEF n
  <2>2. QED
    BY <1>1, <1>9, <2>1, MoveChained
<1>11. QED
  BY <1>3, <1>4, <1>10 DEF Lists

(* farq-get on the free list and farq-put on the macro being learned.      *)
LEMMA PoolAlloc ==
  ASSUME NEW P, NEW nx, NEW fr, NEW cm, NEW ms, Pool(P, nx, fr, cm, ms), fr.head # Null
  PROVE  /\ fr.head = P[FreeList][1] /\ Len(P[FreeList]) \in Nat /\ 1 <= Len(P[FreeList])
         /\ \E Q : /\ Moves(P, Q, FreeList, Compiled, 1)
                   /\ Pool(Q, PutLinks(nx, cm, fr.head), GetHeader(nx, fr),
                           PutHeader(cm, fr.head), ms)
<1> DEFINE p == P[FreeList]
           c == P[Compiled]
           b == fr.head
           nx2 == PutLinks(nx, cm, b)
<1>1. /\ p \in Seq(Block) /\ c \in Seq(Block) /\ Apart(P)
      /\ nx \in [Block -> Block \cup {Null}] /\ \A o \in Holder : Chained(nx, P[o])
      /\ fr \in Header /\ cm \in Header /\ Queue(fr, p) /\ Queue(cm, c)
  BY Holders DEF Pool, Lists, Apart, Queue
<1>2. /\ p # <<>> /\ b = p[1] /\ b \in Block /\ Len(p) \in Nat /\ 1 <= Len(p)
      /\ Len(c) \in Nat /\ (cm.head = Null <=> c = <<>>)
      /\ c # <<>> => cm.tail = c[Len(c)] /\ cm.tail \in Block /\ Len(c) \in 1..Len(c)
  BY <1>1, FirstNull DEF Queue
<1>3. PICK Q : Moves(P, Q, FreeList, Compiled, 1)
  BY <1>1, <1>2, Holders, MoveExists
<1>4. Apart(Q)
  BY <1>1, <1>2, <1>3, Holders, MoveApart
<1>5. c # <<>> => cm.tail # b
  <2>1. \A o, q \in Holder : \A i \in 1..Len(P[o]), j \in 1..Len(P[q]) :
          P[o][i] = P[q][j] => o = q /\ i = j
    BY <1>1 DEF Apart
  <2>2. 1 \in 1..Len(p)
    BY <1>2
  <2>3. QED
    BY <1>2, <2>1, <2>2, Holders
<1>6. /\ nx2 \in [Block -> Block \cup {Null}] /\ nx2[b] = Null
      /\ c # <<>> => nx2[cm.tail] = b
      /\ \A d \in Block : d # b /\ (c # <<>> => d # cm.tail) => nx2[d] = nx[d]
  BY <1>1, <1>2, <1>5 DEF PutLinks
<1> HIDE DEF nx2
<1>7. \A o \in Holder : Chained(nx2, Q[o])
  <2>1. 1 \in 1..Len(P[FreeList])
    BY <1>2
  <2>2. QED
    BY <1>1, <1>2, <1>3, <1>6, <2>1, Holders, MoveChained
<1>8. /\ Len(Q[FreeList]) = Len(p) - 1
      /\ \A i \in 1..Len(p) - 1 : Q[FreeList][i] = p[i + 1]
      /\ Len(Q[Compiled]) = Len(c) + 1
      /\ \A i \in 1..Len(c) : Q[Compiled][i] = c[i]
      /\ \A i \in 1..1 : Q[Compiled][Len(c) + i] = p[i]
      /\ \A o \in Holder \ {FreeList, Compiled} : Q[o] = P[o]
      /\ Q[FreeList] \in Seq(Block) /\ Q[Compiled] \in Seq(Block)
  BY <1>3, Holders DEF Moves
<1>9. Queue(GetHeader(nx, fr), Q[FreeList])
  <2>1. nx[b] = IF 1 = Len(p) THEN Null ELSE p[2]
    <3>1. Chained(nx, p) /\ 1 \in 1..Len(p) /\ 1 + 1 = 2
      BY <1>1, <1>2, Holders
    <3>2. QED
      BY <1>2, <3>1 DEF Chained
  <2>2. /\ GetHeader(nx, fr) \in Header
        /\ GetHeader(nx, fr).head = nx[b] /\ GetHeader(nx, fr).tail = fr.tail
    BY <1>1, <1>2 DEF GetHeader, Header
  <2>3. First(Q[FreeList]) = nx[b]
    <3>1. CASE Len(p) = 1
      BY <1>8, <2>1, <3>1, FirstNull
    <3>2. CASE Len(p) # 1
      <4> DEFINE l == Len(p)
      <4>1. l \in Nat /\ 1 <= l /\ l # 1 /\ Len(Q[FreeList]) = l - 1
        BY <1>2, <1>8, <3>2
      <4> HIDE DEF l
      <4>2. 1 \in 1..l - 1 /\ Len(Q[FreeList]) # 0
        BY <4>1
      <4>3. 1 \in 1..Len(p) - 1 /\ Len(Q[FreeList]) # 0
        BY <4>2 DEF l
      <4>4. QED
        BY <1>8, <2>1, <3>2, <4>3, FirstNull
    <3>3. QED
      BY <3>1, <3>2
  <2>4. Q[FreeList] # <<>> => fr.tail = Q[FreeList][Len(Q[FreeList])]
    <3>1. SUFFICES ASSUME Q[FreeList] # <<>>
                   PROVE  fr.tail = Q[FreeList][Len(Q[FreeList])]
      OBVIOUS
    <3>2. Len(p) - 1 \in 1..Len(p) - 1
      BY <1>2, <1>8, <3>1, FirstNull
    <3>3. Q[FreeList][Len(Q[FreeList])] = p[Len(p)]
      BY <1>2, <1>8, <3>2
    <3>4. QED
      BY <1>1, <1>2, <3>3 DEF Queue
  <2>5. QED
    BY <2>2, <2>3, <2>4 DEF Queue
<1>10. Queue(PutHeader(cm, b), Q[Compiled])
  <2>1. /\ PutHeader(cm, b) \in Header /\ PutHeader(cm, b).tail = b
        /\ PutHeader(cm, b).head = IF c = <<>> THEN b ELSE cm.head
    BY <1>1, <1>2 DEF PutHeader, Header
  <2>2. Q[Compiled][Len(Q[Compiled])] = b /\ Q[Compiled] # <<>>
    BY <1>2, <1>8, FirstNull
  <2>3. First(Q[Compiled]) = IF c = <<>> THEN b ELSE cm.head
    <3>1. First(Q[Compiled]) = Q[Compiled][1]
      BY <2>2 DEF First
    <3>2. CASE c = <<>>
      BY <1>2, <1>8, <3>1, <3>2, FirstNull
    <3>3. CASE c # <<>>
      <4>1. 1 \in 1..Len(c)
        BY <1>2, <3>3
      <4>2. cm.head = c[1]
        BY <1>1, <3>3 DEF Queue, First
      <4>3. QED
        BY <1>8, <3>1, <3>3, <4>1, <4>2
    <3>4. QED
      BY <3>2, <3>3
  <2>4. QED
    BY <2>1, <2>2, <2>3 DEF Queue
<1>11. \A m \in MacroId : ms[m] = First(Q[Macro(m)])
  BY <1>8, Holders DEF Pool
<1>12. Pool(Q, nx2, GetHeader(nx, fr), PutHeader(cm, b), ms)
  BY <1>4, <1>6, <1>7, <1>9, <1>10, <1>11 DEF Pool, Lists
<1>13. QED
  BY <1>2, <1>3, <1>12 DEF nx2

(* farq-append of a whole list to the free list. *)
LEMMA PoolRelease ==
  ASSUME NEW P, NEW nx, NEW fr, Lists(P, nx), Queue(fr, P[FreeList]),
         NEW o \in Holder \ {FreeList}, P[o] # <<>>
  PROVE  \E Q : /\ Moves(P, Q, o, FreeList, Len(P[o])) /\ Q[o] = <<>>
                /\ Lists(Q, AppendLinks(nx, fr, First(P[o])))
                /\ Queue(AppendHeader(fr, First(P[o]), P[o][Len(P[o])]), Q[FreeList])
<1> DEFINE p == P[FreeList]
           c == P[o]
           nx2 == AppendLinks(nx, fr, First(c))
<1>1. /\ p \in Seq(Block) /\ c \in Seq(Block) /\ c # <<>>
      /\ nx \in [Block -> Block \cup {Null}] /\ fr \in Header
  BY Holders DEF Lists, Apart, Queue
<1>2. /\ First(c) = c[1] /\ c[1] \in Block /\ c[Len(c)] \in Block
      /\ Len(c) \in Nat /\ Len(c) >= 1 /\ Len(p) \in Nat
      /\ p = <<>> <=> fr.head = Null
      /\ p # <<>> => fr.tail = p[Len(p)] /\ p[Len(p)] \in Block /\ fr.head = p[1]
  BY <1>1, FirstNull DEF Queue
<1>3. /\ nx2 \in [Block -> Block \cup {Null}]
      /\ p # <<>> => nx2[p[Len(p)]] = c[1]
      /\ \A b \in Block : (p # <<>> => b # p[Len(p)]) => nx2[b] = nx[b]
  BY <1>1, <1>2 DEF AppendLinks
<1> HIDE DEF nx2
<1>4. PICK Q : Moves(P, Q, o, FreeList, Len(c)) /\ Lists(Q, nx2)
  BY <1>1, <1>3, Holders, ListAppended
<1>5. /\ Len(Q[o]) = 0 /\ Q[o] \in Seq(Block) /\ Q[FreeList] \in Seq(Block)
      /\ Len(Q[FreeList]) = Len(p) + Len(c)
      /\ \A i \in 1..Len(p) : Q[FreeList][i] = p[i]
      /\ \A i \in 1..Len(c) : Q[FreeList][Len(p) + i] = c[i]
  <2>1. /\ Q \in [Holder -> Seq(Block)]
        /\ Len(Q[o]) = Len(P[o]) - Len(c)
        /\ Len(Q[FreeList]) = Len(P[FreeList]) + Len(c)
        /\ \A i \in 1..Len(P[FreeList]) : Q[FreeList][i] = P[FreeList][i]
        /\ \A i \in 1..Len(c) : Q[FreeList][Len(P[FreeList]) + i] = P[o][i]
    BY <1>4 DEF Moves
  <2>2. Len(c) - Len(c) = 0
    BY <1>2
  <2>3. QED
    BY <2>1, <2>2, Holders
<1>6. Q[o] = <<>>
  BY <1>5, FirstNull
<1> DEFINE q == AppendHeader(fr, First(c), c[Len(c)])
<1>7. q \in Header /\ q.tail = c[Len(c)] /\ q.head = IF p = <<>> THEN c[1] ELSE p[1]
  BY <1>1, <1>2 DEF AppendHeader, Header
<1> HIDE DEF q
<1>8. Q[FreeList] # <<>> /\ First(Q[FreeList]) = Q[FreeList][1]
  <2> DEFINE l == Len(p)
             k == Len(c)
  <2>1. l \in Nat /\ k \in Nat /\ k >= 1 /\ Len(Q[FreeList]) = l + k
    BY <1>2, <1>5
  <2> HIDE DEF l, k
  <2>2. Len(Q[FreeList]) # 0
    BY <2>1
  <2>3. QED
    BY <1>5, <2>2, FirstNull
<1>9. Q[FreeList][Len(Q[FreeList])] = c[Len(c)]
  <2>1. Len(c) \in 1..Len(c)
    BY <1>2
  <2>2. QED
    BY <1>5, <2>1
<1>10. Q[FreeList][1] = IF p = <<>> THEN c[1] ELSE p[1]
  <2>1. CASE p = <<>>
    <3>1. Len(p) = 0 /\ 1 \in 1..Len(c) /\ 0 + 1 = 1
      BY <1>2, <2>1
    <3>2. QED
      BY <1>5, <2>1, <3>1
  <2>2. CASE p # <<>>
    <3>1. 1 \in 1..Len(p)
      BY <1>1, <2>2, FirstNull
    <3>2. QED
      BY <1>5, <2>2, <3>1
  <2>3. QED
    BY <2>1, <2>2
<1>11. Queue(q, Q[FreeList])
  BY <1>7, <1>8, <1>9, <1>10 DEF Queue
<1>12. QED
  BY <1>4, <1>6, <1>11 DEF q, nx2

\* The list R[FreeList] is P[FreeList] with the blocks of s behind it.
Returned(P, R, s) ==
  /\ Len(R[FreeList]) = Len(P[FreeList]) + Len(s)
  /\ \A i \in 1..Len(P[FreeList]) : R[FreeList][i] = P[FreeList][i]

(* The end of a definition that failed: what was compiled is released. *)
LEMMA PoolDropped ==
  ASSUME NEW P, NEW nx, NEW fr, NEW cm, NEW ms, Pool(P, nx, fr, cm, ms),
         P[Compiled] # <<>>
  PROVE  \E R : /\ Pool(R, AppendLinks(nx, fr, cm.head),
                        AppendHeader(fr, cm.head, P[Compiled][Len(P[Compiled])]),
                        EmptyQueue(cm), ms)
                /\ R[Compiled] = <<>> /\ \A m \in MacroId : R[Macro(m)] = P[Macro(m)]
                /\ Returned(P, R, P[Compiled])
<1>1. /\ Lists(P, nx) /\ Queue(fr, P[FreeList]) /\ cm.head = First(P[Compiled])
      /\ cm \in Header /\ Compiled \in Holder \ {FreeList}
  BY Holders DEF Pool, Queue
<1>2. PICK R : /\ Moves(P, R, Compiled, FreeList, Len(P[Compiled])) /\ R[Compiled] = <<>>
               /\ Lists(R, AppendLinks(nx, fr, cm.head))
               /\ Queue(AppendHeader(fr, cm.head, P[Compiled][Len(P[Compiled])]), R[FreeList])
  BY <1>1, PoolRelease
<1>3. \A m \in MacroId : R[Macro(m)] = P[Macro(m)]
  BY <1>2, Holders DEF Moves
<1>4. Queue(EmptyQueue(cm), <<>>)
  BY <1>1 DEF Queue, EmptyQueue, Header, First
<1>5. Returned(P, R, P[Compiled])
  BY <1>2 DEF Returned, Moves
<1>6. \A m \in MacroId : ms[m] = First(R[Macro(m)])
  BY <1>3 DEF Pool
<1>7. Pool(R, AppendLinks(nx, fr, cm.head),
           AppendHeader(fr, cm.head, P[Compiled][Len(P[Compiled])]), EmptyQueue(cm), ms)
  BY <1>2, <1>4, <1>6 DEF Pool
<1>8. QED
  BY <1>2, <1>3, <1>5, <1>7

\* From P to R, what was compiled became the macro m, which had no blocks.
Installed(P, R, nx, fr, cm, ms, m) ==
  /\ Pool(R, nx, fr, EmptyQueue(cm), [ms EXCEPT ![m] = cm.head])
  /\ R[Compiled] = <<>> /\ R[Macro(m)] = P[Compiled]
  /\ \A l \in MacroId \ {m} : R[Macro(l)] = P[Macro(l)]
  /\ R[FreeList] = P[FreeList]

(* What was compiled becomes the macro m, which has no blocks. *)
LEMMA PoolInstalled ==
  ASSUME NEW P, NEW nx, NEW fr, NEW cm, NEW ms, Lists(P, nx), Queue(fr, P[FreeList]),
         Queue(cm, P[Compiled]), NEW m \in MacroId, P[Macro(m)] = <<>>,
         ms \in [MacroId -> Block \cup {Null}],
         \A l \in MacroId \ {m} : ms[l] = First(P[Macro(l)])
  PROVE  \E R : Installed(P, R, nx, fr, cm, ms, m)
<1> DEFINE c == P[Compiled]
           ms2 == [ms EXCEPT ![m] = cm.head]
<1>1. c \in Seq(Block) /\ cm \in Header /\ cm.head = First(c) /\ Len(c) \in Nat
  BY Holders DEF Queue, Lists, Apart
<1>2. Queue(EmptyQueue(cm), <<>>)
  BY <1>1 DEF Queue, EmptyQueue, Header, First
<1>3. ms2[m] = First(c) /\ \A l \in MacroId \ {m} : ms2[l] = ms[l]
  BY <1>1
<1> HIDE DEF ms2
<1>4. CASE c = <<>>
  <2>1. \A l \in MacroId : ms2[l] = First(P[Macro(l)])
    BY <1>3, <1>4
  <2>2. Pool(P, nx, fr, EmptyQueue(cm), ms2)
    BY <1>2, <1>4, <2>1 DEF Pool
  <2>3. QED
    BY <1>4, <2>2 DEF ms2, Installed
<1>5. CASE c # <<>>
  <2>1. nx \in [Block -> Block \cup {Null}]
    BY DEF Lists
  <2>2. PICK R : Moves(P, R, Compiled, Macro(m), Len(c)) /\ Lists(R, nx)
    BY <1>5, <2>1, Holders, ListAppended
  <2>3. /\ Len(R[Compiled]) = 0 /\ R[Compiled] \in Seq(Block) /\ R[Macro(m)] \in Seq(Block)
        /\ Len(R[Macro(m)]) = Len(c) /\ \A i \in 1..Len(c) : R[Macro(m)][i] = c[i]
        /\ \A o \in Holder \ {Compiled, Macro(m)} : R[o] = P[o]
    <3>1. R \in [Holder -> Seq(Block)] /\ Len(P[Macro(m)]) = 0
      BY <2>2 DEF Moves
    <3>2. /\ Len(R[Compiled]) = Len(c) - Len(c)
          /\ Len(R[Macro(m)]) = 0 + Len(c)
          /\ \A i \in 1..Len(c) : R[Macro(m)][0 + i] = c[i]
      BY <2>2, <3>1 DEF Moves
    <3>3. \A i \in 1..Len(c) : 0 + i = i
      BY <1>1
    <3>4. \A o \in Holder \ {Compiled, Macro(m)} : R[o] = P[o]
      BY <2>2 DEF Moves
    <3>5. QED
      BY <1>1, <3>1, <3>2, <3>3, <3>4, Holders
  <2>4. R[Compiled] = <<>> /\ R[Macro(m)] = c
    <3>1. R[Compiled] = <<>>
      BY <2>3, FirstNull
    <3>2. R[Macro(m)] = c
      BY <1>1, <2>3, SameList
    <3>3. QED
      BY <3>1, <3>2
  <2>5. \A l \in MacroId : ms2[l] = First(R[Macro(l)])
    BY <1>3, <2>3, <2>4, Holders
  <2>6. R[FreeList] = P[FreeList] /\ \A l \in MacroId \ {m} : R[Macro(l)] = P[Macro(l)]
    BY <2>3, Holders
  <2>7. Pool(R, nx, fr, EmptyQueue(cm), ms2)
    BY <1>2, <2>2, <2>4, <2>5, <2>6 DEF Pool
  <2>8. QED
    BY <2>4, <2>6, <2>7 DEF ms2, Installed
<1>6. QED
  BY <1>4, <1>5
-----------------------------------------------------------------------------
(* What a command does to the memory.                                      *)

ZeroBlock == [i \in 0..BlockSize - 1 |-> Zero]
Data == [Block -> [0..BlockSize - 1 -> Byte]]
Place == (Block \cup {Null}) \X Nat

\* A memory of the fields that the helpers of MacroComp work on.
Memory(s) ==
  /\ s = [next |-> s.next, data |-> s.data, free |-> s.free, count |-> s.count,
          comp |-> s.comp, pc |-> s.pc]
  /\ s.data \in Data

\* The lists of a memory are those of P, and its count is that of free blocks.
PoolOf(P, s, ms) == Pool(P, s.next, s.free, s.comp, ms) /\ s.count = Len(P[FreeList])

\* t is s after k blocks were allocated, and nothing else.
Grown(P, Q, s, t, k, ms) ==
  /\ k \in 0..Len(P[FreeList]) /\ Moves(P, Q, FreeList, Compiled, k)
  /\ PoolOf(Q, t, ms) /\ Memory(t)
  /\ \A b \in Block : t.data[b] = IF \E i \in 1..k : b = P[FreeList][i] THEN ZeroBlock
                                  ELSE s.data[b]

(* A zero is a byte. *)
LEMMA ZeroBytes == ZeroBlock \in [0..BlockSize - 1 -> Byte]
<1>1. Zero \in Byte
  BY DEF Zero, Byte
<1>2. QED
  BY <1>1 DEF ZeroBlock

(* The fields of the memory after alloc-block. *)
LEMMA AllocBlockIs ==
  ASSUME NEW s, Memory(s), s.free.head \in Block
  PROVE  LET t == AllocBlock(s)
             b == s.free.head
         IN  /\ Memory(t)
             /\ t.next = PutLinks(s.next, s.comp, b) /\ t.free = GetHeader(s.next, s.free)
             /\ t.comp = PutHeader(s.comp, b) /\ t.pc = s.pc /\ t.count = s.count - 1
             /\ t.data[b] = ZeroBlock /\ \A d \in Block \ {b} : t.data[d] = s.data[d]
<1> DEFINE t == AllocBlock(s)
           b == s.free.head
           nx == PutLinks(s.next, s.comp, b)
           fr == GetHeader(s.next, s.free)
           cm == PutHeader(s.comp, b)
           dt == [s.data EXCEPT ![b] = ZeroBlock]
<1>1. t = [s EXCEPT !.free = fr, !.count = @ - 1, !.data[b] = ZeroBlock, !.next = nx,
                    !.comp = cm]
  BY DEF AllocBlock, ZeroBlock
<1> HIDE DEF t, nx, fr, cm, ZeroBlock
<1>2. s.data \in Data /\ ZeroBlock \in [0..BlockSize - 1 -> Byte]
  BY ZeroBytes DEF Memory
<1>3. dt \in Data /\ dt[b] = ZeroBlock /\ \A d \in Block \ {b} : dt[d] = s.data[d]
  BY <1>2 DEF Data
<1>4. t = [next |-> nx, data |-> dt, free |-> fr, count |-> s.count - 1, comp |-> cm,
            pc |-> s.pc]
  BY <1>1 DEF Memory
<1> HIDE DEF dt
<1>5. QED
  BY <1>3, <1>4 DEF t, nx, fr, cm, Memory

(* One more block. *)
LEMMA GrownByOne ==
  ASSUME NEW P, NEW Q, NEW s, NEW t, NEW k, NEW ms, Apart(P), Grown(P, Q, s, t, k, ms),
         t.free.head # Null
  PROVE  /\ k + 1 \in 0..Len(P[FreeList]) /\ t.free.head = P[FreeList][k + 1]
         /\ AllocBlock(t).pc = t.pc
         /\ \E R : Grown(P, R, s, AllocBlock(t), k + 1, ms)
<1> DEFINE p == P[FreeList]
           b == t.free.head
           u == AllocBlock(t)
<1>1. /\ p \in Seq(Block) /\ Len(p) \in Nat /\ k \in Nat /\ k <= Len(p)
      /\ Pool(Q, t.next, t.free, t.comp, ms) /\ Memory(t) /\ t.count = Len(Q[FreeList])
  BY Holders DEF Apart, Grown, PoolOf
<1>2. PICK R : /\ Moves(Q, R, FreeList, Compiled, 1)
               /\ Pool(R, PutLinks(t.next, t.comp, b), GetHeader(t.next, t.free),
                       PutHeader(t.comp, b), ms)
  BY <1>1, PoolAlloc
<1>3. b = Q[FreeList][1] /\ Len(Q[FreeList]) \in Nat /\ 1 <= Len(Q[FreeList])
  BY <1>1, PoolAlloc
<1>4. /\ Len(Q[FreeList]) = Len(p) - k
      /\ \A i \in 1..Len(p) - k : Q[FreeList][i] = p[i + k]
      /\ Len(Q[Compiled]) = Len(P[Compiled]) + k
      /\ \A i \in 1..Len(P[Compiled]) : Q[Compiled][i] = P[Compiled][i]
      /\ \A i \in 1..k : Q[Compiled][Len(P[Compiled]) + i] = p[i]
      /\ \A o \in Holder \ {FreeList, Compiled} : Q[o] = P[o]
  BY DEF Grown, Moves
<1>5. /\ Len(R[FreeList]) = Len(Q[FreeList]) - 1
      /\ \A i \in 1..Len(Q[FreeList]) - 1 : R[FreeList][i] = Q[FreeList][i + 1]
      /\ Len(R[Compiled]) = Len(Q[Compiled]) + 1
      /\ \A i \in 1..Len(Q[Compiled]) : R[Compiled][i] = Q[Compiled][i]
      /\ \A i \in 1..1 : R[Compiled][Len(Q[Compiled]) + i] = Q[FreeList][i]
      /\ \A o \in Holder \ {FreeList, Compiled} : R[o] = Q[o]
      /\ R \in [Holder -> Seq(Block)]
  BY <1>2 DEF Moves
<1>6. k + 1 <= Len(p) /\ k + 1 \in 1..Len(p) /\ k + 1 \in 0..Len(p)
  BY <1>1, <1>3, <1>4
<1>7. b = p[k + 1] /\ b \in Block
  <2>1. 1 \in 1..Len(p) - k /\ 1 + k = k + 1
    BY <1>1, <1>3, <1>4
  <2>2. Q[FreeList][1] = p[k + 1]
    BY <1>4, <2>1
  <2>3. QED
    BY <1>1, <1>3, <1>6, <2>2
<1>8. Len(P[Compiled]) \in Nat
  BY Holders DEF Apart
<1>9. Moves(P, R, FreeList, Compiled, k + 1)
  <2> DEFINE l == Len(p)
             m == Len(P[Compiled])
  <2>1. l \in Nat /\ k \in Nat /\ k + 1 <= l /\ m \in Nat
    BY <1>1, <1>6, <1>8
  <2>2. Len(R[FreeList]) = l - (k + 1) /\ Len(R[Compiled]) = m + (k + 1)
    <3>1. Len(Q[FreeList]) = l - k /\ Len(Q[Compiled]) = m + k
      BY <1>4
    <3>2. Len(R[FreeList]) = (l - k) - 1 /\ Len(R[Compiled]) = (m + k) + 1
      BY <1>5, <3>1
    <3> HIDE DEF l, m
    <3>3. QED
      BY <2>1, <3>2
  <2>3. \A i \in 1..l - (k + 1) : R[FreeList][i] = p[i + (k + 1)]
    <3>1. TAKE i \in 1..l - (k + 1)
    <3>2. /\ i \in 1..(l - k) - 1 /\ i + 1 \in 1..l - k /\ (i + 1) + k = i + (k + 1)
      <4> HIDE DEF l, m
      <4> QED
        BY <2>1
    <3>3. R[FreeList][i] = Q[FreeList][i + 1]
      BY <1>4, <1>5, <3>2
    <3>4. Q[FreeList][i + 1] = p[(i + 1) + k]
      BY <1>4, <3>2
    <3>5. QED
      BY <3>2, <3>3, <3>4
  <2>4. \A i \in 1..m : R[Compiled][i] = P[Compiled][i]
    <3>1. TAKE i \in 1..m
    <3>2. i \in 1..m + k
      <4> HIDE DEF l, m
      <4> QED
        BY <2>1
    <3>3. QED
      BY <1>4, <1>5, <3>2
  <2>5. \A i \in 1..k + 1 : R[Compiled][m + i] = p[i]
    <3>1. TAKE i \in 1..k + 1
    <3>2. CASE i = k + 1
      <4>1. 1 \in 1..1 /\ (m + k) + 1 = m + i
        <5> HIDE DEF l, m
        <5> QED
          BY <2>1, <3>2
      <4>2. R[Compiled][Len(Q[Compiled]) + 1] = Q[FreeList][1]
        BY <1>5, <4>1
      <4>3. QED
        BY <1>3, <1>4, <1>7, <3>2, <4>1, <4>2
    <3>3. CASE i # k + 1
      <4>1. i \in 1..k /\ m + i \in 1..m + k
        <5> HIDE DEF l, m
        <5> QED
          BY <2>1, <3>1, <3>3
      <4>2. QED
        BY <1>4, <1>5, <4>1
    <3>4. QED
      BY <3>2, <3>3
  <2>6. QED
    BY <1>4, <1>5, <2>2, <2>3, <2>4, <2>5 DEF Moves
<1>10. /\ Memory(u) /\ u.next = PutLinks(t.next, t.comp, b)
       /\ u.free = GetHeader(t.next, t.free) /\ u.comp = PutHeader(t.comp, b)
       /\ u.pc = t.pc /\ u.count = t.count - 1 /\ u.data[b] = ZeroBlock
       /\ \A d \in Block \ {b} : u.data[d] = t.data[d]
  BY <1>1, <1>7, AllocBlockIs
<1> HIDE DEF u
<1>11. PoolOf(R, u, ms)
  BY <1>1, <1>2, <1>5, <1>10 DEF PoolOf
<1>12. \A d \in Block : u.data[d] = IF \E i \in 1..k + 1 : d = p[i] THEN ZeroBlock
                                    ELSE s.data[d]
  <2>1. TAKE d \in Block
  <2>2. t.data[d] = IF \E i \in 1..k : d = p[i] THEN ZeroBlock ELSE s.data[d]
    BY DEF Grown
  <2>3. CASE d = b
    <3>1. k + 1 \in 1..k + 1
      BY <1>1
    <3>2. QED
      BY <1>7, <1>10, <2>3, <3>1
  <2>4. CASE d # b
    <3>1. (\E i \in 1..k + 1 : d = p[i]) <=> \E i \in 1..k : d = p[i]
      <4>1. \A i \in 1..k : i \in 1..k + 1
        BY <1>1
      <4>2. \A i \in 1..k + 1 : i = k + 1 \/ i \in 1..k
        BY <1>1
      <4>3. QED
        BY <1>7, <2>4, <4>1, <4>2
    <3>2. QED
      BY <1>10, <2>2, <2>4, <3>1
  <2>5. QED
    BY <2>3, <2>4
<1>13. Grown(P, R, s, u, k + 1, ms)
  BY <1>6, <1>9, <1>10, <1>11, <1>12 DEF Grown
<1>14. QED
  BY <1>6, <1>7, <1>10, <1>13 DEF u

(* alloc-blocks as the sequence of memories that it is defined by. *)
LEMMA AllocRuns ==
  ASSUME NEW s, NEW n \in Nat
  PROVE  \E a : /\ AllocBlocks(s, n) = a[n]
                /\ \A i \in 0..n : a[i] = IF i = 0 THEN s
                                          ELSE IF a[i - 1].free.head = Null THEN a[i - 1]
                                               ELSE AllocBlock(a[i - 1])
<1> DEFINE Step(x) == IF x.free.head = Null THEN x ELSE AllocBlock(x)
           Is(w, k) == w = [i \in 0..k |-> IF i = 0 THEN s ELSE Step(w[i - 1])]
<1>1. AllocBlocks(s, n) = (CHOOSE w : Is(w, n))[n]
  BY DEF AllocBlocks
<1> HIDE DEF Step
<1>2. \E w : Is(w, n)
  <2> DEFINE S == {m \in Nat : ~\E w : Is(w, m)}
  <2>1. S \in SUBSET Nat /\ \A m \in Nat : m \notin S <=> \E w : Is(w, m)
    OBVIOUS
  <2> HIDE DEF S, Is
  <2>2. SUFFICES ASSUME S # {} PROVE FALSE
    BY <2>1
  <2>3. PICK m \in S : \A l \in S : m <= l
    BY <2>1, <2>2, LeastNatural
  <2>4. m # 0
    <3>1. Is([i \in 0..0 |-> s], 0)
      BY DEF Is
    <3>2. QED
      BY <2>1, <2>3, <3>1
  <2>5. m - 1 \in Nat /\ m - 1 \notin S /\ m \in Nat
    BY <2>1, <2>3, <2>4
  <2>6. PICK w : Is(w, m - 1)
    BY <2>1, <2>5
  <2> DEFINE v == [i \in 0..m |-> IF i < m THEN w[i] ELSE Step(w[m - 1])]
  <2>7. \A i \in 0..m - 1 : w[i] = IF i = 0 THEN s ELSE Step(w[i - 1])
    BY <2>5, <2>6 DEF Is
  <2>8. \A i \in 0..m : v[i] = IF i = 0 THEN s ELSE Step(v[i - 1])
    BY <2>4, <2>5, <2>7
  <2>9. v = [i \in 0..m |-> IF i = 0 THEN s ELSE Step(v[i - 1])]
    BY <2>8
  <2> HIDE DEF v
  <2>10. Is(v, m)
    BY <2>9 DEF Is
  <2>11. QED
    BY <2>1, <2>3, <2>5, <2>10
<1> HIDE DEF Is
<1> DEFINE u == CHOOSE w : Is(w, n)
<1>3. Is(u, n)
  BY <1>2
<1>4. AllocBlocks(s, n) = u[n]
  BY <1>1
<1> HIDE DEF u
<1>5. \A i \in 0..n : u[i] = IF i = 0 THEN s ELSE Step(u[i - 1])
  BY <1>3 DEF Is
<1>6. QED
  BY <1>4, <1>5 DEF Step

\* The number of blocks allocated when n are asked for and l are free.
Least(n, l) == IF n <= l THEN n ELSE l

(* alloc-blocks takes as many blocks as it is asked for, or all there are. *)
LEMMA GrownByMany ==
  ASSUME NEW P, NEW Q, NEW s, NEW t, NEW k, NEW ms, Apart(P), Grown(P, Q, s, t, k, ms),
         NEW n \in Nat
  PROVE  LET u == AllocBlocks(t, n)
         IN  /\ u.pc = t.pc
             /\ \E R : Grown(P, R, s, u, Least(k + n, Len(P[FreeList])), ms)
<1> DEFINE l == Len(P[FreeList])
<1>1. l \in Nat /\ k \in Nat /\ k <= l
  BY Holders DEF Apart, Grown
<1>2. PICK a : /\ AllocBlocks(t, n) = a[n]
               /\ \A i \in 0..n : a[i] = IF i = 0 THEN t
                                         ELSE IF a[i - 1].free.head = Null THEN a[i - 1]
                                              ELSE AllocBlock(a[i - 1])
  BY AllocRuns
<1> DEFINE Fine(i) == a[i].pc = t.pc /\ \E R : Grown(P, R, s, a[i], Least(k + i, l), ms)
           S == {i \in 0..n : ~Fine(i)}
<1> HIDE DEF Fine
<1>3. SUFFICES ASSUME S # {} PROVE FALSE
  <2>1. n \in 0..n
    OBVIOUS
  <2>2. Fine(n)
    BY <1>3, <2>1
  <2>3. QED
    BY <1>2, <2>2 DEF Fine
<1>4. S \in SUBSET Nat
  OBVIOUS
<1> HIDE DEF S
<1>5. PICK i \in S : \A j \in S : i <= j
  BY <1>3, <1>4, LeastNatural
<1>6. i \in 0..n /\ ~Fine(i) /\ \A j \in 0..n : j < i => Fine(j)
  BY <1>5 DEF S
<1>7. CASE i = 0
  <2>1. a[0] = t /\ Least(k + 0, l) = k
    BY <1>1, <1>2 DEF Least
  <2>2. Fine(0)
    BY <2>1 DEF Fine
  <2>3. QED
    BY <1>6, <1>7, <2>2
<1>8. CASE i # 0
  <2> DEFINE h == Least(k + (i - 1), l)
             v == a[i - 1]
  <2>1. i - 1 \in 0..n /\ i - 1 < i /\ i \in Nat
    BY <1>6, <1>8
  <2>2. Fine(i - 1)
    BY <1>6, <2>1
  <2>3. v.pc = t.pc /\ \E R : Grown(P, R, s, v, h, ms)
    BY <2>2 DEF Fine
  <2>4. a[i] = IF v.free.head = Null THEN v ELSE AllocBlock(v)
    BY <1>2, <1>6, <1>8
  <2> HIDE DEF v
  <2>5. PICK R : Grown(P, R, s, v, h, ms)
    BY <2>3
  <2>6. h \in Nat /\ h <= l /\ h = Least(k + (i - 1), l)
    BY <1>1, <2>1 DEF Least
  <2> HIDE DEF h
  <2>7. v.free.head = Null <=> h = l
    <3>1. v.free.head = First(R[FreeList]) /\ R[FreeList] \in Seq(Block)
      BY <2>5, Holders DEF Grown, Moves, PoolOf, Pool, Queue
    <3>2. Len(R[FreeList]) = l - h
      BY <2>5 DEF Grown, Moves
    <3>3. v.free.head = Null <=> Len(R[FreeList]) = 0
      BY <3>1, FirstNull
    <3>4. QED
      BY <1>1, <2>6, <3>2, <3>3
  <2>8. CASE h = l
    <3>1. Least(k + i, l) = h
      BY <1>1, <2>1, <2>6, <2>8 DEF Least
    <3>2. a[i] = v
      BY <2>4, <2>7, <2>8
    <3>3. Fine(i)
      BY <2>3, <2>5, <3>1, <3>2 DEF Fine
    <3>4. QED
      BY <1>6, <3>3
  <2>9. CASE h # l
    <3>1. Least(k + i, l) = h + 1
      BY <1>1, <2>1, <2>6, <2>9 DEF Least
    <3>2. v.free.head # Null /\ a[i] = AllocBlock(v)
      BY <2>4, <2>7, <2>9
    <3>3. AllocBlock(v).pc = v.pc /\ \E U : Grown(P, U, s, AllocBlock(v), h + 1, ms)
      BY <2>5, <3>2, GrownByOne
    <3>4. Fine(i)
      BY <2>3, <3>1, <3>2, <3>3 DEF Fine
    <3>5. QED
      BY <1>6, <3>4
  <2>10. QED
    BY <2>8, <2>9
<1>9. QED
  BY <1>7, <1>8

(* No block is allocated yet. *)
LEMMA GrownByNone ==
  ASSUME NEW P, NEW s, NEW ms, PoolOf(P, s, ms), Memory(s)
  PROVE  Grown(P, P, s, s, 0, ms) /\ Apart(P)
<1>1. Apart(P) /\ P \in [Holder -> Seq(Block)]
  BY DEF PoolOf, Pool, Lists, Apart
<1>2. Len(P[FreeList]) \in Nat /\ Len(P[Compiled]) \in Nat
  BY <1>1, Holders
<1>3. Moves(P, P, FreeList, Compiled, 0)
  BY <1>1, <1>2 DEF Moves
<1>4. 0 \in 0..Len(P[FreeList])
  BY <1>2
<1>5. QED
  BY <1>1, <1>3, <1>4 DEF Grown

(* Whole blocks for n bytes. *)
LEMMA Ceiling ==
  ASSUME NEW n \in Nat
  PROVE  /\ CeilDiv(n, BlockSize) \in Nat
         /\ CeilDiv(n, BlockSize) * BlockSize >= n
         /\ n > 0 => CeilDiv(n, BlockSize) >= 1
         /\ n <= BlockSize => CeilDiv(n, BlockSize) <= 1
<1>1. BlockSize \in Nat /\ BlockSize > 0
  BY SizesAssumption
<1>2. QED
  BY <1>1 DEF CeilDiv

(* The current place does not matter to the lists. *)
LEMMA GrownPc ==
  ASSUME NEW P, NEW Q, NEW s, NEW t, NEW k, NEW ms, NEW x, Grown(P, Q, s, t, k, ms)
  PROVE  LET u == [t EXCEPT !.pc = x]
         IN  Grown(P, Q, s, u, k, ms) /\ u.pc = x /\ u.free = t.free
<1> DEFINE u == [t EXCEPT !.pc = x]
<1>1. t = [next |-> t.next, data |-> t.data, free |-> t.free, count |-> t.count,
            comp |-> t.comp, pc |-> t.pc]
  BY DEF Grown, Memory
<1>2. u = [next |-> t.next, data |-> t.data, free |-> t.free, count |-> t.count,
            comp |-> t.comp, pc |-> x]
  BY <1>1
<1> HIDE DEF u
<1>3. /\ u.next = t.next /\ u.data = t.data /\ u.free = t.free /\ u.count = t.count
      /\ u.comp = t.comp /\ u.pc = x
  BY <1>2
<1>4. Memory(u)
  BY <1>2, <1>3 DEF Memory, Grown
<1>5. PoolOf(Q, u, ms)
  BY <1>3 DEF PoolOf, Grown
<1>6. QED
  BY <1>3, <1>4, <1>5 DEF Grown, u

\* Room is left for n bytes in the current block and in k new ones.
Roomy(s, k, n) ==
  k * BlockSize + (IF s.pc[1] # Null THEN BlockSize - s.pc[2] ELSE 0) >= n

\* What alloc-macro? does to the lists when its result is a, for n bytes.
Provides(P, Q, s, a, k, n, ms) ==
  /\ Grown(P, Q, s, a.s, k, ms)
  /\ s.pc[1] = Null /\ P[FreeList] # <<>> => k # 0
  /\ a.ok => a.s.pc[1] # Null /\ Roomy(s, k, n)
  /\ ~a.ok /\ n <= 2 /\ BlockSize >= 2 /\ s.pc[2] < BlockSize => k = 0

(* alloc-macro? allocates blocks and makes the first current if there is   *)
(* no current one; when it succeeds there is room.  It allocates none in   *)
(* vain for the two bytes of an end command.                               *)
LEMMA AllocMacroGrows ==
  ASSUME NEW P, NEW s, NEW ms, PoolOf(P, s, ms), Memory(s), s.pc \in Place, NEW n \in Nat
  PROVE  LET a == AllocMacro(s, n)
         IN  /\ a.s.pc = IF s.pc[1] # Null \/ P[FreeList] = <<>> THEN s.pc
                         ELSE <<P[FreeList][1], 0>>
             /\ \E k \in Nat : \E Q : Provides(P, Q, s, a, k, n, ms)
<1> DEFINE s1 == IF s.pc[1] # Null \/ s.free.head = Null THEN s
                 ELSE [AllocBlock(s) EXCEPT !.pc = <<s.free.head, 0>>]
           room == BlockSize - s1.pc[2]
           more == IF n > room THEN CeilDiv(n - room, BlockSize) ELSE 0
           s2 == AllocBlocks(s1, more)
           a == AllocMacro(s, n)
           p == P[FreeList]
           k1 == IF s.pc[1] # Null \/ p = <<>> THEN 0 ELSE 1
<1>1. a = IF s1.pc[1] = Null THEN [ok |-> FALSE, s |-> s]
          ELSE [ok |-> FreeLength(s1) >= more, s |-> s2]
  BY DEF AllocMacro
<1>2. /\ Grown(P, P, s, s, 0, ms) /\ Apart(P) /\ p \in Seq(Block) /\ Len(p) \in Nat
      /\ s.free.head = First(p) /\ (s.free.head = Null <=> p = <<>>)
      /\ p # <<>> => p[1] \in Block /\ First(p) = p[1]
  <2>1. Grown(P, P, s, s, 0, ms) /\ Apart(P)
    BY GrownByNone
  <2>2. p \in Seq(Block) /\ s.free.head = First(p)
    BY <2>1, Holders DEF Apart, PoolOf, Pool, Queue
  <2>3. QED
    BY <2>1, <2>2, FirstNull
<1>3. /\ \E Q : Grown(P, Q, s, s1, k1, ms)
      /\ s1.pc = IF s.pc[1] # Null \/ p = <<>> THEN s.pc ELSE <<p[1], 0>>
  <2>1. CASE s.pc[1] # Null \/ p = <<>>
    <3>1. s1 = s
      BY <1>2, <2>1
    <3> HIDE DEF s1
    <3>2. k1 = 0
      BY <2>1
    <3>3. QED
      BY <1>2, <2>1, <3>1, <3>2
  <2>2. CASE ~(s.pc[1] # Null \/ p = <<>>)
    <3>1. s1 = [AllocBlock(s) EXCEPT !.pc = <<p[1], 0>>]
      BY <1>2, <2>2
    <3> HIDE DEF s1
    <3>2. k1 = 1 /\ 0 + 1 = 1
      BY <2>2
    <3>3. PICK Q : Grown(P, Q, s, AllocBlock(s), 1, ms)
      BY <1>2, <2>2, <3>2, GrownByOne
    <3>4. Grown(P, Q, s, s1, 1, ms) /\ s1.pc = <<p[1], 0>>
      BY <3>1, <3>3, GrownPc
    <3>5. QED
      BY <2>2, <3>2, <3>4
  <2>3. QED
    BY <2>1, <2>2
<1> HIDE DEF s1
<1>4. s1.pc \in Place /\ BlockSize \in Nat /\ BlockSize > 0
  BY <1>2, <1>3, SizesAssumption DEF Place
<1>5. room \in Int /\ more \in Nat /\ more * BlockSize >= n - room
      /\ (n - room <= BlockSize => more <= 1) /\ (n <= room => more = 0)
  <2>1. s1.pc[2] \in Nat
    BY <1>4 DEF Place
  <2>2. room \in Int
    BY <1>4, <2>1
  <2> HIDE DEF room
  <2>3. CASE n > room
    <3>1. n - room \in Nat /\ ~(n <= room)
      BY <2>2, <2>3
    <3>2. more = CeilDiv(n - room, BlockSize)
      BY <2>3
    <3>3. QED
      BY <2>2, <3>1, <3>2, Ceiling
  <2>4. CASE ~(n > room)
    <3>1. more = 0 /\ n - room <= 0
      BY <2>2, <2>4
    <3>2. 0 * BlockSize = 0
      BY <1>4
    <3>3. QED
      BY <2>2, <3>1, <3>2
  <2>5. QED
    BY <2>3, <2>4
<1> HIDE DEF more
<1>6. PICK Q1 : Grown(P, Q1, s, s1, k1, ms)
  BY <1>3
<1>7. FreeLength(s1) = Len(p) - k1 /\ k1 \in Nat /\ k1 <= Len(p)
  <2>1. Lists(Q1, s1.next) /\ s1.free.head = First(Q1[FreeList])
    BY <1>6 DEF Grown, PoolOf, Pool, Queue
  <2>2. Chain(s1.next, s1.free.head, NBlocks) = Q1[FreeList]
    BY <2>1, Holders, ListRead
  <2>3. Len(Q1[FreeList]) = Len(p) - k1
    BY <1>6 DEF Grown, Moves
  <2>4. k1 \in 0..Len(p)
    BY <1>6 DEF Grown
  <2>5. QED
    BY <1>2, <2>2, <2>3, <2>4 DEF FreeLength
<1> DEFINE k2 == Least(k1 + more, Len(p))
<1>8. s2.pc = s1.pc /\ \E R : Grown(P, R, s, s2, k2, ms)
  <2>1. Apart(P) /\ more \in Nat
    BY <1>2, <1>5
  <2> HIDE DEF k1, p
  <2>2. QED
    BY <1>6, <2>1, GrownByMany DEF p
<1> HIDE DEF s2
<1>9. CASE s1.pc[1] = Null
  <2>1. s.pc[1] = Null /\ p = <<>>
    <3>1. Null \notin Block
      BY DEF Null, Block
    <3>2. QED
      BY <1>2, <1>3, <1>9, <3>1
  <2>2. a = [ok |-> FALSE, s |-> s]
    BY <1>1, <1>9
  <2> HIDE DEF a
  <2>3. a.s = s /\ ~a.ok
    BY <2>2
  <2>4. a.s.pc = s.pc /\ Grown(P, P, s, a.s, 0, ms) /\ 0 \in Nat
    BY <1>2, <2>3
  <2>5. Provides(P, P, s, a, 0, n, ms)
    BY <2>1, <2>3, <2>4 DEF Provides
  <2>6. QED
    BY <2>1, <2>4, <2>5 DEF a
<1>10. CASE s1.pc[1] # Null
  <2> DEFINE enough == FreeLength(s1) >= more
  <2>1. a.s = s2 /\ (a.ok <=> enough)
    <3>1. a = [ok |-> enough, s |-> s2]
      BY <1>1, <1>10
    <3> HIDE DEF enough, a
    <3>2. QED
      BY <3>1
  <2> HIDE DEF a
  <2>2. PICK R : Grown(P, R, s, s2, k2, ms)
    BY <1>8
  <2>3. k2 \in Nat
    BY <1>2, <1>5, <1>7 DEF Least
  <2>4. enough => k2 = k1 + more
    BY <1>2, <1>5, <1>7 DEF Least
  <2>5. enough => Roomy(s, k2, n)
    <3>1. SUFFICES ASSUME enough PROVE Roomy(s, k2, n)
      OBVIOUS
    <3> HIDE DEF enough
    <3>2. (k1 + more) * BlockSize = k1 * BlockSize + more * BlockSize
      BY <1>4, <1>5, <1>7
    <3>3. more * BlockSize \in Nat /\ more * BlockSize >= n - room
      BY <1>4, <1>5
    <3>4. k1 * BlockSize + (IF s.pc[1] # Null THEN BlockSize - s.pc[2] ELSE 0) = room
      <4>1. CASE s.pc[1] # Null
        <5>1. k1 = 0 /\ s1.pc = s.pc /\ 0 * BlockSize = 0 /\ s1.pc[2] \in Nat
          BY <1>3, <1>4, <4>1 DEF Place
        <5>2. QED
          BY <1>4, <4>1, <5>1
      <4>2. CASE s.pc[1] = Null
        <5>1. p # <<>>
          BY <1>3, <1>10, <4>2
        <5>2. k1 = 1 /\ s1.pc[2] = 0 /\ 1 * BlockSize = BlockSize
          BY <1>3, <1>4, <4>2, <5>1
        <5>3. QED
          BY <1>4, <4>2, <5>2
      <4>3. QED
        BY <4>1, <4>2
    <3> DEFINE rest == IF s.pc[1] # Null THEN BlockSize - s.pc[2] ELSE 0
               x == k1 * BlockSize
               y == more * BlockSize
    <3>5. rest \in Int
      BY <1>4 DEF Place
    <3>6. x \in Nat /\ y \in Nat /\ y >= n - room /\ x + rest = room /\ room \in Int
      BY <1>4, <1>5, <1>7, <3>3, <3>4
    <3>7. k2 * BlockSize = x + y
      BY <2>4, <3>1, <3>2
    <3> HIDE DEF rest, x, y, room, k2
    <3>8. k2 * BlockSize + rest >= n
      BY <3>5, <3>6, <3>7
    <3>9. QED
      BY <3>8 DEF Roomy, rest
  <2>6. ~enough /\ n <= 2 /\ BlockSize >= 2 /\ s.pc[2] < BlockSize => k2 = 0
    <3>1. SUFFICES ASSUME ~enough, n <= 2, BlockSize >= 2, s.pc[2] < BlockSize
                   PROVE  k2 = 0
      OBVIOUS
    <3>2. ~(Len(p) - k1 >= more)
      BY <1>7, <3>1
    <3>3. s1.pc[2] \in Nat /\ s1.pc[2] < BlockSize
      BY <1>3, <1>4, <3>1 DEF Place
    <3>4. more <= 1
      BY <1>4, <1>5, <3>1, <3>3
    <3>5. more = 1 /\ Len(p) = k1
      BY <1>2, <1>5, <1>7, <3>2, <3>4
    <3>6. k1 = 0
      <4>1. SUFFICES ASSUME k1 # 0 PROVE FALSE
        OBVIOUS
      <4>2. s1.pc = <<p[1], 0>>
        BY <1>3, <4>1
      <4>3. room = BlockSize
        BY <1>4, <4>2
      <4>4. n <= room
        BY <1>4, <3>1, <4>3
      <4>5. QED
        BY <1>5, <3>5, <4>4
    <3>7. QED
      BY <3>5, <3>6 DEF Least
  <2>7. s.pc[1] = Null /\ p # <<>> => k2 # 0
    <3>1. SUFFICES ASSUME s.pc[1] = Null, p # <<>> PROVE k2 # 0
      OBVIOUS
    <3>2. k1 = 1
      BY <3>1
    <3>3. QED
      BY <1>2, <1>5, <1>7, <3>2 DEF Least
  <2> HIDE DEF enough, k2
  <2>8. a.s.pc = IF s.pc[1] # Null \/ P[FreeList] = <<>> THEN s.pc
                 ELSE <<P[FreeList][1], 0>>
    BY <1>3, <1>8, <2>1
  <2>9. Provides(P, R, s, a, k2, n, ms)
    BY <1>8, <1>10, <2>1, <2>2, <2>5, <2>6, <2>7 DEF Provides
  <2>10. QED
    BY <2>3, <2>8, <2>9 DEF a
<1>11. QED
  BY <1>9, <1>10

(* m!+ writes one byte, if there is a current block, and steps. *)
LEMMA StoreByteIs ==
  ASSUME NEW s, Memory(s), s.pc \in Place, s.next \in [Block -> Block \cup {Null}],
         NEW x \in Byte
  PROVE  LET t == StoreByte(s, x)
             b == s.pc[1]
             i == s.pc[2]
         IN  /\ Memory(t) /\ t.next = s.next /\ t.free = s.free /\ t.comp = s.comp
             /\ t.count = s.count
             /\ t.pc = IF b # Null /\ i + 1 = BlockSize THEN <<s.next[b], 0>>
                       ELSE <<b, i + 1>>
             /\ t.pc \in Place
             /\ \A d \in Block, j \in 0..BlockSize - 1 :
                  t.data[d][j] = IF d = b /\ j = i THEN x ELSE s.data[d][j]
<1> DEFINE t == StoreByte(s, x)
           b == s.pc[1]
           i == s.pc[2]
           dt == IF b = Null THEN s.data ELSE [s.data EXCEPT ![b][i] = x]
           q == IF b # Null /\ i + 1 = BlockSize THEN <<s.next[b], 0>> ELSE <<b, i + 1>>
<1>1. b \in Block \cup {Null} /\ i \in Nat /\ Null \notin Block /\ s.data \in Data
  BY DEF Place, Memory, Null, Block
<1>2. t = [s EXCEPT !.data = dt, !.pc = q]
  BY DEF StoreByte
<1>3. q \in Place
  <2>1. CASE b # Null /\ i + 1 = BlockSize
    <3>1. s.next[b] \in Block \cup {Null}
      BY <1>1, <2>1
    <3>2. QED
      BY <2>1, <3>1 DEF Place
  <2>2. CASE ~(b # Null /\ i + 1 = BlockSize)
    BY <1>1, <2>2 DEF Place
  <2>3. QED
    BY <2>1, <2>2
<1>4. /\ dt \in Data
      /\ \A d \in Block, j \in 0..BlockSize - 1 :
           dt[d][j] = IF d = b /\ j = i THEN x ELSE s.data[d][j]
  <2>1. CASE b = Null
    BY <1>1, <2>1
  <2>2. CASE b # Null
    <3> DEFINE row == [s.data[b] EXCEPT ![i] = x]
    <3>1. b \in Block /\ s.data[b] \in [0..BlockSize - 1 -> Byte]
      BY <1>1, <2>2 DEF Data
    <3>2. /\ row \in [0..BlockSize - 1 -> Byte]
          /\ \A j \in 0..BlockSize - 1 : row[j] = IF j = i THEN x ELSE s.data[b][j]
      BY <3>1
    <3>3. dt = [s.data EXCEPT ![b] = row]
      BY <2>2
    <3> HIDE DEF row, dt
    <3>4. dt \in Data /\ dt[b] = row /\ \A d \in Block : d # b => dt[d] = s.data[d]
      BY <1>1, <3>1, <3>2, <3>3 DEF Data
    <3>5. QED
      BY <3>2, <3>4
  <2>3. QED
    BY <2>1, <2>2
<1> HIDE DEF t, dt, q
<1>5. t = [next |-> s.next, data |-> dt, free |-> s.free, count |-> s.count,
            comp |-> s.comp, pc |-> q]
  BY <1>2 DEF Memory
<1>6. /\ t.next = s.next /\ t.data = dt /\ t.free = s.free /\ t.comp = s.comp /\ t.pc = q
      /\ t.count = s.count
  BY <1>5
<1>7. Memory(t)
  BY <1>4, <1>5, <1>6 DEF Memory
<1>8. QED
  BY <1>3, <1>4, <1>6, <1>7 DEF t, q

(* save-macro as the sequence of memories that it is defined by. *)
LEMMA SaveRuns ==
  ASSUME NEW s, NEW c, c.len \in Nat
  PROVE  \E a : /\ SaveMacro(s, c) = a[c.len + 1]
                /\ \A i \in 0..c.len + 1 :
                     a[i] = IF i = 0 THEN s ELSE StoreByte(a[i - 1], Bytes(c)[i])
<1> DEFINE n == c.len + 1
           Step(x, i) == StoreByte(x, Bytes(c)[i])
           Is(w, k) == w = [i \in 0..k |-> IF i = 0 THEN s ELSE Step(w[i - 1], i)]
<1>1. SaveMacro(s, c) = (CHOOSE w : Is(w, n))[n]
  BY DEF SaveMacro
<1>2. n \in Nat
  OBVIOUS
<1> HIDE DEF Step, n
<1>3. \E w : Is(w, n)
  <2> DEFINE S == {m \in Nat : ~\E w : Is(w, m)}
  <2>1. S \in SUBSET Nat /\ \A m \in Nat : m \notin S <=> \E w : Is(w, m)
    OBVIOUS
  <2> HIDE DEF S, Is
  <2>2. SUFFICES ASSUME S # {} PROVE FALSE
    BY <1>2, <2>1
  <2>3. PICK m \in S : \A l \in S : m <= l
    BY <2>1, <2>2, LeastNatural
  <2>4. m # 0
    <3>1. Is([i \in 0..0 |-> s], 0)
      BY DEF Is
    <3>2. QED
      BY <2>1, <2>3, <3>1
  <2>5. m - 1 \in Nat /\ m - 1 \notin S /\ m \in Nat
    BY <2>1, <2>3, <2>4
  <2>6. PICK w : Is(w, m - 1)
    BY <2>1, <2>5
  <2> DEFINE v == [i \in 0..m |-> IF i < m THEN w[i] ELSE Step(w[m - 1], m)]
  <2>7. \A i \in 0..m - 1 : w[i] = IF i = 0 THEN s ELSE Step(w[i - 1], i)
    BY <2>5, <2>6 DEF Is
  <2>8. \A i \in 0..m : v[i] = IF i = 0 THEN s ELSE Step(v[i - 1], i)
    BY <2>4, <2>5, <2>7
  <2>9. v = [i \in 0..m |-> IF i = 0 THEN s ELSE Step(v[i - 1], i)]
    BY <2>8
  <2> HIDE DEF v
  <2>10. Is(v, m)
    BY <2>9 DEF Is
  <2>11. QED
    BY <2>1, <2>3, <2>5, <2>10
<1> HIDE DEF Is
<1> DEFINE u == CHOOSE w : Is(w, n)
<1>4. Is(u, n)
  BY <1>3
<1>5. SaveMacro(s, c) = u[n]
  BY <1>1
<1> HIDE DEF u
<1>6. \A i \in 0..n : u[i] = IF i = 0 THEN s ELSE Step(u[i - 1], i)
  BY <1>4 DEF Is
<1>7. QED
  BY <1>5, <1>6 DEF Step, n

\* Commands that append-cmd is given.
Given == Commands \cup {EndCommand}

(* The bytes of a command. *)
LEMMA CommandBytes ==
  ASSUME NEW c \in Given
  PROVE  /\ c.len \in Nat /\ c.len >= 1
         /\ Bytes(c) \in Seq(Byte) /\ Len(Bytes(c)) = c.len + 1
         /\ \A i \in 1..c.len + 1 : Bytes(c)[i] \in Byte
<1>1. c.len \in Nat /\ c.len >= 1
  BY CommandsAssumption DEF Given, EndCommand
<1>2. c.label \in {d.label : d \in Commands} \cup {"end", "zero"}
  BY DEF Given, EndCommand
<1>3. \A i \in 1..c.len + 1 : <<c.label, i - 1>> \in Byte
  BY <1>1, <1>2 DEF Byte
<1> DEFINE n == c.len + 1
<1>4. n \in Nat /\ Bytes(c) = [i \in 1..n |-> <<c.label, i - 1>>]
  BY <1>1 DEF Bytes
<1> HIDE DEF n
<1>5. Bytes(c) \in [1..n -> Byte] /\ \A i \in 1..n : Bytes(c)[i] \in Byte
  BY <1>3, <1>4 DEF n
<1>6. Bytes(c) \in Seq(Byte) /\ Len(Bytes(c)) = n
  BY <1>4, <1>5
<1>7. QED
  BY <1>1, <1>5, <1>6 DEF n

(* save-macro changes no list. *)
LEMMA SaveKeeps ==
  ASSUME NEW s, Memory(s), s.pc \in Place, s.next \in [Block -> Block \cup {Null}],
         NEW c \in Given
  PROVE  LET t == SaveMacro(s, c)
         IN  /\ Memory(t) /\ t.pc \in Place
             /\ t.next = s.next /\ t.free = s.free /\ t.comp = s.comp /\ t.count = s.count
<1>1. PICK a : /\ SaveMacro(s, c) = a[c.len + 1]
               /\ \A i \in 0..c.len + 1 :
                    a[i] = IF i = 0 THEN s ELSE StoreByte(a[i - 1], Bytes(c)[i])
  <2>1. c.len \in Nat
    BY CommandBytes
  <2>2. QED
    BY <2>1, SaveRuns
<1> DEFINE n == c.len + 1
           Fine(t) == /\ Memory(t) /\ t.pc \in Place
                      /\ t.next = s.next /\ t.free = s.free /\ t.comp = s.comp
                      /\ t.count = s.count
           S == {i \in 0..n : ~Fine(a[i])}
<1>2. n \in Nat /\ \A i \in 1..n : Bytes(c)[i] \in Byte
  BY CommandBytes
<1> HIDE DEF n
<1>3. SUFFICES ASSUME S # {} PROVE FALSE
  <2>1. Fine(a[n])
    BY <1>2, <1>3
  <2>2. QED
    BY <1>1, <2>1 DEF n
<1>4. S \in SUBSET Nat
  OBVIOUS
<1> HIDE DEF Fine
<1>5. PICK i \in S : \A j \in S : i <= j
  BY <1>3, <1>4, LeastNatural
<1>6. i # 0
  <2>1. a[0] = s /\ Fine(s)
    BY <1>1, <1>2 DEF n, Fine
  <2>2. QED
    BY <2>1
<1>7. i \in 1..n /\ i - 1 \in 0..n /\ i - 1 \notin S
  BY <1>2, <1>5, <1>6
<1>8. Fine(a[i - 1]) /\ a[i] = StoreByte(a[i - 1], Bytes(c)[i])
  BY <1>1, <1>7 DEF n
<1>9. Fine(a[i])
  <2> DEFINE t == a[i - 1]
             x == Bytes(c)[i]
  <2>1. /\ Memory(t) /\ t.pc \in Place /\ t.next = s.next /\ t.free = s.free /\ t.comp = s.comp
        /\ t.count = s.count
    BY <1>8 DEF Fine
  <2>2. x \in Byte /\ a[i] = StoreByte(t, x) /\ t.next \in [Block -> Block \cup {Null}]
    BY <1>2, <1>7, <1>8, <2>1
  <2> HIDE DEF t, x
  <2>3. LET u == StoreByte(t, x)
        IN  /\ Memory(u) /\ u.pc \in Place
            /\ u.next = t.next /\ u.free = t.free /\ u.comp = t.comp /\ u.count = t.count
    BY <2>1, <2>2, StoreByteIs
  <2>4. QED
    BY <2>1, <2>2, <2>3 DEF Fine
<1>10. QED
  BY <1>9

(* append-cmd allocates k blocks; if there is room it stores the command,  *)
(* which changes no list.  m is the memory between the two.                *)
LEMMA AppendEffect ==
  ASSUME NEW P, Pool(P, next, free, comp, macros), freeCount = Len(P[FreeList]),
         data \in Data, compPc \in Place, NEW c \in Given
  PROVE  LET a == AppendCmd(c)
         IN  \E k \in Nat : \E Q, m :
               /\ Grown(P, Q, State, m, k, macros)
               /\ a.s = IF a.ok THEN SaveMacro(m, c) ELSE m
               /\ PoolOf(Q, a.s, macros) /\ Memory(a.s) /\ a.s.pc \in Place
               /\ a.ok => learning /\ m.pc[1] # Null /\ Roomy(State, k, c.len + 1)
               /\ m.pc = IF compPc[1] # Null \/ P[FreeList] = <<>> \/ k = 0 THEN compPc
                         ELSE <<P[FreeList][1], 0>>
               /\ ~learning => k = 0
               /\ ~a.ok /\ c.len <= 1 /\ BlockSize >= 2 /\ compPc[2] < BlockSize => k = 0
<1> DEFINE a == AppendCmd(c)
<1>1. /\ State.next = next /\ State.data = data /\ State.free = free
      /\ State.comp = comp /\ State.pc = compPc /\ State.count = freeCount
      /\ Memory(State)
  BY DEF State, Memory
<1>2. PoolOf(P, State, macros) /\ State.pc \in Place
  BY <1>1 DEF PoolOf
<1> HIDE DEF State
<1>3. Grown(P, P, State, State, 0, macros)
  BY <1>1, <1>2, GrownByNone
<1>4. c.len \in Nat
  BY CommandBytes
<1>5. CASE c.len >= MaxLen \/ ~learning
  <2>1. a = [ok |-> FALSE, s |-> State]
    BY <1>5 DEF AppendCmd
  <2> HIDE DEF a
  <2>2. ~a.ok /\ a.s = State
    BY <2>1
  <2>3. /\ Grown(P, P, State, State, 0, macros)
        /\ a.s = IF a.ok THEN SaveMacro(State, c) ELSE State
        /\ PoolOf(P, a.s, macros) /\ Memory(a.s) /\ a.s.pc \in Place
    BY <1>1, <1>2, <1>3, <2>2
  <2>4. 0 \in Nat
    OBVIOUS
  <2>5. QED
    BY <1>1, <2>2, <2>3, <2>4 DEF a
<1>6. CASE ~(c.len >= MaxLen \/ ~learning)
  <2> DEFINE r == AllocMacro(State, c.len + 1)
             m == r.s
  <2>1. a = IF r.ok THEN [ok |-> TRUE, s |-> SaveMacro(m, c)] ELSE r
    BY <1>6 DEF AppendCmd
  <2>2. c.len + 1 \in Nat
    BY <1>4
  <2> HIDE DEF r
  <2>3. /\ m.pc = IF compPc[1] # Null \/ P[FreeList] = <<>> THEN compPc
                  ELSE <<P[FreeList][1], 0>>
        /\ \E k \in Nat : \E Q : Provides(P, Q, State, r, k, c.len + 1, macros)
    <3> DEFINE n == c.len + 1
               s == State
    <3>1. r = AllocMacro(s, n) /\ n \in Nat /\ s.pc = compPc
      BY <1>1, <2>2 DEF r
    <3>2. PoolOf(P, s, macros) /\ Memory(s) /\ s.pc \in Place
      BY <1>1, <1>2
    <3> HIDE DEF n, s
    <3>3. LET b == AllocMacro(s, n)
          IN  /\ b.s.pc = IF s.pc[1] # Null \/ P[FreeList] = <<>> THEN s.pc
                          ELSE <<P[FreeList][1], 0>>
              /\ \E k \in Nat : \E Q : Provides(P, Q, s, b, k, n, macros)
      BY <3>1, <3>2, AllocMacroGrows
    <3>4. QED
      BY <3>1, <3>3 DEF n, s
  <2>4. PICK k \in Nat : \E Q : Provides(P, Q, State, r, k, c.len + 1, macros)
    BY <2>3
  <2>5. PICK Q : Provides(P, Q, State, r, k, c.len + 1, macros)
    BY <2>4
  <2>6. /\ Grown(P, Q, State, m, k, macros)
        /\ compPc[1] = Null /\ P[FreeList] # <<>> => k # 0
        /\ r.ok => m.pc[1] # Null /\ Roomy(State, k, c.len + 1)
        /\ ~r.ok /\ c.len + 1 <= 2 /\ BlockSize >= 2 /\ compPc[2] < BlockSize => k = 0
    BY <1>1, <2>5 DEF Provides
  <2> HIDE DEF m
  <2>7. Memory(m) /\ PoolOf(Q, m, macros)
    BY <2>6 DEF Grown
  <2>8. m.pc \in Place
    <3>1. P[FreeList] \in Seq(Block)
      BY Holders DEF Pool, Lists, Apart
    <3>2. P[FreeList] # <<>> => P[FreeList][1] \in Block
      BY <3>1, FirstNull
    <3>3. QED
      BY <2>3, <3>2 DEF Place
  <2>9. m.next \in [Block -> Block \cup {Null}]
    BY <2>7 DEF PoolOf, Pool, Lists
  <2>10. /\ LET t == SaveMacro(m, c)
           IN  /\ Memory(t) /\ t.pc \in Place
               /\ t.next = m.next /\ t.free = m.free /\ t.comp = m.comp /\ t.count = m.count
    BY <2>7, <2>8, <2>9, SaveKeeps
  <2> DEFINE t == SaveMacro(m, c)
  <2>11. Memory(t) /\ t.pc \in Place /\ PoolOf(Q, t, macros)
    BY <2>7, <2>10 DEF PoolOf
  <2> HIDE DEF t
  <2>12. m.pc = IF compPc[1] # Null \/ P[FreeList] = <<>> \/ k = 0 THEN compPc
                ELSE <<P[FreeList][1], 0>>
    <3>1. compPc[1] = Null /\ P[FreeList] # <<>> => k # 0
      BY <2>6
    <3>2. QED
      BY <2>3, <3>1
  <2>13. CASE r.ok
    <3>1. a = [ok |-> TRUE, s |-> t]
      BY <2>1, <2>13 DEF r, t
    <3> HIDE DEF a
    <3>2. a.ok /\ a.s = t
      BY <3>1
    <3>3. a.s = IF a.ok THEN SaveMacro(m, c) ELSE m
      BY <3>2 DEF t
    <3>4. m.pc[1] # Null /\ Roomy(State, k, c.len + 1) /\ learning
      BY <1>6, <2>6, <2>13
    <3>5. PoolOf(Q, a.s, macros) /\ Memory(a.s) /\ a.s.pc \in Place
      BY <2>11, <3>2
    <3>6. QED
      BY <1>6, <2>6, <2>12, <3>2, <3>3, <3>4, <3>5 DEF a
  <2>14. CASE ~r.ok
    <3>1. a = r
      BY <2>1, <2>14 DEF r
    <3> HIDE DEF a
    <3>2. ~a.ok /\ a.s = m
      BY <2>14, <3>1 DEF m
    <3>3. PoolOf(Q, a.s, macros) /\ Memory(a.s) /\ a.s.pc \in Place
      BY <2>7, <2>8, <3>2
    <3>4. c.len <= 1 /\ BlockSize >= 2 /\ compPc[2] < BlockSize => k = 0
      BY <1>1, <1>4, <2>6, <2>14
    <3>5. QED
      BY <1>6, <2>6, <2>12, <3>2, <3>3, <3>4 DEF a
  <2>15. QED
    BY <2>13, <2>14
<1>7. QED
  BY <1>5, <1>6
-----------------------------------------------------------------------------
(* The invariant: the blocks are apart, counted, and nobody learns them    *)
(* outside a definition; what is archived was so when it was saved.        *)

Nothing == [head |-> Null, tail |-> Null]
Firsts == [MacroId -> Block \cup {Null}]

Simple ==
  /\ data \in Data /\ compPc \in Place /\ compId \in MacroId /\ learning \in BOOLEAN
  /\ macros \in Firsts /\ archive.good \in BOOLEAN
  /\ archive.good => archive.data \in Data /\ archive.macros \in Firsts
Pooled(P) ==
  /\ Pool(P, next, free, comp, macros) /\ freeCount = Len(P[FreeList])
  /\ ~learning => P[Compiled] = <<>>
Archived(P) ==
  /\ Pool(P, archive.next, archive.free, Nothing, archive.macros)
  /\ archive.freeCount = Len(P[FreeList])

PoolInv == Simple /\ (\E P : Pooled(P)) /\ (archive.good => \E P : Archived(P))

(* A queue that is emptied holds nothing. *)
LEMMA Emptied ==
  ASSUME NEW q \in Header
  PROVE  Queue(EmptyQueue(q), <<>>)
  BY DEF Queue, EmptyQueue, Header, First

(* The memory after release-mac-blocks. *)
LEMMA ReleaseIs ==
  ASSUME NEW s, Memory(s), NEW b, b # Null
  PROVE  LET t == Release(s, b)
         IN  /\ t.next = AppendLinks(s.next, s.free, b)
             /\ t.free = AppendHeader(s.free, b, Last(Chain(s.next, b, NBlocks)))
             /\ t.data = s.data /\ t.comp = s.comp /\ t.pc = s.pc
             /\ t.count = s.count + Len(Chain(s.next, b, NBlocks))
<1> DEFINE nx == AppendLinks(s.next, s.free, b)
           fr == AppendHeader(s.free, b, Last(Chain(s.next, b, NBlocks)))
           l == Len(Chain(s.next, b, NBlocks))
           t == Release(s, b)
<1>1. t = [s EXCEPT !.next = nx, !.free = fr, !.count = @ + l]
  BY DEF Release
<1> HIDE DEF nx, fr, l, t
<1>2. t = [next |-> nx, data |-> s.data, free |-> fr, count |-> s.count + l,
            comp |-> s.comp, pc |-> s.pc]
  BY <1>1 DEF Memory
<1>3. QED
  BY <1>2 DEF nx, fr, l, t

(* An uplinked command leaves the lists as append-cmd made them. *)
LEMMA AppendStep ==
  ASSUME Simple, NEW P, Pooled(P), NEW c \in Commands, Append1(c),
         NEW k, NEW Q, Moves(P, Q, FreeList, Compiled, k), ~learning => k = 0,
         PoolOf(Q, AppendCmd(c).s, macros), Memory(AppendCmd(c).s),
         AppendCmd(c).s.pc \in Place
  PROVE  Simple' /\ Pooled(Q)'
<1> DEFINE a == AppendCmd(c)
<1>1. /\ next' = a.s.next /\ data' = a.s.data /\ free' = a.s.free
      /\ comp' = a.s.comp /\ compPc' = a.s.pc
      /\ freeCount' = a.s.count
      /\ UNCHANGED <<macros, compId, learning, archive, taught>>
  BY DEF Append1
<1> HIDE DEF a
<1>2. Memory(a.s) /\ PoolOf(Q, a.s, macros) /\ a.s.pc \in Place
  BY DEF a
<1>3. Simple'
  BY <1>1, <1>2 DEF Simple, Memory
<1>4. Pool(Q, next', free', comp', macros')
  BY <1>1, <1>2 DEF PoolOf
<1>5. freeCount' = Len(Q[FreeList])
  BY <1>1, <1>2 DEF PoolOf
<1>6. ~learning' => Q[Compiled] = <<>>
  <2>1. SUFFICES ASSUME ~learning PROVE Q[Compiled] = <<>>
    BY <1>1
  <2>2. Len(Q[Compiled]) = Len(P[Compiled]) + k /\ k = 0 /\ P[Compiled] = <<>>
    BY <2>1 DEF Moves, Pooled
  <2>3. Len(Q[Compiled]) = 0 /\ Q[Compiled] \in Seq(Block)
    BY <2>2, Holders DEF Moves
  <2>4. QED
    BY <2>3, FirstNull
<1>7. QED
  BY <1>3, <1>4, <1>5, <1>6 DEF Pooled

\* Where the blocks are after the end of a definition, with Q before it and
\* R after it: the macro is installed and the old one released, or what was
\* compiled is.
Ended(Q, R, ok, id) ==
  /\ R[Compiled] = <<>>
  /\ ok => /\ R[Macro(id)] = Q[Compiled]
           /\ \A m \in MacroId \ {id} : R[Macro(m)] = Q[Macro(m)]
           /\ Returned(Q, R, Q[Macro(id)])
  /\ ~ok => /\ \A m \in MacroId : R[Macro(m)] = Q[Macro(m)]
            /\ Returned(Q, R, Q[Compiled])

(* The macro m is replaced by what was compiled, and its old blocks are put  *)
(* on the free list.                                                       *)
LEMMA PoolReplaced ==
  ASSUME NEW Q, NEW nx, NEW fr, NEW cm, NEW ms, Pool(Q, nx, fr, cm, ms), ms \in Firsts,
         NEW m \in MacroId, NEW nx2, NEW fr2,
         Q[Macro(m)] = <<>> => nx2 = nx /\ fr2 = fr,
         Q[Macro(m)] # <<>> =>
           /\ nx2 = AppendLinks(nx, fr, First(Q[Macro(m)]))
           /\ fr2 = AppendHeader(fr, First(Q[Macro(m)]), Q[Macro(m)][Len(Q[Macro(m)])])
  PROVE  \E R : /\ Pool(R, nx2, fr2, EmptyQueue(cm), [ms EXCEPT ![m] = cm.head])
                /\ Ended(Q, R, TRUE, m)
<1> DEFINE held == Q[Macro(m)]
<1>1. /\ Lists(Q, nx) /\ Queue(fr, Q[FreeList]) /\ Queue(cm, Q[Compiled])
      /\ \A l \in MacroId : ms[l] = First(Q[Macro(l)])
  BY DEF Pool
<1>2. Macro(m) \in Holder \ {FreeList}
  BY Holders
<1>3. \E Q2 : /\ Lists(Q2, nx2) /\ Queue(fr2, Q2[FreeList])
              /\ Q2[Macro(m)] = <<>> /\ Q2[Compiled] = Q[Compiled]
              /\ \A l \in MacroId \ {m} : Q2[Macro(l)] = Q[Macro(l)]
              /\ Returned(Q, Q2, held)
  <2>1. CASE held = <<>>
    <3>1. Len(Q[FreeList]) \in Nat /\ Len(held) = 0
      BY <1>1, <2>1, Holders, ListRead
    <3>2. Returned(Q, Q, held)
      BY <3>1 DEF Returned
    <3>3. QED
      BY <1>1, <2>1, <3>2
  <2>2. CASE held # <<>>
    <3>1. PICK Q2 : /\ Moves(Q, Q2, Macro(m), FreeList, Len(held))
                    /\ Q2[Macro(m)] = <<>>
                    /\ Lists(Q2, AppendLinks(nx, fr, First(held)))
                    /\ Queue(AppendHeader(fr, First(held), held[Len(held)]), Q2[FreeList])
      BY <1>1, <1>2, <2>2, PoolRelease
    <3>2. Lists(Q2, nx2) /\ Queue(fr2, Q2[FreeList])
      BY <2>2, <3>1
    <3>3. /\ Q2[Compiled] = Q[Compiled]
          /\ \A l \in MacroId \ {m} : Q2[Macro(l)] = Q[Macro(l)]
      BY <3>1, Holders DEF Moves
    <3>4. Returned(Q, Q2, held)
      BY <3>1 DEF Moves, Returned
    <3>5. QED
      BY <3>1, <3>2, <3>3, <3>4
  <2>3. QED
    BY <2>1, <2>2
<1>4. PICK Q2 : /\ Lists(Q2, nx2) /\ Queue(fr2, Q2[FreeList])
                /\ Q2[Macro(m)] = <<>> /\ Q2[Compiled] = Q[Compiled]
                /\ \A l \in MacroId \ {m} : Q2[Macro(l)] = Q[Macro(l)]
                /\ Returned(Q, Q2, held)
  BY <1>3
<1>5. /\ Lists(Q2, nx2) /\ Queue(fr2, Q2[FreeList]) /\ Queue(cm, Q2[Compiled])
      /\ Q2[Macro(m)] = <<>> /\ ms \in [MacroId -> Block \cup {Null}]
      /\ \A l \in MacroId \ {m} : ms[l] = First(Q2[Macro(l)])
  BY <1>1, <1>4 DEF Firsts
<1>6. PICK R : Installed(Q2, R, nx2, fr2, cm, ms, m)
  BY <1>5, PoolInstalled
<1>7. Ended(Q, R, TRUE, m)
  BY <1>4, <1>6 DEF Ended, Returned, Installed
<1>8. QED
  BY <1>6, <1>7 DEF Installed

(* The end of a definition, after append-cmd of the end command. *)
LEMMA EndStep ==
  ASSUME Simple, NEW P, Pooled(P), EndDef, NEW Q,
         PoolOf(Q, AppendCmd(EndCommand).s, macros), Memory(AppendCmd(EndCommand).s),
         AppendCmd(EndCommand).s.pc \in Place
  PROVE  Simple' /\ \E R : Pooled(R)' /\ Ended(Q, R, AppendCmd(EndCommand).ok, compId)
<1> DEFINE a == AppendCmd(EndCommand)
           old == IF a.ok THEN macros[compId] ELSE a.s.comp.head
           s == Release(a.s, old)
           held == IF a.ok THEN Q[Macro(compId)] ELSE Q[Compiled]
<1>1. /\ next' = s.next /\ data' = s.data /\ free' = s.free /\ compPc' = s.pc
      /\ freeCount' = s.count
      /\ macros' = IF a.ok THEN [macros EXCEPT ![compId] = a.s.comp.head] ELSE macros
      /\ comp' = EmptyQueue(s.comp)
      /\ learning' = FALSE /\ UNCHANGED <<compId, archive>>
  BY DEF EndDef
<1>2. Memory(a.s) /\ PoolOf(Q, a.s, macros) /\ a.s.pc \in Place
  OBVIOUS
<1> HIDE DEF a
<1>3. /\ Lists(Q, a.s.next) /\ Queue(a.s.free, Q[FreeList]) /\ Queue(a.s.comp, Q[Compiled])
      /\ \A m \in MacroId : macros[m] = First(Q[Macro(m)])
      /\ compId \in MacroId /\ Macro(compId) \in Holder /\ macros \in Firsts
      /\ a.s.comp \in Header
  BY <1>2, Holders DEF PoolOf, Pool, Simple, Queue
<1>4. /\ held \in Seq(Block) /\ old = First(held) /\ Len(held) \in Nat
      /\ old = Null <=> held = <<>>
      /\ Chain(a.s.next, old, NBlocks) = held
  <2>1. CASE a.ok
    <3>1. held = Q[Macro(compId)] /\ old = First(Q[Macro(compId)])
      BY <1>3, <2>1
    <3>2. QED
      BY <1>3, <3>1, ListRead, FirstNull
  <2>2. CASE ~a.ok
    <3>1. held = Q[Compiled] /\ old = First(Q[Compiled])
      BY <1>3, <2>2 DEF Queue
    <3>2. QED
      BY <1>3, <3>1, Holders, ListRead, FirstNull
  <2>3. QED
    BY <2>1, <2>2
<1>5. /\ held = <<>> => s = a.s
      /\ held # <<>> =>
           /\ s.next = AppendLinks(a.s.next, a.s.free, First(held))
           /\ s.free = AppendHeader(a.s.free, First(held), held[Len(held)])
      /\ s.data = a.s.data /\ s.comp = a.s.comp /\ s.pc = a.s.pc
  <2>1. CASE held = <<>>
    BY <1>4, <2>1 DEF Release
  <2>2. CASE held # <<>>
    <3>1. old # Null /\ Last(Chain(a.s.next, old, NBlocks)) = held[Len(held)]
      BY <1>4, <2>2 DEF Last
    <3>2. QED
      BY <1>2, <1>4, <2>2, <3>1, ReleaseIs
  <2>3. QED
    BY <2>1, <2>2
<1>6. s.count = Len(Q[FreeList]) + Len(held)
  <2>1. a.s.count = Len(Q[FreeList]) /\ Len(Q[FreeList]) \in Nat
    BY <1>2, <1>3, Holders, ListRead DEF PoolOf
  <2>2. CASE held = <<>>
    <3>1. Len(held) = 0 /\ s.count = a.s.count
      BY <1>5, <2>2
    <3> HIDE DEF s, held
    <3>2. QED
      BY <2>1, <3>1
  <2>3. CASE held # <<>>
    <3>1. old # Null
      BY <1>4, <2>3
    <3>2. s.count = a.s.count + Len(Chain(a.s.next, old, NBlocks))
      BY <1>2, <3>1, ReleaseIs
    <3>3. QED
      BY <1>4, <2>1, <3>2
  <2>4. QED
    BY <2>2, <2>3
<1> HIDE DEF s, old, held
<1>7. a.s.comp.head \in Block \cup {Null}
  BY <1>3 DEF Header
<1>8. Simple'
  <2>1. macros' \in Firsts
    BY <1>1, <1>3, <1>7 DEF Firsts
  <2>2. QED
    BY <1>1, <1>2, <1>5, <2>1 DEF Simple, Memory
<1>9. \E R : /\ Pool(R, s.next, s.free, EmptyQueue(a.s.comp), macros')
             /\ Ended(Q, R, a.ok, compId) /\ Returned(Q, R, held)
  <2>1. CASE a.ok
    <3>1. held = Q[Macro(compId)] /\ macros' = [macros EXCEPT ![compId] = a.s.comp.head]
      BY <1>1, <2>1 DEF held
    <3>2. Pool(Q, a.s.next, a.s.free, a.s.comp, macros)
      BY <1>2 DEF PoolOf
    <3>3. PICK R : /\ Pool(R, s.next, s.free, EmptyQueue(a.s.comp),
                            [macros EXCEPT ![compId] = a.s.comp.head])
                   /\ Ended(Q, R, TRUE, compId)
      BY <1>3, <1>5, <3>1, <3>2, PoolReplaced
    <3>4. Ended(Q, R, a.ok, compId) /\ Returned(Q, R, held)
      BY <2>1, <3>1, <3>3 DEF Ended
    <3>5. QED
      BY <3>1, <3>3, <3>4
  <2>2. CASE ~a.ok
    <3>1. held = Q[Compiled] /\ macros' = macros
      BY <1>1, <2>2 DEF held
    <3>2. CASE held = <<>>
      <4>1. Pool(Q, s.next, s.free, EmptyQueue(a.s.comp), macros')
        BY <1>3, <1>5, <3>1, <3>2, Emptied DEF Pool
      <4>2. Len(Q[FreeList]) \in Nat /\ Len(held) = 0
        BY <1>3, <3>2, Holders, ListRead
      <4>3. Returned(Q, Q, held)
        BY <4>2 DEF Returned
      <4>4. Ended(Q, Q, a.ok, compId)
        BY <2>2, <3>1, <3>2, <4>3 DEF Ended
      <4>5. QED
        BY <4>1, <4>3, <4>4
    <3>3. CASE held # <<>>
      <4>1. a.s.comp.head = First(held) /\ Pool(Q, a.s.next, a.s.free, a.s.comp, macros)
        BY <1>2, <1>3, <3>1 DEF Queue, PoolOf
      <4>2. PICK R : /\ Pool(R, s.next, s.free, EmptyQueue(a.s.comp), macros)
                     /\ R[Compiled] = <<>> /\ \A m \in MacroId : R[Macro(m)] = Q[Macro(m)]
                     /\ Returned(Q, R, held)
        BY <1>5, <3>1, <3>3, <4>1, PoolDropped
      <4>3. Ended(Q, R, a.ok, compId)
        BY <2>2, <3>1, <4>2 DEF Ended
      <4>4. QED
        BY <3>1, <4>2, <4>3
    <3>4. QED
      BY <3>2, <3>3
  <2>3. QED
    BY <2>1, <2>2
<1>10. PICK R : /\ Pool(R, s.next, s.free, EmptyQueue(a.s.comp), macros')
               /\ Ended(Q, R, a.ok, compId) /\ Returned(Q, R, held)
  BY <1>9
<1>11. Pool(R, next', free', comp', macros')
  BY <1>1, <1>5, <1>10
<1>12. freeCount' = Len(R[FreeList])
  BY <1>1, <1>6, <1>10 DEF Returned
<1>13. Pooled(R)'
  <2>1. R[Compiled] = <<>>
    BY <1>10 DEF Ended
  <2>2. QED
    BY <1>11, <1>12, <2>1 DEF Pooled
<1>14. QED
  BY <1>8, <1>10, <1>13 DEF a
-----------------------------------------------------------------------------
(* init-macro puts every block on the free list. *)
LEMMA PoolAtInit ==
  /\ \E P : /\ Pool(P, InitPool.next, InitPool.free, Nothing, [m \in MacroId |-> Null])
            /\ Len(P[FreeList]) = NBlocks /\ P[Compiled] = <<>>
  /\ InitPool.data \in Data /\ [m \in MacroId |-> Null] \in Firsts
<1> DEFINE all == [i \in 1..NBlocks |-> i]
           P == [o \in Holder |-> IF o = FreeList THEN all ELSE <<>>]
           nx == [b \in Block |-> IF b = NBlocks THEN Null ELSE b + 1]
<1>1. NBlocks \in Nat /\ NBlocks # 0 /\ Block = 1..NBlocks /\ Null = 0
  BY SizesAssumption DEF Block, Null
<1>2. /\ all \in Seq(Block) /\ Len(all) = NBlocks /\ \A i \in 1..NBlocks : all[i] = i
      /\ all # <<>>
  BY <1>1
<1> HIDE DEF all
<1>3. /\ P[FreeList] = all /\ P[Compiled] = <<>> /\ \A m \in MacroId : P[Macro(m)] = <<>>
      /\ \A o \in Holder \ {FreeList} : P[o] = <<>>
      /\ P \in [Holder -> Seq(Block)]
  <2>1. /\ \A o \in Holder : P[o] = IF o = FreeList THEN all ELSE <<>>
        /\ P \in [Holder -> Seq(Block)]
    BY <1>2
  <2> HIDE DEF P
  <2>2. QED
    BY <2>1, Holders
<1> HIDE DEF P
<1>4. Apart(P)
  <2>1. \A b \in Block : \E o \in Holder : \E i \in 1..Len(P[o]) : P[o][i] = b
    <3> SUFFICES ASSUME NEW b \in Block
                 PROVE  \E o \in Holder : \E i \in 1..Len(P[o]) : P[o][i] = b
      OBVIOUS
    <3>1. b \in 1..Len(P[FreeList]) /\ P[FreeList][b] = b
      BY <1>1, <1>2, <1>3
    <3>2. QED
      BY <3>1, Holders
  <2>2. \A o, q \in Holder : \A i \in 1..Len(P[o]), j \in 1..Len(P[q]) :
          P[o][i] = P[q][j] => o = q /\ i = j
    <3> SUFFICES ASSUME NEW o \in Holder, NEW q \in Holder, NEW i \in 1..Len(P[o]),
                        NEW j \in 1..Len(P[q]), P[o][i] = P[q][j]
                 PROVE  o = q /\ i = j
      OBVIOUS
    <3>1. o = FreeList /\ q = FreeList
      <4>1. Len(<<>>) = 0
        OBVIOUS
      <4>2. QED
        BY <1>3, <4>1
    <3>2. QED
      BY <1>2, <1>3, <3>1
  <2>3. QED
    BY <1>3, <2>1, <2>2 DEF Apart
<1>5. nx \in [Block -> Block \cup {Null}]
  BY <1>1
<1>6. \A o \in Holder : Chained(nx, P[o])
  <2>1. Chained(nx, all)
    BY <1>1, <1>2 DEF Chained
  <2>2. Chained(nx, <<>>)
    BY DEF Chained
  <2>3. QED
    BY <1>3, <2>1, <2>2
<1>7. InitPool.next = nx /\ InitPool.free = [head |-> 1, tail |-> NBlocks]
  BY DEF InitPool
<1>8. Lists(P, InitPool.next)
  BY <1>4, <1>5, <1>6, <1>7 DEF Lists
<1>9. Queue(InitPool.free, P[FreeList])
  <2>1. 1 \in Block /\ NBlocks \in Block
    BY <1>1
  <2>2. [head |-> 1, tail |-> NBlocks] \in Header
    BY <2>1 DEF Header
  <2>3. all[1] = 1 /\ all[Len(all)] = NBlocks /\ First(all) = all[1]
    BY <1>1, <1>2 DEF First
  <2>4. QED
    BY <1>3, <1>7, <2>2, <2>3 DEF Queue
<1>10. Queue(Nothing, <<>>)
  BY DEF Queue, Nothing, Header, First
<1>11. \A m \in MacroId : [l \in MacroId |-> Null][m] = First(P[Macro(m)])
  BY <1>3 DEF First
<1>12. Pool(P, InitPool.next, InitPool.free, Nothing, [m \in MacroId |-> Null])
  BY <1>3, <1>8, <1>9, <1>10, <1>11 DEF Pool
<1>13. InitPool.data \in Data
  BY ZeroBytes DEF InitPool, Data, ZeroBlock
<1>14. [m \in MacroId |-> Null] \in Firsts
  BY DEF Firsts
<1>15. QED
  BY <1>2, <1>3, <1>12, <1>13, <1>14

(* A compiler that learns nothing holds nothing, whatever tail is left in   *)
(* its queue.                                                              *)
LEMMA PoolNothing ==
  ASSUME NEW P, NEW nx, NEW fr, NEW cm, NEW ms, Pool(P, nx, fr, cm, ms), P[Compiled] = <<>>
  PROVE  Pool(P, nx, fr, Nothing, ms) /\ Queue(cm, <<>>)
<1>1. Queue(Nothing, <<>>)
  BY DEF Queue, Nothing, Header, First
<1>2. QED
  BY <1>1 DEF Pool

(* The invariant holds at the start. *)
LEMMA PoolInit == Init => PoolInv
<1> SUFFICES ASSUME Init PROVE PoolInv
  OBVIOUS
<1>1. PICK P : /\ Pool(P, InitPool.next, InitPool.free, Nothing, [m \in MacroId |-> Null])
               /\ Len(P[FreeList]) = NBlocks /\ P[Compiled] = <<>>
  BY PoolAtInit
<1>2. Pool(P, next, free, comp, macros) /\ freeCount = NBlocks
  BY <1>1 DEF Init, Nothing
<1>3. Pooled(P)
  BY <1>1, <1>2 DEF Pooled
<1>4. archive.good = FALSE
  BY DEF Init, NoArchive
<1>5. Simple
  BY <1>4, PoolAtInit DEF Init, Simple, Place
<1>6. QED
  BY <1>3, <1>4, <1>5 DEF PoolInv

(* And the lists are those of the start after a reset. *)
LEMMA ResetLists ==
  ASSUME Simple, NEW midSave \in BOOLEAN, Reset(midSave)
  PROVE  /\ Simple' /\ \E P : Pooled(P)'
         /\ archive'.good => archive' = archive
<1>1. PICK P : /\ Pool(P, InitPool.next, InitPool.free, Nothing, [m \in MacroId |-> Null])
               /\ Len(P[FreeList]) = NBlocks /\ P[Compiled] = <<>>
  BY PoolAtInit
<1>2. /\ Pool(P, next', free', comp', macros') /\ freeCount' = NBlocks /\ learning' = FALSE
      /\ data' \in Data /\ macros' \in Firsts /\ compPc' \in Place
  BY <1>1, PoolAtInit DEF Reset, Nothing, Place
<1>3. Pooled(P)'
  BY <1>1, <1>2 DEF Pooled
<1>4. compId' \in MacroId /\ (archive' = archive \/ archive'.good = FALSE)
  BY DEF Reset, Simple, NoArchive
<1>5. Simple'
  BY <1>2, <1>4 DEF Simple
<1>6. QED
  BY <1>3, <1>4, <1>5

(* A save outside a definition keeps lists that hold all the blocks. *)
LEMMA SaveLists ==
  ASSUME TRUE \notin ArchiveWhen, Simple, NEW P, Pooled(P), SaveMacros
  PROVE  Simple' /\ Pooled(P)' /\ Archived(P)'
<1>1. learning = FALSE /\ UNCHANGED <<pool, compiler, history>>
  BY DEF SaveMacros, Simple
<1>2. /\ archive'.good = TRUE /\ archive'.next = next /\ archive'.data = data
      /\ archive'.free = free /\ archive'.freeCount = freeCount
      /\ archive'.macros = macros
  BY DEF SaveMacros
<1>3. Pool(P, next, free, Nothing, macros) /\ freeCount = Len(P[FreeList])
  BY <1>1, PoolNothing DEF Pooled
<1>4. Archived(P)'
  BY <1>2, <1>3 DEF Archived
<1>5. Pooled(P)' /\ Simple'
  BY <1>1, <1>2 DEF Pooled, Simple, pool, compiler
<1>6. QED
  BY <1>4, <1>5

(* A restore outside a definition brings such lists back. *)
LEMMA RestoreLists ==
  ASSUME TRUE \notin ArchiveWhen, Simple, NEW P, Pooled(P), RestoreMacros
  PROVE  /\ Simple' /\ (~archive.good => Pooled(P)')
         /\ archive.good => \A Q : Archived(Q) => Pooled(Q)'
<1>1. learning = FALSE /\ UNCHANGED <<compiler, archive>>
  BY DEF RestoreMacros, Simple
<1>2. Simple' /\ (~archive.good => Pooled(P)')
  <2>1. CASE ~archive.good
    <3>1. UNCHANGED pool
      BY <2>1 DEF RestoreMacros
    <3>2. QED
      BY <1>1, <3>1 DEF Pooled, Simple, pool, compiler
  <2>2. CASE archive.good
    <3>1. data' = archive.data /\ macros' = archive.macros
      BY <2>2 DEF RestoreMacros
    <3>2. QED
      BY <1>1, <2>2, <3>1 DEF Simple, compiler
  <2>3. QED
    BY <2>1, <2>2
<1>3. ASSUME NEW Q, archive.good, Archived(Q) PROVE Pooled(Q)'
  <2>1. /\ next' = archive.next /\ data' = archive.data /\ free' = archive.free
        /\ freeCount' = archive.freeCount /\ macros' = archive.macros
    BY <1>3 DEF RestoreMacros
  <2>2. Q[Compiled] = <<>>
    <3>1. /\ Q[Compiled] \in Seq(Block) /\ Nothing.head = First(Q[Compiled])
          /\ Nothing.head = Null
      BY <1>3, Holders DEF Archived, Pool, Lists, Apart, Queue, Nothing
    <3>2. QED
      BY <3>1, FirstNull
  <2>3. Queue(comp, <<>>)
    BY <1>1, PoolNothing DEF Pooled
  <2>4. Pool(Q, next', free', comp', macros') /\ freeCount' = Len(Q[FreeList])
    BY <1>1, <1>3, <2>1, <2>2, <2>3 DEF Archived, Pool, compiler
  <2>5. QED
    BY <2>2, <2>4 DEF Pooled
<1>4. QED
  BY <1>2, <1>3

(* The start of a definition, which finds nothing compiled. *)
LEMMA StartLists ==
  ASSUME Simple, NEW P, Pooled(P), NEW m \in MacroId, StartDef(m)
  PROVE  Simple' /\ Pooled(P)'
<1>1. /\ UNCHANGED <<pool, comp, archive>> /\ (learning => learning')
      /\ compPc' \in {compPc, <<Null, 0>>} /\ compId' \in {compId, m}
      /\ learning' \in {learning, TRUE}
  BY DEF StartDef
<1>2. Pooled(P)'
  BY <1>1 DEF Pooled, pool, Simple
<1>3. compPc' \in Place
  BY <1>1 DEF Simple, Place
<1>4. Simple'
  BY <1>1, <1>3 DEF Simple, pool
<1>5. QED
  BY <1>2, <1>4

(* An uplinked command. *)
LEMMA PoolAppend ==
  ASSUME PoolInv, NEW c \in Commands, Append1(c)
  PROVE  PoolInv'
<1>1. PICK P : Pooled(P)
  BY DEF PoolInv
<1>2. /\ Pool(P, next, free, comp, macros) /\ freeCount = Len(P[FreeList])
      /\ data \in Data /\ compPc \in Place /\ c \in Given
  BY <1>1 DEF Pooled, PoolInv, Simple, Given
<1>3. \E k \in Nat : \E Q :
        /\ Moves(P, Q, FreeList, Compiled, k) /\ (~learning => k = 0)
        /\ PoolOf(Q, AppendCmd(c).s, macros) /\ Memory(AppendCmd(c).s)
        /\ AppendCmd(c).s.pc \in Place
  BY <1>2, AppendEffect DEF Grown
<1>4. Simple' /\ \E Q : Pooled(Q)'
  BY <1>1, <1>3, AppendStep DEF PoolInv
<1>5. archive' = archive
  BY DEF Append1
<1>6. QED
  BY <1>4, <1>5 DEF PoolInv, Archived

(* The end of a definition. *)
LEMMA PoolEnd ==
  ASSUME PoolInv, EndDef
  PROVE  PoolInv'
<1>1. PICK P : Pooled(P)
  BY DEF PoolInv
<1>2. /\ Pool(P, next, free, comp, macros) /\ freeCount = Len(P[FreeList])
      /\ data \in Data /\ compPc \in Place /\ EndCommand \in Given
  BY <1>1 DEF Pooled, PoolInv, Simple, Given
<1>3. \E Q : /\ PoolOf(Q, AppendCmd(EndCommand).s, macros) /\ Memory(AppendCmd(EndCommand).s)
            /\ AppendCmd(EndCommand).s.pc \in Place
  BY <1>2, AppendEffect
<1>4. Simple' /\ \E R : Pooled(R)'
  BY <1>1, <1>3, EndStep DEF PoolInv
<1>5. archive' = archive
  BY DEF EndDef
<1>6. QED
  BY <1>4, <1>5 DEF PoolInv, Archived

(* Every step keeps the invariant. *)
LEMMA PoolStep ==
  ASSUME TRUE \notin ArchiveWhen, PoolInv, [Next]_vars
  PROVE  PoolInv'
<1>1. PICK P : Pooled(P)
  BY DEF PoolInv
<1>2. Simple
  BY DEF PoolInv
<1>3. CASE UNCHANGED vars
  BY <1>3 DEF vars, pool, compiler, history, PoolInv, Simple, Pooled, Archived
<1>4. ASSUME NEW m \in MacroId, StartDef(m) PROVE PoolInv'
  <2>1. Simple' /\ Pooled(P)' /\ archive' = archive
    BY <1>1, <1>2, <1>4, StartLists DEF StartDef
  <2>2. QED
    BY <2>1 DEF PoolInv, Archived
<1>5. CASE SaveMacros
  <2>1. Simple' /\ Pooled(P)' /\ Archived(P)'
    BY <1>1, <1>2, <1>5, SaveLists
  <2>2. QED
    BY <2>1 DEF PoolInv
<1>6. CASE RestoreMacros
  <2>1. archive' = archive
    BY <1>6 DEF RestoreMacros
  <2>2. Simple' /\ \E Q : Pooled(Q)'
    <3>1. CASE archive.good
      <4>1. PICK Q : Archived(Q)
        BY <3>1 DEF PoolInv
      <4>2. QED
        BY <1>1, <1>2, <1>6, <3>1, <4>1, RestoreLists
    <3>2. CASE ~archive.good
      BY <1>1, <1>2, <1>6, <3>2, RestoreLists
    <3>3. QED
      BY <3>1, <3>2
  <2>3. QED
    BY <2>1, <2>2 DEF PoolInv, Archived
<1>7. ASSUME NEW midSave \in BOOLEAN, Reset(midSave) PROVE PoolInv'
  <2>1. /\ Simple' /\ \E Q : Pooled(Q)'
        /\ archive'.good => archive' = archive
    BY <1>2, <1>7, ResetLists
  <2>2. QED
    BY <2>1 DEF PoolInv, Archived
<1>8. CASE Next
  BY <1>4, <1>5, <1>6, <1>7, <1>8, PoolAppend, PoolEnd DEF Next
<1>9. QED
  BY <1>3, <1>8

(* The invariant holds of every behaviour. *)
LEMMA PoolInvariance ==
  ASSUME TRUE \notin ArchiveWhen
  PROVE  Spec => []PoolInv
<1>1. Init => PoolInv
  BY PoolInit
<1>2. PoolInv /\ [Next]_vars => PoolInv'
  BY PoolStep
<1>3. QED
  BY <1>1, <1>2, PTL DEF Spec
-----------------------------------------------------------------------------
(* What the properties read. *)
LEMMA ReadsLists ==
  ASSUME NEW P, Pooled(P)
  PROVE  /\ FreeBlocks = P[FreeList] /\ CompBlocks = P[Compiled]
         /\ \A m \in MacroId : Blocks(macros[m]) = P[Macro(m)]
  BY Holders, ListRead DEF Pooled, Pool, Queue, FreeBlocks, CompBlocks, Blocks

(* Held gives the lists. *)
LEMMA HeldIs ==
  ASSUME NEW P, Pooled(P), NEW o \in Holder
  PROVE  Held[o] = P[o] /\ DOMAIN P[o] = 1..Len(P[o]) /\ Len(P[o]) \in Nat
                       /\ Len(P[o]) <= NBlocks
<1>1. Held[o] = CASE o = <<"free">> -> FreeBlocks
                  [] o = <<"comp">> -> CompBlocks
                  [] OTHER -> Blocks(macros[o[2]])
  BY DEF Held
<1>2. Held[o] = P[o]
  <2>1. CASE o = FreeList
    BY <1>1, <2>1, ReadsLists DEF FreeList
  <2>2. CASE o = Compiled
    <3>1. o = <<"comp">> /\ o # <<"free">>
      BY <2>2, Holders DEF Compiled, FreeList
    <3>2. QED
      BY <1>1, <2>2, <3>1, ReadsLists
  <2>3. ASSUME NEW m \in MacroId, o = Macro(m) PROVE Held[o] = P[o]
    <3>1. o # <<"comp">> /\ o # <<"free">> /\ o[2] = m
      BY <2>3, Holders DEF Macro, Compiled, FreeList
    <3>2. Held[o] = Blocks(macros[m])
      BY <1>1, <3>1
    <3>3. QED
      BY <2>3, <3>2, ReadsLists
  <2>4. QED
    BY <2>1, <2>2, <2>3, Holders
<1>3. QED
  BY <1>2, HeldLength, ListRead DEF Pooled, Pool, Lists

(* The blocks have one owner each. *)
LEMMA PoolOneOwner == PoolInv => OneOwner
<1> SUFFICES ASSUME PoolInv PROVE OneOwner
  OBVIOUS
<1>1. PICK P : Pooled(P)
  BY DEF PoolInv
<1>2. Apart(P)
  BY <1>1 DEF Pooled, Pool, Lists
<1> DEFINE held == Held
<1>3. \A o \in Holder : held[o] = P[o] /\ DOMAIN P[o] = 1..Len(P[o]) /\ Len(P[o]) \in Nat
                       /\ Len(P[o]) <= NBlocks
  BY <1>1, HeldIs
<1> HIDE DEF held
<1>4. ASSUME NEW b \in Block PROVE Cardinality(Occurrences(held, b)) = 1
  <2>1. PICK o \in Holder : \E i \in 1..Len(P[o]) : P[o][i] = b
    BY <1>2 DEF Apart
  <2>2. PICK i \in 1..Len(P[o]) : P[o][i] = b
    BY <2>1
  <2>3. <<o, i>> \in Occurrences(held, b)
    BY <1>3, <2>2, SizesAssumption DEF Occurrences
  <2>4. \A x \in Occurrences(held, b) : x = <<o, i>>
    <3> SUFFICES ASSUME NEW x \in Occurrences(held, b) PROVE x = <<o, i>>
      OBVIOUS
    <3>1. /\ x \in Holder \X (1..NBlocks) /\ x[2] \in DOMAIN held[x[1]]
          /\ held[x[1]][x[2]] = b
      BY DEF Occurrences
    <3>2. x[1] \in Holder /\ x[2] \in 1..Len(P[x[1]]) /\ P[x[1]][x[2]] = b
      BY <1>3, <3>1
    <3>3. x[1] = o /\ x[2] = i
      <4>1. \A q \in Holder : \A j \in 1..Len(P[q]), l \in 1..Len(P[o]) :
              P[q][j] = P[o][l] => q = o /\ j = l
        BY <1>2, <2>1 DEF Apart
      <4>2. QED
        BY <2>2, <3>2, <4>1
    <3>4. QED
      BY <3>1, <3>3
  <2>5. Occurrences(held, b) = {<<o, i>>}
    BY <2>3, <2>4
  <2>6. QED
    BY <2>5, FS_Singleton
<1>5. QED
  BY <1>4 DEF OneOwner, held

(* Every block is in exactly one place, on the free list, in the macro     *)
(* being learned or in one macro, and there once: whatever the order of    *)
(* the commands, wherever the pool runs out and whenever there is a reset, *)
(* if macros are archived only outside a definition.                       *)
THEOREM PoolOwners ==
  ASSUME TRUE \notin ArchiveWhen
  PROVE  Spec => []OneOwner
<1>1. Spec => []PoolInv
  BY PoolInvariance
<1>2. PoolInv => OneOwner
  BY PoolOneOwner
<1>3. QED
  BY <1>1, <1>2, PTL

(* The count of free blocks reported in telemetry is the length of the     *)
(* free list.                                                              *)
THEOREM PoolCount ==
  ASSUME TRUE \notin ArchiveWhen
  PROVE  Spec => []FreeCounted
<1>1. Spec => []PoolInv
  BY PoolInvariance
<1>2. PoolInv => FreeCounted
  BY ReadsLists DEF PoolInv, Pooled, FreeCounted
<1>3. QED
  BY <1>1, <1>2, PTL

(* The tail of a queue that is not empty is its last block, so that what   *)
(* is put on the queue is linked behind all that it holds.                 *)
THEOREM PoolTails ==
  ASSUME TRUE \notin ArchiveWhen
  PROVE  Spec => []TailsLast
<1>1. Spec => []PoolInv
  BY PoolInvariance
<1>2. PoolInv => TailsLast
  <2> SUFFICES ASSUME PoolInv PROVE TailsLast
    OBVIOUS
  <2>1. PICK P : Pooled(P)
    BY DEF PoolInv
  <2>2. FreeBlocks = P[FreeList] /\ CompBlocks = P[Compiled]
    BY <2>1, ReadsLists
  <2>3. Queue(free, P[FreeList]) /\ Queue(comp, P[Compiled])
    BY <2>1 DEF Pooled, Pool
  <2>4. /\ free.head # Null => free.tail = P[FreeList][Len(P[FreeList])]
        /\ comp.head # Null => comp.tail = P[Compiled][Len(P[Compiled])]
    BY <2>3 DEF Queue, First
  <2>5. QED
    BY <2>2, <2>4 DEF TailsLast, Last
<1>3. QED
  BY <1>1, <1>2, PTL

(* No block of the macro being learned is on the free list, if macros are  *)
(* archived only outside a definition (the run MacroLearn shows that it    *)
(* may be otherwise).                                                      *)
THEOREM PoolLearnedNotFree ==
  ASSUME TRUE \notin ArchiveWhen
  PROVE  Spec => []LearnedNotFree
<1>1. Spec => []PoolInv
  BY PoolInvariance
<1>2. PoolInv => LearnedNotFree
  <2> SUFFICES ASSUME PoolInv PROVE LearnedNotFree
    OBVIOUS
  <2>1. PICK P : Pooled(P)
    BY DEF PoolInv
  <2>2. FreeBlocks = P[FreeList] /\ CompBlocks = P[Compiled] /\ Apart(P)
    BY <2>1, ReadsLists DEF Pooled, Pool, Lists
  <2>3. /\ DOMAIN P[FreeList] = 1..Len(P[FreeList])
        /\ DOMAIN P[Compiled] = 1..Len(P[Compiled])
    BY <2>1, Holders, HeldIs
  <2>4. \A i \in 1..Len(P[Compiled]), j \in 1..Len(P[FreeList]) :
          P[Compiled][i] # P[FreeList][j]
    BY <2>2, Holders DEF Apart
  <2>5. QED
    BY <2>2, <2>3, <2>4 DEF LearnedNotFree
<1>3. QED
  BY <1>1, <1>2, PTL

-----------------------------------------------------------------------------
(* Positions. *)

\* The number of bytes before the byte i of the block j of a list.
At(j, i) == (j - 1) * BlockSize + i
Offset == 0..BlockSize - 1

(* Positions go through one block after the other. *)
LEMMA Positions ==
  /\ At(1, 0) = 0 /\ 0 \in Offset
  /\ \A j \in Nat \ {0}, i \in Nat : At(j, i) \in Nat /\ At(j, i + 1) = At(j, i) + 1
  /\ \A j \in Nat \ {0} : At(j + 1, 0) = At(j, BlockSize)
<1>1. BlockSize \in Nat /\ BlockSize > 0
  BY SizesAssumption
<1>2. At(1, 0) = 0 /\ 0 \in Offset
  BY <1>1 DEF At, Offset
<1>3. ASSUME NEW j \in Nat \ {0}, NEW i \in Nat
      PROVE  At(j, i) \in Nat /\ At(j, i + 1) = At(j, i) + 1
  <2>1. (j - 1) * BlockSize \in Nat
    BY <1>1
  <2>2. QED
    BY <2>1 DEF At
<1>4. ASSUME NEW j \in Nat \ {0} PROVE At(j + 1, 0) = At(j, BlockSize)
  <2>1. j * BlockSize = (j - 1) * BlockSize + BlockSize
    BY <1>1
  <2>2. QED
    BY <1>1, <2>1 DEF At
<1>5. QED
  BY <1>2, <1>3, <1>4

(* A position is in the first blocks just if its block is. *)
LEMMA PositionBefore ==
  ASSUME NEW j \in Nat \ {0}, NEW l \in Nat \ {0}, NEW i \in Offset
  PROVE  At(j, i) < At(l, 0) <=> j < l
<1>1. BlockSize \in Nat /\ BlockSize > 0 /\ i \in Nat /\ i < BlockSize
  BY SizesAssumption DEF Offset
<1>2. CASE j < l
  <2>1. (l - 1) - j \in Nat
    BY <1>2
  <2>2. ((l - 1) - j) * BlockSize >= 0
    BY <1>1, <2>1
  <2>3. (l - 1) * BlockSize = (j - 1) * BlockSize + BlockSize + ((l - 1) - j) * BlockSize
    BY <1>1
  <2>4. QED
    BY <1>1, <1>2, <2>2, <2>3 DEF At
<1>3. CASE ~(j < l)
  <2>1. j - l \in Nat
    BY <1>3
  <2>2. (j - l) * BlockSize >= 0
    BY <1>1, <2>1
  <2>3. (j - 1) * BlockSize = (l - 1) * BlockSize + (j - l) * BlockSize
    BY <1>1
  <2>4. QED
    BY <1>1, <1>3, <2>2, <2>3 DEF At
<1>4. QED
  BY <1>2, <1>3

(* A position has one block and one offset. *)
LEMMA PositionUnique ==
  ASSUME NEW j \in Nat \ {0}, NEW l \in Nat \ {0}, NEW i \in Offset, NEW h \in Offset,
         At(j, i) = At(l, h)
  PROVE  j = l /\ i = h
<1> DEFINE a == At(j, 0)
           b == At(l, 0)
<1>1. a \in Nat /\ b \in Nat /\ i \in Nat /\ h \in Nat /\ a + i = b + h
  <2>1. i \in Nat /\ h \in Nat /\ BlockSize \in Nat
    BY SizesAssumption DEF Offset
  <2>2. (j - 1) * BlockSize \in Nat /\ (l - 1) * BlockSize \in Nat
    BY <2>1
  <2>3. QED
    BY <2>1, <2>2 DEF At
<1>2. (a + i < b <=> j < l) /\ (b + h < a <=> l < j)
  <2>1. i \in Nat /\ h \in Nat /\ BlockSize \in Nat
    BY SizesAssumption DEF Offset
  <2>2. (j - 1) * BlockSize \in Nat /\ (l - 1) * BlockSize \in Nat
    BY <2>1
  <2>3. At(j, i) = a + i /\ At(l, h) = b + h
    BY <2>1, <2>2 DEF At
  <2>4. (At(j, i) < b <=> j < l) /\ (At(l, h) < a <=> l < j)
    BY PositionBefore
  <2>5. QED
    BY <2>3, <2>4
<1> HIDE DEF a, b
<1>3. ~(a + i < b) /\ ~(b + h < a)
  BY <1>1
<1>4. j = l
  BY <1>2, <1>3
<1>5. a = b
  BY <1>4 DEF a, b
<1>6. QED
  BY <1>1, <1>4, <1>5

(* In a list of length bytes, the quotient and the remainder of a position *)
(* by the block size are its block and its offset.                         *)
LEMMA PositionOf ==
  ASSUME NEW q \in Nat, NEW l \in Nat, q < l * BlockSize
  PROVE  /\ q \div BlockSize + 1 \in 1..l /\ q % BlockSize \in Offset
         /\ At(q \div BlockSize + 1, q % BlockSize) = q
<1>1. BlockSize \in Nat /\ BlockSize > 0
  BY SizesAssumption
<1> DEFINE d == q \div BlockSize
           r == q % BlockSize
<1>2. d \in Int /\ r \in 0..BlockSize - 1 /\ q = BlockSize * d + r
  BY <1>1
<1> HIDE DEF d, r
<1>3. d >= 0
  <2>1. CASE d < 0
    <3>1. BlockSize * d <= BlockSize * (-1)
      BY <1>1, <1>2, <2>1
    <3>2. QED
      BY <1>1, <1>2, <3>1
  <2>2. QED
    BY <1>2, <2>1
<1>4. d < l
  <2>1. CASE d >= l
    <3>1. BlockSize * d >= BlockSize * l
      BY <1>1, <1>2, <2>1
    <3>2. BlockSize * l = l * BlockSize
      BY <1>1
    <3>3. QED
      BY <1>1, <1>2, <3>1, <3>2
  <2>2. QED
    BY <1>2, <2>1
<1>5. d + 1 \in 1..l /\ r \in Offset
  BY <1>2, <1>3, <1>4 DEF Offset
<1>6. At(d + 1, r) = q
  <2>1. (d + 1) - 1 = d /\ d * BlockSize = BlockSize * d
    BY <1>1, <1>2
  <2>2. QED
    BY <1>2, <2>1 DEF At
<1>7. QED
  BY <1>5, <1>6 DEF d, r
-----------------------------------------------------------------------------
(* What the blocks of a list hold. *)

\* The blocks of s hold the first n bytes of code, and then zeros.
Content(dat, s, code, n) ==
  /\ n <= At(Len(s) + 1, 0)
  /\ \A j \in 1..Len(s), i \in Offset :
       dat[s[j]][i] = IF At(j, i) < n THEN code[At(j, i) + 1] ELSE Zero

\* The block and the offset pc are the position n of s; behind its last block
\* there is none.
Placed(pc, s, n) ==
  \E j \in 1..Len(s) + 1, i \in Offset :
    At(j, i) = n /\ pc = <<IF j <= Len(s) THEN s[j] ELSE Null, i>>

Once(s) == \A i, j \in 1..Len(s) : s[i] = s[j] => i = j

(* A stored byte is the next one of the code, and the place steps. *)
LEMMA WriteOne ==
  ASSUME NEW t, Memory(t), t.pc \in Place, t.next \in [Block -> Block \cup {Null}],
         NEW s \in Seq(Block), Chained(t.next, s), Once(s), NEW code, NEW n \in Nat,
         code[n + 1] \in Byte, n < At(Len(s) + 1, 0),
         Content(t.data, s, code, n), Placed(t.pc, s, n)
  PROVE  LET u == StoreByte(t, code[n + 1])
         IN  /\ Content(u.data, s, code, n + 1) /\ Placed(u.pc, s, n + 1)
             /\ \A b \in Block : (\A j \in 1..Len(s) : s[j] # b) => u.data[b] = t.data[b]
<1> DEFINE x == code[n + 1]
           u == StoreByte(t, x)
<1>1. PICK j \in 1..Len(s) + 1, i \in Offset :
        At(j, i) = n /\ t.pc = <<IF j <= Len(s) THEN s[j] ELSE Null, i>>
  BY DEF Placed
<1>2. Len(s) \in Nat /\ j \in Nat \ {0} /\ i \in Nat /\ BlockSize \in Nat /\ i < BlockSize
  BY SizesAssumption DEF Offset
<1>3. j \in 1..Len(s) /\ s[j] \in Block /\ s[j] # Null
  <2>1. j < Len(s) + 1
    BY <1>1, <1>2, PositionBefore
  <2>2. j \in 1..Len(s) /\ s[j] \in Block
    BY <1>2, <2>1
  <2>3. QED
    BY <2>2 DEF Block, Null
<1>4. t.pc[1] = s[j] /\ t.pc[2] = i
  BY <1>1, <1>3
<1>5. x \in Byte
  OBVIOUS
<1> HIDE DEF x
<1>6. /\ Memory(u)
      /\ u.pc = IF i + 1 = BlockSize THEN <<t.next[s[j]], 0>> ELSE <<s[j], i + 1>>
      /\ \A d \in Block, h \in Offset :
           u.data[d][h] = IF d = s[j] /\ h = i THEN x ELSE t.data[d][h]
  BY <1>3, <1>4, <1>5, StoreByteIs DEF Offset
<1> HIDE DEF u
<1>7. At(j, i + 1) = n + 1 /\ At(j + 1, 0) = At(j, BlockSize)
  BY <1>1, <1>2, Positions
<1>8. Content(u.data, s, code, n + 1)
  <2>1. n + 1 <= At(Len(s) + 1, 0)
    <3>1. At(Len(s) + 1, 0) \in Nat
      BY <1>2, Positions
    <3>2. QED
      BY <3>1
  <2>2. ASSUME NEW l \in 1..Len(s), NEW h \in Offset
        PROVE  u.data[s[l]][h] = IF At(l, h) < n + 1 THEN code[At(l, h) + 1] ELSE Zero
    <3>1. /\ s[l] \in Block /\ l \in Nat \ {0} /\ h \in Nat
          /\ At(l, h) \in Nat
      <4>1. s[l] \in Block /\ l \in Nat \ {0} /\ h \in Nat
        BY <1>2 DEF Offset
      <4>2. QED
        BY <4>1, Positions
    <3>2. /\ u.data[s[l]][h] = IF s[l] = s[j] /\ h = i THEN x ELSE t.data[s[l]][h]
          /\ t.data[s[l]][h] = IF At(l, h) < n THEN code[At(l, h) + 1] ELSE Zero
      BY <1>6, <3>1 DEF Content
    <3>3. CASE s[l] = s[j] /\ h = i
      <4>1. l = j /\ h = i
        BY <1>3, <3>3 DEF Once
      <4>2. At(l, h) = n
        BY <1>1, <4>1
      <4>3. QED
        BY <3>2, <3>3, <4>2 DEF x
    <3>4. CASE ~(s[l] = s[j] /\ h = i)
      <4>1. At(l, h) # n
        BY <1>1, <1>2, <3>1, <3>4, PositionUnique
      <4>2. At(l, h) < n + 1 <=> At(l, h) < n
        BY <3>1, <4>1
      <4>3. QED
        BY <3>2, <3>4, <4>2
    <3>5. QED
      BY <3>3, <3>4
  <2>3. QED
    BY <2>1, <2>2 DEF Content
<1>9. Placed(u.pc, s, n + 1)
  <2>1. CASE i + 1 = BlockSize
    <3>1. u.pc = <<IF j + 1 <= Len(s) THEN s[j + 1] ELSE Null, 0>>
      <4>1. t.next[s[j]] = IF j = Len(s) THEN Null ELSE s[j + 1]
        BY <1>3 DEF Chained
      <4>2. j = Len(s) <=> ~(j + 1 <= Len(s))
        BY <1>2, <1>3
      <4>3. QED
        BY <1>6, <2>1, <4>1, <4>2
    <3>2. At(j + 1, 0) = n + 1
      BY <1>7, <2>1
    <3>3. j + 1 \in 1..Len(s) + 1 /\ 0 \in Offset
      BY <1>2, <1>3, Positions
    <3>4. QED
      BY <3>1, <3>2, <3>3 DEF Placed
  <2>2. CASE i + 1 # BlockSize
    <3>1. i + 1 \in Offset /\ j <= Len(s)
      BY <1>2, <1>3, <2>2 DEF Offset
    <3>2. u.pc = <<IF j <= Len(s) THEN s[j] ELSE Null, i + 1>>
      BY <1>6, <2>2, <3>1
    <3>3. QED
      BY <1>7, <3>1, <3>2 DEF Placed
  <2>3. QED
    BY <2>1, <2>2
<1>10. ASSUME NEW b \in Block, \A l \in 1..Len(s) : s[l] # b
       PROVE  u.data[b] = t.data[b]
  <2>1. b # s[j]
    BY <1>3, <1>10
  <2>2. \A h \in Offset : u.data[b][h] = t.data[b][h]
    BY <1>6, <2>1
  <2>3. u.data[b] \in [Offset -> Byte] /\ t.data[b] \in [Offset -> Byte]
    BY <1>6 DEF Memory, Data, Offset
  <2>4. QED
    BY <2>2, <2>3
<1>11. QED
  BY <1>8, <1>9, <1>10 DEF u, x

(* A stored command is the next part of the code. *)
LEMMA WriteMany ==
  ASSUME NEW t, Memory(t), t.pc \in Place, t.next \in [Block -> Block \cup {Null}],
         NEW c \in Given, NEW s \in Seq(Block), Chained(t.next, s), Once(s),
         NEW code, NEW n \in Nat, \A i \in 1..c.len + 1 : code[n + i] = Bytes(c)[i],
         n + (c.len + 1) <= At(Len(s) + 1, 0),
         Content(t.data, s, code, n), Placed(t.pc, s, n)
  PROVE  LET u == SaveMacro(t, c)
         IN  /\ Content(u.data, s, code, n + (c.len + 1)) /\ Placed(u.pc, s, n + (c.len + 1))
             /\ \A b \in Block : (\A j \in 1..Len(s) : s[j] # b) => u.data[b] = t.data[b]
<1>1. PICK a : /\ SaveMacro(t, c) = a[c.len + 1]
               /\ \A i \in 0..c.len + 1 :
                    a[i] = IF i = 0 THEN t ELSE StoreByte(a[i - 1], Bytes(c)[i])
  <2>1. c.len \in Nat
    BY CommandBytes
  <2>2. QED
    BY <2>1, SaveRuns
<1> DEFINE l == c.len + 1
           Kept(u) == \A b \in Block : (\A j \in 1..Len(s) : s[j] # b) => u.data[b] = t.data[b]
           Same(u) == Memory(u) /\ u.pc \in Place /\ u.next = t.next
           Fine(u, i) == /\ Same(u) /\ Kept(u)
                         /\ Content(u.data, s, code, n + i) /\ Placed(u.pc, s, n + i)
           S == {i \in 0..l : ~Fine(a[i], i)}
<1>2. l \in Nat /\ \A i \in 1..l : Bytes(c)[i] \in Byte
  BY CommandBytes
<1>3. /\ \A i \in 1..l : code[n + i] = Bytes(c)[i]
      /\ n + l <= At(Len(s) + 1, 0) /\ At(Len(s) + 1, 0) \in Nat
      /\ a[0] = t /\ \A i \in 1..l : a[i] = StoreByte(a[i - 1], Bytes(c)[i])
  <2>1. Len(s) + 1 \in Nat \ {0} /\ 0 \in Nat
    OBVIOUS
  <2>2. At(Len(s) + 1, 0) \in Nat
    BY <2>1, Positions
  <2>3. a[0] = t
    BY <1>1, <1>2
  <2>4. \A i \in 1..l : a[i] = StoreByte(a[i - 1], Bytes(c)[i])
    BY <1>1, <1>2
  <2>5. QED
    BY <2>2, <2>3, <2>4
<1>4. SUFFICES Fine(a[l], l)
  BY <1>1 DEF l
<1> HIDE DEF l
<1>5. SUFFICES ASSUME S # {} PROVE FALSE
  BY <1>2
<1>6. S \in SUBSET Nat
  OBVIOUS
<1>7. Fine(t, 0)
  <2>1. n + 0 = n
    OBVIOUS
  <2>2. QED
    BY <2>1
<1> HIDE DEF Fine
<1>8. PICK i \in S : \A j \in S : i <= j
  BY <1>5, <1>6, LeastNatural
<1>9. i # 0
  BY <1>3, <1>7
<1>10. i \in 1..l /\ i - 1 \in 0..l /\ i - 1 \notin S
  BY <1>2, <1>8, <1>9
<1> DEFINE v == a[i - 1]
           k == n + (i - 1)
<1>11. Fine(v, i - 1) /\ a[i] = StoreByte(v, Bytes(c)[i])
  BY <1>3, <1>10
<1>12. /\ k \in Nat /\ k + 1 = n + i /\ k < At(Len(s) + 1, 0)
       /\ code[k + 1] = Bytes(c)[i] /\ code[k + 1] \in Byte
  <2>1. k \in Nat /\ k + 1 = n + i /\ k < At(Len(s) + 1, 0)
    BY <1>2, <1>3, <1>10
  <2>2. QED
    BY <1>2, <1>3, <1>10, <2>1
<1>13. Same(v) /\ Kept(v) /\ Content(v.data, s, code, k) /\ Placed(v.pc, s, k)
  BY <1>11 DEF Fine
<1> HIDE DEF v, k
<1>14. /\ Memory(v) /\ v.pc \in Place /\ v.next = t.next
       /\ v.next \in [Block -> Block \cup {Null}] /\ Chained(v.next, s)
  BY <1>13
<1>15. LET u == StoreByte(v, code[k + 1])
       IN  /\ Content(u.data, s, code, k + 1) /\ Placed(u.pc, s, k + 1)
           /\ \A b \in Block : (\A j \in 1..Len(s) : s[j] # b) => u.data[b] = v.data[b]
  <2>1. Content(v.data, s, code, k) /\ Placed(v.pc, s, k)
    BY <1>13
  <2>2. k \in Nat /\ code[k + 1] \in Byte /\ k < At(Len(s) + 1, 0)
    BY <1>12
  <2>3. QED
    BY <1>14, <2>1, <2>2, WriteOne
<1>16. LET u == StoreByte(v, code[k + 1])
       IN  Memory(u) /\ u.pc \in Place /\ u.next = v.next
  BY <1>12, <1>14, StoreByteIs
<1>17. a[i] = StoreByte(v, code[k + 1])
  BY <1>11, <1>12
<1>18. /\ Content(a[i].data, s, code, n + i) /\ Placed(a[i].pc, s, n + i)
       /\ Kept(a[i]) /\ Same(a[i])
  BY <1>12, <1>13, <1>15, <1>16, <1>17
<1>19. Fine(a[i], i)
  BY <1>18 DEF Fine
<1>20. QED
  BY <1>8, <1>19
-----------------------------------------------------------------------------
(* What alloc-macro? and append-cmd do to what the blocks hold.            *)

(* Blocks that are allocated hold zeros and the others what they held; the *)
(* first of them is where the compiler goes on if it had no block.         *)
LEMMA GrowTold ==
  ASSUME NEW P, NEW Q, NEW s, NEW t, NEW k, NEW ms, Apart(P), Grown(P, Q, s, t, k, ms),
         NEW code, NEW n \in Nat, Content(s.data, P[Compiled], code, n),
         Placed(s.pc, P[Compiled], n),
         t.pc = IF s.pc[1] # Null \/ P[FreeList] = <<>> \/ k = 0 THEN s.pc
                ELSE <<P[FreeList][1], 0>>
  PROVE  Content(t.data, Q[Compiled], code, n) /\ Placed(t.pc, Q[Compiled], n)
<1> DEFINE p == P[Compiled]
           q == Q[Compiled]
           f == P[FreeList]
           l == Len(p)
<1>1. /\ p \in Seq(Block) /\ f \in Seq(Block) /\ q \in Seq(Block) /\ l \in Nat
      /\ k \in 0..Len(f) /\ Len(f) \in Nat /\ Len(q) = l + k
  <2>1. p \in Seq(Block) /\ f \in Seq(Block)
    BY Holders DEF Apart
  <2>2. k \in 0..Len(f) /\ Moves(P, Q, FreeList, Compiled, k)
    BY DEF Grown
  <2>3. q \in Seq(Block) /\ Len(q) = l + k
    BY <2>2, Holders DEF Moves
  <2>4. QED
    BY <2>1, <2>2, <2>3
<1>2. (\A i \in 1..l : q[i] = p[i]) /\ (\A i \in 1..k : q[l + i] = f[i])
  BY Holders DEF Grown, Moves
<1>3. \A i \in 1..l, j \in 1..Len(f) : p[i] # f[j]
  BY Holders DEF Apart
<1>4. \A b \in Block : t.data[b] = IF \E i \in 1..k : b = f[i] THEN ZeroBlock ELSE s.data[b]
  BY DEF Grown
<1>5. /\ n <= At(l + 1, 0)
      /\ \A j \in 1..l, i \in Offset :
           s.data[p[j]][i] = IF At(j, i) < n THEN code[At(j, i) + 1] ELSE Zero
  BY DEF Content
<1>6. PICK j \in 1..l + 1, i \in Offset :
        At(j, i) = n /\ s.pc = <<IF j <= l THEN p[j] ELSE Null, i>>
  BY DEF Placed
<1>7. f # <<>> /\ k # 0 => 1 \in 1..k /\ f[1] \in Block
  BY <1>1
<1>8. t.pc = IF s.pc[1] # Null \/ f = <<>> \/ k = 0 THEN s.pc ELSE <<f[1], 0>>
  OBVIOUS
<1> HIDE DEF p, q, f, l
<1>9. l + 1 \in Nat \ {0} /\ 0 \in Offset /\ 0 \in Nat /\ At(l + 1, 0) \in Nat
  <2>1. l + 1 \in Nat \ {0} /\ 0 \in Nat
    BY <1>1
  <2>2. QED
    BY <2>1, Positions
<1>10. Content(t.data, q, code, n)
  <2>1. n <= At(Len(q) + 1, 0)
    <3>1. l + k + 1 \in Nat \ {0} /\ ~(l + k + 1 < l + 1) /\ Len(q) + 1 = l + k + 1
      BY <1>1
    <3>2. ~(At(l + k + 1, 0) < At(l + 1, 0)) /\ At(l + k + 1, 0) \in Nat
      BY <1>9, <3>1, PositionBefore, Positions
    <3>3. QED
      BY <1>5, <1>9, <3>1, <3>2
  <2>2. ASSUME NEW d \in 1..Len(q), NEW h \in Offset
        PROVE  t.data[q[d]][h] = IF At(d, h) < n THEN code[At(d, h) + 1] ELSE Zero
    <3>1. CASE d <= l
      <4>1. d \in 1..l /\ q[d] = p[d] /\ p[d] \in Block
        BY <1>1, <1>2, <3>1
      <4>2. t.data[q[d]] = s.data[p[d]]
        <5>1. ~\E e \in 1..k : p[d] = f[e]
          BY <1>1, <1>3, <4>1
        <5>2. QED
          BY <1>4, <4>1, <5>1
      <4>3. QED
        BY <1>5, <4>1, <4>2
    <3>2. CASE ~(d <= l)
      <4>1. /\ d - l \in 1..k /\ l + (d - l) = d /\ d \in Nat \ {0} /\ ~(d < l + 1)
            /\ h \in Nat
        BY <1>1, <3>2 DEF Offset
      <4>2. q[d] = f[d - l] /\ q[d] \in Block
        <5>1. q[l + (d - l)] = f[d - l]
          BY <1>2, <4>1
        <5>2. QED
          BY <1>1, <4>1, <5>1
      <4>3. t.data[q[d]] = ZeroBlock
        BY <1>4, <4>1, <4>2
      <4>4. t.data[q[d]][h] = Zero
        BY <4>3 DEF ZeroBlock, Offset
      <4>5. ~(At(d, h) < n)
        <5>1. ~(At(d, h) < At(l + 1, 0)) /\ At(d, h) \in Nat
          BY <1>9, <4>1, PositionBefore, Positions
        <5>2. QED
          BY <1>5, <1>9, <5>1
      <4>6. QED
        BY <4>4, <4>5
    <3>3. QED
      BY <3>1, <3>2
  <2>3. QED
    BY <2>1, <2>2 DEF Content
<1>11. Placed(t.pc, q, n)
  <2>1. CASE j <= l
    <3>1. p[j] \in Block /\ p[j] # Null /\ j \in 1..l /\ j <= Len(q) /\ q[j] = p[j]
      <4>1. j \in 1..l /\ p[j] \in Block
        BY <1>1, <1>6, <2>1 DEF l
      <4>2. QED
        BY <1>1, <1>2, <4>1 DEF Block, Null
    <3>2. s.pc = <<p[j], i>> /\ s.pc[1] = p[j]
      BY <1>6, <3>1
    <3>3. t.pc = <<IF j <= Len(q) THEN q[j] ELSE Null, i>>
      BY <1>8, <3>1, <3>2
    <3>4. j \in 1..Len(q) + 1
      BY <1>1, <3>1
    <3>5. QED
      BY <1>6, <3>3, <3>4 DEF Placed
  <2>2. CASE ~(j <= l)
    <3>1. j = l + 1 /\ s.pc = <<Null, i>> /\ s.pc[1] = Null /\ j \in 1..Len(q) + 1
      BY <1>1, <1>6, <2>2
    <3>2. i = 0
      <4>1. i \in Nat
        BY SizesAssumption DEF Offset
      <4>2. At(l + 1, i) = At(l + 1, 0) + i
        <5>1. l * BlockSize \in Nat /\ (l + 1) - 1 = l
          BY <1>1, SizesAssumption
        <5>2. QED
          BY <4>1, <5>1 DEF At
      <4>3. QED
        BY <1>5, <1>6, <1>9, <3>1, <4>1, <4>2
    <3>3. CASE f = <<>> \/ k = 0
      <4>1. k = 0
        BY <1>1, <3>3
      <4>2. t.pc = s.pc /\ ~(j <= Len(q))
        BY <1>1, <1>8, <3>1, <3>3, <4>1
      <4>3. t.pc = <<IF j <= Len(q) THEN q[j] ELSE Null, i>>
        BY <3>1, <4>2
      <4>4. QED
        BY <1>6, <3>1, <4>3 DEF Placed
    <3>4. CASE f # <<>> /\ k # 0
      <4>1. t.pc = <<f[1], 0>> /\ j <= Len(q) /\ q[l + 1] = f[1]
        BY <1>1, <1>2, <1>7, <1>8, <3>1, <3>4
      <4>2. t.pc = <<IF j <= Len(q) THEN q[j] ELSE Null, i>>
        BY <3>1, <3>2, <4>1
      <4>3. QED
        BY <1>6, <3>1, <4>2 DEF Placed
    <3>5. QED
      BY <3>3, <3>4
  <2>3. QED
    BY <2>1, <2>2
<1>12. QED
  BY <1>10, <1>11 DEF q

(* Room in the current block and in new ones is room in the list.          *)
LEMMA RoomInList ==
  ASSUME NEW p \in Seq(Block), NEW pc, NEW n \in Nat, Placed(pc, p, n),
         n <= At(Len(p) + 1, 0), NEW k \in Nat, NEW m \in Nat,
         k * BlockSize + (IF pc[1] # Null THEN BlockSize - pc[2] ELSE 0) >= m
  PROVE  n + m <= At(Len(p) + k + 1, 0)
<1> DEFINE l == Len(p)
<1>1. PICK j \in 1..l + 1, i \in Offset :
        At(j, i) = n /\ pc = <<IF j <= l THEN p[j] ELSE Null, i>>
  BY DEF Placed
<1>2. /\ l \in Nat /\ i \in Nat /\ BlockSize \in Nat /\ i < BlockSize /\ j \in Nat
      /\ k * BlockSize \in Nat
  BY SizesAssumption DEF Offset
<1>3. j <= l => p[j] # Null
  <2>1. j <= l => p[j] \in Block
    BY <1>1, <1>2
  <2>2. QED
    BY <2>1 DEF Block, Null
<1> HIDE DEF l
<1>4. At(l + k + 1, 0) = l * BlockSize + k * BlockSize
  <2>1. (l + k + 1) - 1 = l + k /\ (l + k) * BlockSize = l * BlockSize + k * BlockSize
    BY <1>2
  <2>2. QED
    BY <1>2, <2>1 DEF At
<1>5. n = (j - 1) * BlockSize + i
  BY <1>1 DEF At
<1>6. l * BlockSize \in Nat
  BY <1>2
<1>7. CASE j <= l
  <2>1. pc[1] # Null /\ pc[2] = i
    BY <1>1, <1>3, <1>7
  <2>2. k * BlockSize + (BlockSize - i) >= m
    BY <2>1
  <2>3. l - j \in Nat /\ (l - j) * BlockSize >= 0
    BY <1>2, <1>7
  <2>4. l * BlockSize = (j - 1) * BlockSize + BlockSize + (l - j) * BlockSize
    BY <1>2
  <2> DEFINE x == (j - 1) * BlockSize
             y == (l - j) * BlockSize
             z == k * BlockSize
  <2>5. x \in Int /\ y \in Int /\ z \in Nat
    BY <1>2
  <2>6. n = x + i /\ At(l + k + 1, 0) = x + BlockSize + y + z /\ y >= 0
        /\ z + (BlockSize - i) >= m
    BY <1>4, <1>5, <2>2, <2>3, <2>4
  <2>7. n + m <= At(l + k + 1, 0)
    <3> HIDE DEF x, y, z
    <3> QED
      BY <1>2, <2>5, <2>6
  <2>8. QED
    BY <2>7 DEF l
<1>8. CASE ~(j <= l)
  <2>1. j = l + 1 /\ pc[1] = Null
    BY <1>1, <1>2, <1>8
  <2>2. k * BlockSize >= m
    BY <1>2, <2>1
  <2>3. n <= l * BlockSize
    <3>1. (l + 1) - 1 = l
      BY <1>2
    <3>2. QED
      BY <1>6, <3>1 DEF At, l
  <2>4. n + m <= At(l + k + 1, 0)
    BY <1>2, <1>4, <1>6, <2>2, <2>3
  <2>5. QED
    BY <2>4 DEF l
<1>9. QED
  BY <1>7, <1>8

\* The blocks of s hold the bytes of code and the next byte goes to pc.
Learns(dat, pc, s, code) ==
  code \in Seq(Byte) /\ Content(dat, s, code, Len(code)) /\ Placed(pc, s, Len(code))

\* What append-cmd of c does to the lists and to what they hold, when it
\* allocates k blocks.
Appended(P, Q, c, k) ==
  LET a == AppendCmd(c)
  IN  /\ Moves(P, Q, FreeList, Compiled, k)
      /\ PoolOf(Q, a.s, macros) /\ Memory(a.s) /\ a.s.pc \in Place
      /\ a.ok => learning
      /\ ~learning => k = 0 /\ a.s = State
      /\ ~a.ok /\ c.len <= 1 /\ BlockSize >= 2 /\ compPc[2] < BlockSize => k = 0
      /\ learning => Learns(a.s.data, a.s.pc, Q[Compiled],
                            IF a.ok THEN learned \o Bytes(c) ELSE learned)
      /\ \A m \in MacroId : \A j \in 1..Len(P[Macro(m)]) :
           a.s.data[P[Macro(m)][j]] = data[P[Macro(m)][j]]

(* append-cmd learns a whole command or nothing of it, and writes to no    *)
(* block of a macro.                                                       *)
LEMMA AppendTold ==
  ASSUME NEW P, Pool(P, next, free, comp, macros), freeCount = Len(P[FreeList]),
         data \in Data, compPc \in Place, learning \in BOOLEAN,
         learning => Learns(data, compPc, P[Compiled], learned),
         NEW c \in Given
  PROVE  \E k \in Nat : \E Q : Appended(P, Q, c, k)
<1> DEFINE a == AppendCmd(c)
<1>1. PICK k \in Nat : \E Q, m :
        /\ Grown(P, Q, State, m, k, macros)
        /\ a.s = IF a.ok THEN SaveMacro(m, c) ELSE m
        /\ PoolOf(Q, a.s, macros) /\ Memory(a.s) /\ a.s.pc \in Place
        /\ a.ok => learning /\ m.pc[1] # Null /\ Roomy(State, k, c.len + 1)
        /\ m.pc = IF compPc[1] # Null \/ P[FreeList] = <<>> \/ k = 0 THEN compPc
                  ELSE <<P[FreeList][1], 0>>
        /\ ~learning => k = 0
        /\ ~a.ok /\ c.len <= 1 /\ BlockSize >= 2 /\ compPc[2] < BlockSize => k = 0
  BY AppendEffect
<1>2. PICK Q, m :
        /\ Grown(P, Q, State, m, k, macros)
        /\ a.s = IF a.ok THEN SaveMacro(m, c) ELSE m
        /\ PoolOf(Q, a.s, macros) /\ Memory(a.s) /\ a.s.pc \in Place
        /\ a.ok => learning /\ m.pc[1] # Null /\ Roomy(State, k, c.len + 1)
        /\ m.pc = IF compPc[1] # Null \/ P[FreeList] = <<>> \/ k = 0 THEN compPc
                  ELSE <<P[FreeList][1], 0>>
        /\ ~learning => k = 0
        /\ ~a.ok /\ c.len <= 1 /\ BlockSize >= 2 /\ compPc[2] < BlockSize => k = 0
  BY <1>1
<1>3. ~learning => a.s = State
  BY DEF AppendCmd
<1> HIDE DEF a
<1>4. State.data = data /\ State.pc = compPc
  BY DEF State
<1>5. Apart(P) /\ Apart(Q) /\ Moves(P, Q, FreeList, Compiled, k) /\ Memory(m)
  BY <1>2 DEF Grown, PoolOf, Pool, Lists
<1> DEFINE p == P[Compiled]
           q == Q[Compiled]
           full == learned \o Bytes(c)
           l == c.len + 1
<1>6. /\ p \in Seq(Block) /\ q \in Seq(Block) /\ Len(q) = Len(p) + k
      /\ Chained(m.next, q) /\ Once(q) /\ m.next \in [Block -> Block \cup {Null}]
  <2>1. p \in Seq(Block) /\ q \in Seq(Block)
    BY <1>5, Holders DEF Apart
  <2>2. Len(q) = Len(p) + k
    BY <1>5 DEF Moves
  <2>3. Lists(Q, m.next)
    BY <1>2 DEF Grown, PoolOf, Pool
  <2>4. Chained(m.next, q) /\ m.next \in [Block -> Block \cup {Null}]
    BY <2>3, Holders DEF Lists
  <2>5. Once(q)
    BY <1>5, Holders DEF Apart, Once
  <2>6. QED
    BY <2>1, <2>2, <2>4, <2>5
<1>7. /\ l \in Nat /\ Bytes(c) \in Seq(Byte) /\ Len(Bytes(c)) = l
      /\ \A i \in 1..l : Bytes(c)[i] \in Byte
  BY CommandBytes
<1>8. m.pc \in Place
  <2>1. P[FreeList] # <<>> => P[FreeList][1] \in Block
    BY <1>5, Holders DEF Apart
  <2>2. QED
    BY <1>2, <2>1 DEF Place
<1>9. \A o \in Holder \ {FreeList, Compiled} : \A j \in 1..Len(P[o]) :
        m.data[P[o][j]] = data[P[o][j]] /\ Q[o] = P[o]
  <2> SUFFICES ASSUME NEW o \in Holder \ {FreeList, Compiled}, NEW j \in 1..Len(P[o])
               PROVE  m.data[P[o][j]] = data[P[o][j]] /\ Q[o] = P[o]
    OBVIOUS
  <2>1. Q[o] = P[o]
    BY <1>5 DEF Moves
  <2>2. P[o][j] \in Block
    BY <1>5 DEF Apart
  <2>3. ~\E i \in 1..k : P[o][j] = P[FreeList][i]
    <3>1. k \in 0..Len(P[FreeList]) /\ Len(P[FreeList]) \in Nat
      BY <1>2, <1>5, Holders, HeldLength DEF Grown
    <3>2. \A i \in 1..k : i \in 1..Len(P[FreeList])
      BY <3>1
    <3>3. o \in Holder /\ o # FreeList /\ FreeList \in Holder
      BY Holders
    <3>4. \A i \in 1..Len(P[FreeList]) : P[o][j] # P[FreeList][i]
      BY <1>5, <3>3 DEF Apart
    <3>5. QED
      BY <3>2, <3>4
  <2>4. QED
    BY <1>2, <1>4, <2>1, <2>2, <2>3 DEF Grown
<1>10. CASE ~learning
  <2>1. ~a.ok /\ k = 0 /\ a.s = State
    BY <1>2, <1>3, <1>10
  <2>2. Appended(P, Q, c, k)
    BY <1>2, <1>4, <1>5, <1>10, <2>1 DEF Appended, a
  <2>3. QED
    BY <2>2
<1>11. CASE learning
  <2>1. /\ learned \in Seq(Byte) /\ Len(learned) \in Nat
        /\ Content(data, p, learned, Len(learned)) /\ Placed(compPc, p, Len(learned))
    BY <1>11 DEF Learns
  <2>2. Content(m.data, q, learned, Len(learned)) /\ Placed(m.pc, q, Len(learned))
    <3>1. Content(State.data, p, learned, Len(learned)) /\ Placed(State.pc, p, Len(learned))
      BY <1>4, <2>1
    <3>2. m.pc = IF State.pc[1] # Null \/ P[FreeList] = <<>> \/ k = 0 THEN State.pc
                 ELSE <<P[FreeList][1], 0>>
      BY <1>2, <1>4
    <3>3. QED
      BY <1>2, <1>5, <2>1, <3>1, <3>2, GrowTold
  <2>3. CASE ~a.ok
    <3>1. a.s = m
      BY <1>2, <2>3
    <3>2. Learns(a.s.data, a.s.pc, q, learned)
      BY <2>1, <2>2, <3>1 DEF Learns
    <3>3. \A i \in MacroId : \A j \in 1..Len(P[Macro(i)]) :
            a.s.data[P[Macro(i)][j]] = data[P[Macro(i)][j]]
      BY <1>9, <3>1, Holders
    <3>4. Appended(P, Q, c, k)
      BY <1>2, <1>5, <1>11, <2>3, <3>2, <3>3 DEF Appended, a
    <3>5. QED
      BY <3>4
  <2>4. CASE a.ok
    <3> DEFINE n == Len(learned)
    <3>1. a.s = SaveMacro(m, c)
      BY <1>2, <2>4
    <3>2. /\ full \in Seq(Byte) /\ Len(full) = n + l
          /\ \A i \in 1..n : full[i] = learned[i]
          /\ \A i \in 1..l : full[n + i] = Bytes(c)[i]
      BY <1>7, <2>1, Joined
    <3>3. n + l <= At(Len(q) + 1, 0)
      <4>1. k * BlockSize + (IF compPc[1] # Null THEN BlockSize - compPc[2] ELSE 0) >= l
        BY <1>2, <1>4, <2>4 DEF Roomy
      <4>2. n <= At(Len(p) + 1, 0)
        BY <2>1 DEF Content
      <4>3. n + l <= At(Len(p) + k + 1, 0)
        BY <1>6, <1>7, <2>1, <4>1, <4>2, RoomInList
      <4>4. QED
        BY <1>6, <4>3
    <3>4. Content(m.data, q, full, n)
      <4>1. ASSUME NEW j \in 1..Len(q), NEW i \in Offset, At(j, i) < n
            PROVE  learned[At(j, i) + 1] = full[At(j, i) + 1]
        <5>1. j \in Nat \ {0} /\ i \in Nat
          BY SizesAssumption DEF Offset
        <5>2. At(j, i) \in Nat
          BY <5>1, Positions
        <5>3. At(j, i) + 1 \in 1..n
          BY <2>1, <4>1, <5>2
        <5>4. QED
          BY <3>2, <5>3
      <4>2. QED
        BY <2>2, <4>1 DEF Content
    <3>5. Placed(m.pc, q, n) /\ n \in Nat
      BY <2>1, <2>2
    <3> HIDE DEF full, n
    <3>6. /\ Content(a.s.data, q, full, n + l) /\ Placed(a.s.pc, q, n + l)
          /\ \A b \in Block : (\A j \in 1..Len(q) : q[j] # b) => a.s.data[b] = m.data[b]
      <4>1. /\ Memory(m) /\ m.pc \in Place /\ m.next \in [Block -> Block \cup {Null}]
            /\ q \in Seq(Block) /\ Chained(m.next, q) /\ Once(q)
        BY <1>5, <1>6, <1>8
      <4>2. /\ n \in Nat /\ \A i \in 1..c.len + 1 : full[n + i] = Bytes(c)[i]
            /\ n + (c.len + 1) <= At(Len(q) + 1, 0)
            /\ Content(m.data, q, full, n) /\ Placed(m.pc, q, n)
        BY <3>2, <3>3, <3>4, <3>5
      <4> HIDE DEF q
      <4>3. LET u == SaveMacro(m, c)
            IN  /\ Content(u.data, q, full, n + (c.len + 1))
                /\ Placed(u.pc, q, n + (c.len + 1))
                /\ \A b \in Block : (\A j \in 1..Len(q) : q[j] # b) => u.data[b] = m.data[b]
        BY <4>1, <4>2, WriteMany
      <4>4. QED
        BY <3>1, <4>3
    <3>7. Learns(a.s.data, a.s.pc, q, full)
      BY <3>2, <3>6 DEF Learns
    <3>8. \A i \in MacroId : \A j \in 1..Len(P[Macro(i)]) :
            a.s.data[P[Macro(i)][j]] = data[P[Macro(i)][j]]
      <4> SUFFICES ASSUME NEW i \in MacroId, NEW j \in 1..Len(P[Macro(i)])
                   PROVE  a.s.data[P[Macro(i)][j]] = data[P[Macro(i)][j]]
        OBVIOUS
      <4>1. Macro(i) \in Holder \ {FreeList, Compiled}
        BY Holders
      <4>2. /\ m.data[P[Macro(i)][j]] = data[P[Macro(i)][j]] /\ Q[Macro(i)] = P[Macro(i)]
            /\ P[Macro(i)][j] \in Block
        BY <1>5, <1>9, <4>1 DEF Apart
      <4>3. \A d \in 1..Len(q) : q[d] # P[Macro(i)][j]
        <5>1. j \in 1..Len(Q[Macro(i)]) /\ P[Macro(i)][j] = Q[Macro(i)][j]
          BY <4>2
        <5>2. QED
          BY <1>5, <4>1, <5>1, Holders DEF Apart
      <4>4. QED
        BY <3>6, <4>2, <4>3
    <3>9. Appended(P, Q, c, k)
      BY <1>2, <1>5, <1>11, <2>4, <3>7, <3>8 DEF Appended, a, full
    <3>10. QED
      BY <3>9
  <2>5. QED
    BY <2>3, <2>4
<1>12. QED
  BY <1>10, <1>11
-----------------------------------------------------------------------------
(* The invariant: the blocks of every macro hold what it was taught, those *)
(* of the macro being learned what was learned so far, and the archive     *)
(* what was so when it was saved.                                          *)

Holds(dat, s, code) == Content(dat, s, code, Len(code))

Told(P) ==
  /\ learned \in Seq(Byte) /\ taught \in [MacroId -> Seq(Byte)] /\ compPc[2] \in Offset
  /\ learning => Learns(data, compPc, P[Compiled], learned)
  /\ \A m \in MacroId : macros[m] # Null => Holds(data, P[Macro(m)], taught[m])
ArchiveTold(P) ==
  /\ archive.taught \in [MacroId -> Seq(Byte)]
  /\ \A m \in MacroId :
       archive.macros[m] # Null => Holds(archive.data, P[Macro(m)], archive.taught[m])

CompInv ==
  /\ Simple /\ \E P : Pooled(P) /\ Told(P)
  /\ archive.good => \E P : Archived(P) /\ ArchiveTold(P)

(* Blocks that are not written hold what they held. *)
LEMMA HoldsStill ==
  ASSUME NEW dat, NEW dat2, NEW s, \A j \in 1..Len(s) : dat2[s[j]] = dat[s[j]],
         NEW code, Holds(dat, s, code)
  PROVE  Holds(dat2, s, code)
  BY DEF Holds, Content

(* A macro of no blocks was told nothing. *)
LEMMA LearnsNothing ==
  ASSUME NEW dat
  PROVE  Learns(dat, <<Null, 0>>, <<>>, <<>>)
<1>1. Len(<<>>) = 0 /\ <<>> \in Seq(Byte)
  OBVIOUS
<1>2. At(1, 0) = 0 /\ 0 \in Offset
  BY Positions
<1>3. Content(dat, <<>>, <<>>, 0)
  BY <1>1, <1>2 DEF Content
<1>4. Placed(<<Null, 0>>, <<>>, 0)
  BY <1>1, <1>2 DEF Placed
<1>5. QED
  BY <1>1, <1>3, <1>4 DEF Learns

(* The place of a compiler that learns is in a block. *)
LEMMA PlaceInBlock ==
  ASSUME NEW dat, NEW pc, NEW s, NEW code, Learns(dat, pc, s, code)
  PROVE  pc[2] \in Offset
  BY DEF Learns, Placed

(* The invariant at the start. *)
LEMMA CompInit == Init => CompInv
<1> SUFFICES ASSUME Init PROVE CompInv
  OBVIOUS
<1>1. PoolInv
  BY PoolInit
<1>2. PICK P : Pooled(P)
  BY <1>1 DEF PoolInv
<1>3. Told(P)
  <2>1. /\ learned = <<>> /\ taught = [m \in MacroId |-> <<>>] /\ compPc[2] = 0
        /\ learning = FALSE /\ \A m \in MacroId : macros[m] = Null
    BY DEF Init, Undefined
  <2>2. learned \in Seq(Byte) /\ taught \in [MacroId -> Seq(Byte)] /\ compPc[2] \in Offset
    <3>1. <<>> \in Seq(Byte) /\ 0 \in Offset
      BY Positions
    <3>2. QED
      BY <2>1, <3>1
  <2>3. QED
    BY <2>1, <2>2 DEF Told
<1>4. ~archive.good
  BY DEF Init, NoArchive
<1>5. QED
  BY <1>1, <1>2, <1>3, <1>4 DEF CompInv, PoolInv

(* An uplinked command. *)
LEMMA CompAppend ==
  ASSUME Simple, NEW P, Pooled(P), Told(P), NEW c \in Commands, Append1(c)
  PROVE  /\ Simple' /\ archive' = archive
         /\ \E k \in Nat : \E Q : Appended(P, Q, c, k) /\ Pooled(Q)' /\ Told(Q)'
<1> DEFINE a == AppendCmd(c)
<1>1. /\ data' = a.s.data /\ compPc' = a.s.pc
      /\ learned' = (IF a.ok THEN learned \o Bytes(c) ELSE learned)
      /\ UNCHANGED <<macros, learning, archive, taught>>
  BY DEF Append1
<1>2. PICK k \in Nat : \E Q : Appended(P, Q, c, k)
  BY AppendTold DEF Pooled, Told, Simple, Given
<1>3. PICK Q : Appended(P, Q, c, k)
  BY <1>2
<1>4. Simple' /\ Pooled(Q)'
  BY <1>3, AppendStep DEF Appended
<1> HIDE DEF a
<1>5. learning => Learns(data', compPc', Q[Compiled], learned')
  BY <1>1, <1>3 DEF Appended, a
<1>6. /\ ~learning => data' = data /\ compPc' = compPc /\ learned' = learned
  BY <1>1, <1>3 DEF Appended, State, a
<1>7. learned' \in Seq(Byte) /\ compPc'[2] \in Offset
  BY <1>5, <1>6, PlaceInBlock DEF Told, Learns
<1>8. ASSUME NEW m \in MacroId, macros'[m] # Null PROVE Holds(data', Q[Macro(m)], taught'[m])
  <2>1. macros[m] # Null /\ taught'[m] = taught[m]
    BY <1>1, <1>8
  <2>2. Holds(data, P[Macro(m)], taught[m])
    BY <2>1 DEF Told
  <2>3. \A j \in 1..Len(P[Macro(m)]) : data'[P[Macro(m)][j]] = data[P[Macro(m)][j]]
    BY <1>1, <1>3 DEF Appended, a
  <2>4. Q[Macro(m)] = P[Macro(m)]
    BY <1>3, Holders DEF Appended, Moves
  <2>5. QED
    BY <2>1, <2>2, <2>3, <2>4, HoldsStill
<1>9. Told(Q)'
  BY <1>1, <1>5, <1>7, <1>8 DEF Told
<1>10. QED
  BY <1>1, <1>3, <1>4, <1>9

(* release-mac-blocks writes to no block and does not move the compiler. *)
LEMMA ReleaseKeeps ==
  ASSUME NEW s, Memory(s), NEW b
  PROVE  Release(s, b).data = s.data /\ Release(s, b).pc = s.pc
<1>1. CASE b = Null
  BY <1>1 DEF Release
<1>2. CASE b # Null
  BY <1>2, ReleaseIs
<1>3. QED
  BY <1>1, <1>2

(* The end of a definition. *)
LEMMA CompEnd ==
  ASSUME Simple, NEW P, Pooled(P), Told(P), EndDef
  PROVE  /\ Simple' /\ archive' = archive
         /\ \E k \in Nat : \E Q, R :
              /\ Appended(P, Q, EndCommand, k)
              /\ Ended(Q, R, AppendCmd(EndCommand).ok, compId)
              /\ Pooled(R)' /\ Told(R)'
<1> DEFINE a == AppendCmd(EndCommand)
           old == IF a.ok THEN macros[compId] ELSE a.s.comp.head
<1>1. /\ data' = Release(a.s, old).data /\ compPc' = Release(a.s, old).pc
      /\ macros' = (IF a.ok THEN [macros EXCEPT ![compId] = a.s.comp.head] ELSE macros)
      /\ taught' = (IF a.ok THEN [taught EXCEPT ![compId] = learned \o Bytes(EndCommand)]
                    ELSE taught)
      /\ learning' = FALSE /\ learned' = <<>> /\ archive' = archive
  BY DEF EndDef
<1>2. PICK k \in Nat : \E Q : Appended(P, Q, EndCommand, k)
  BY AppendTold DEF Pooled, Told, Simple, Given
<1>3. PICK Q : Appended(P, Q, EndCommand, k)
  BY <1>2
<1>4. Simple' /\ \E R : Pooled(R)' /\ Ended(Q, R, a.ok, compId)
  BY <1>3, EndStep DEF Appended
<1>5. PICK R : Pooled(R)' /\ Ended(Q, R, a.ok, compId)
  BY <1>4
<1> HIDE DEF old
<1>6. data' = a.s.data /\ compPc' = a.s.pc
  BY <1>1, <1>3, ReleaseKeeps DEF Appended
<1> HIDE DEF a
<1>7. compPc'[2] \in Offset
  <2>1. CASE learning
    BY <1>3, <1>6, <2>1, PlaceInBlock DEF Appended, a
  <2>2. CASE ~learning
    BY <1>3, <1>6, <2>2 DEF Appended, State, a, Told
  <2>3. QED
    BY <2>1, <2>2
<1>8. a.ok => Learns(data', compPc', Q[Compiled], learned \o Bytes(EndCommand))
  BY <1>3, <1>6 DEF Appended, a
<1>9. \A m \in MacroId : macros[m] # Null => Holds(data', Q[Macro(m)], taught[m])
  <2> SUFFICES ASSUME NEW m \in MacroId, macros[m] # Null
               PROVE  Holds(data', Q[Macro(m)], taught[m])
    OBVIOUS
  <2>1. Holds(data, P[Macro(m)], taught[m])
    BY DEF Told
  <2>2. \A j \in 1..Len(P[Macro(m)]) : data'[P[Macro(m)][j]] = data[P[Macro(m)][j]]
    BY <1>3, <1>6 DEF Appended, a
  <2>3. Q[Macro(m)] = P[Macro(m)]
    BY <1>3, Holders DEF Appended, Moves
  <2>4. QED
    BY <2>1, <2>2, <2>3, HoldsStill
<1>10. compId \in MacroId /\ macros \in [MacroId -> Block \cup {Null}]
       /\ taught \in [MacroId -> Seq(Byte)]
  BY DEF Simple, Firsts, Told
<1>11. taught' \in [MacroId -> Seq(Byte)]
  <2>1. a.ok => learned \o Bytes(EndCommand) \in Seq(Byte)
    BY <1>8 DEF Learns
  <2>2. QED
    BY <1>1, <1>10, <2>1
<1>12. ASSUME NEW m \in MacroId, macros'[m] # Null PROVE Holds(data', R[Macro(m)], taught'[m])
  <2>1. CASE a.ok /\ m = compId
    <3>1. /\ taught'[m] = learned \o Bytes(EndCommand) /\ R[Macro(m)] = Q[Compiled]
      BY <1>1, <1>5, <1>10, <2>1 DEF Ended
    <3>2. QED
      BY <1>8, <2>1, <3>1 DEF Learns, Holds
  <2>2. CASE ~(a.ok /\ m = compId)
    <3>1. /\ taught'[m] = taught[m] /\ macros'[m] = macros[m] /\ R[Macro(m)] = Q[Macro(m)]
      BY <1>1, <1>5, <1>10, <2>2 DEF Ended
    <3>2. QED
      BY <1>9, <1>12, <3>1
  <2>3. QED
    BY <2>1, <2>2
<1>13. Told(R)'
  <2>1. learned' \in Seq(Byte)
    BY <1>1
  <2>2. QED
    BY <1>1, <1>7, <1>11, <1>12, <2>1 DEF Told
<1>14. QED
  BY <1>1, <1>3, <1>4, <1>5, <1>13 DEF a

(* The other steps write to no block, or to all of them. *)
LEMMA CompOther ==
  ASSUME TRUE \notin ArchiveWhen, CompInv,
         \/ \E m \in MacroId : StartDef(m)
         \/ SaveMacros \/ RestoreMacros
         \/ \E midSave \in BOOLEAN : Reset(midSave)
  PROVE  CompInv'
<1>1. PICK P : Pooled(P) /\ Told(P)
  BY DEF CompInv
<1>2. Simple
  BY DEF CompInv
<1>3. ASSUME NEW m \in MacroId, StartDef(m) PROVE CompInv'
  <2>1. Simple' /\ Pooled(P)' /\ archive' = archive
    BY <1>1, <1>2, <1>3, StartLists DEF StartDef
  <2>2. Told(P)'
    <3>1. UNCHANGED <<data, macros, taught>>
      BY <1>3 DEF StartDef, pool
    <3>2. CASE learning
      <4>1. UNCHANGED <<compPc, compId, learning, learned>>
        BY <1>3, <3>2 DEF StartDef
      <4>2. QED
        BY <1>1, <3>1, <4>1 DEF Told
    <3>3. CASE ~learning
      <4>1. compPc' = <<Null, 0>> /\ learning' = TRUE /\ learned' = <<>> /\ P[Compiled] = <<>>
        BY <1>1, <1>3, <3>3 DEF StartDef, Pooled
      <4>2. Learns(data', compPc', P[Compiled], learned')
        BY <4>1, LearnsNothing
      <4>3. compPc'[2] \in Offset /\ learned' \in Seq(Byte)
        BY <4>1, Positions
      <4>4. QED
        BY <1>1, <3>1, <4>2, <4>3 DEF Told
    <3>4. QED
      BY <3>2, <3>3
  <2>3. QED
    BY <2>1, <2>2 DEF CompInv, Archived, ArchiveTold
<1>4. CASE SaveMacros
  <2>1. Simple' /\ Pooled(P)' /\ Archived(P)'
    BY <1>1, <1>2, <1>4, SaveLists
  <2>2. Told(P)'
    BY <1>1, <1>4 DEF SaveMacros, Told, pool, compiler, history
  <2>3. ArchiveTold(P)'
    <3>1. archive'.taught = taught /\ archive'.macros = macros /\ archive'.data = data
      BY <1>4 DEF SaveMacros
    <3>2. QED
      BY <1>1, <3>1 DEF ArchiveTold, Told
  <2>4. QED
    BY <2>1, <2>2, <2>3 DEF CompInv
<1>5. CASE RestoreMacros
  <2>1. archive' = archive /\ learning = FALSE /\ UNCHANGED <<compPc, learning, learned>>
    BY <1>2, <1>5 DEF RestoreMacros, compiler, Simple
  <2>2. Simple' /\ \E Q : Pooled(Q)' /\ Told(Q)'
    <3>1. CASE archive.good
      <4>1. PICK Q : Archived(Q) /\ ArchiveTold(Q)
        BY <3>1 DEF CompInv
      <4>2. Simple' /\ Pooled(Q)'
        BY <1>1, <1>2, <1>5, <3>1, <4>1, RestoreLists
      <4>3. data' = archive.data /\ macros' = archive.macros /\ taught' = archive.taught
        BY <1>5, <3>1 DEF RestoreMacros
      <4>4. Told(Q)'
        BY <1>1, <2>1, <4>1, <4>3 DEF Told, ArchiveTold
      <4>5. QED
        BY <4>2, <4>4
    <3>2. CASE ~archive.good
      <4>1. UNCHANGED <<pool, taught>>
        BY <1>5, <3>2 DEF RestoreMacros
      <4>2. Told(P)'
        BY <1>1, <2>1, <4>1 DEF Told, pool
      <4>3. QED
        BY <1>1, <1>2, <1>5, <3>2, <4>2, RestoreLists
    <3>3. QED
      BY <3>1, <3>2
  <2>3. QED
    BY <2>1, <2>2 DEF CompInv, Archived, ArchiveTold
<1>6. ASSUME NEW midSave \in BOOLEAN, Reset(midSave) PROVE CompInv'
  <2>1. Simple' /\ (archive'.good => archive' = archive)
    BY <1>2, <1>6, ResetLists
  <2>2. PICK Q : Pooled(Q)'
    BY <1>2, <1>6, ResetLists
  <2>3. Told(Q)'
    <3>1. /\ learned' = <<>> /\ taught' = [m \in MacroId |-> <<>>] /\ compPc'[2] = 0
          /\ learning' = FALSE /\ \A m \in MacroId : macros'[m] = Null
      BY <1>6 DEF Reset, Undefined
    <3>2. <<>> \in Seq(Byte) /\ 0 \in Offset
      BY Positions
    <3>3. /\ learned' \in Seq(Byte) /\ taught' \in [MacroId -> Seq(Byte)]
          /\ compPc'[2] \in Offset
      BY <3>1, <3>2
    <3>4. QED
      BY <3>1, <3>3 DEF Told
  <2>4. QED
    BY <2>1, <2>2, <2>3 DEF CompInv, Archived, ArchiveTold
<1>7. QED
  BY <1>3, <1>4, <1>5, <1>6

(* Every step keeps the invariant. *)
LEMMA CompStep ==
  ASSUME TRUE \notin ArchiveWhen, CompInv, [Next]_vars
  PROVE  CompInv'
<1>1. PICK P : Pooled(P) /\ Told(P)
  BY DEF CompInv
<1>2. Simple
  BY DEF CompInv
<1>3. CASE UNCHANGED vars
  <2>1. Pooled(P)' /\ Told(P)' /\ Simple'
    BY <1>1, <1>2, <1>3 DEF vars, pool, compiler, history, Simple, Pooled, Told
  <2>2. archive' = archive
    BY <1>3 DEF vars
  <2>3. QED
    BY <2>1, <2>2 DEF CompInv, Archived, ArchiveTold
<1>4. ASSUME NEW c \in Commands, Append1(c) PROVE CompInv'
  <2>1. Simple' /\ archive' = archive /\ \E Q : Pooled(Q)' /\ Told(Q)'
    BY <1>1, <1>2, <1>4, CompAppend
  <2>2. QED
    BY <2>1 DEF CompInv, Archived, ArchiveTold
<1>5. CASE EndDef
  <2>1. Simple' /\ archive' = archive /\ \E R : Pooled(R)' /\ Told(R)'
    BY <1>1, <1>2, <1>5, CompEnd
  <2>2. QED
    BY <2>1 DEF CompInv, Archived, ArchiveTold
<1>6. CASE Next
  BY <1>4, <1>5, <1>6, CompOther DEF Next
<1>7. QED
  BY <1>3, <1>6

(* The invariant holds of every behaviour. *)
LEMMA CompInvariance ==
  ASSUME TRUE \notin ArchiveWhen
  PROVE  Spec => []CompInv
<1>1. Init => CompInv
  BY CompInit
<1>2. CompInv /\ [Next]_vars => CompInv'
  BY CompStep
<1>3. QED
  BY <1>1, <1>2, PTL DEF Spec
-----------------------------------------------------------------------------
(* What the properties read. *)

(* A list that holds code reads as it. *)
LEMMA ReadsHeld ==
  ASSUME NEW b, Blocks(b) \in Seq(Block), NEW code \in Seq(Byte), Holds(data, Blocks(b), code)
  PROVE  Reads(b, code)
<1> DEFINE s == Blocks(b)
           n == Len(s) * BlockSize
           str == [i \in 1..n |-> data[s[(i - 1) \div BlockSize + 1]][(i - 1) % BlockSize]]
<1>1. Stream(b) = str
  BY DEF Stream
<1>2. BlockSize \in Nat /\ Len(s) \in Nat /\ Len(code) \in Nat
  BY SizesAssumption
<1>3. n \in Nat /\ Len(code) <= n
  <2>1. n \in Nat
    BY <1>2
  <2>2. At(Len(s) + 1, 0) = n
    <3>1. (Len(s) + 1) - 1 = Len(s)
      BY <1>2
    <3>2. QED
      BY <2>1, <3>1 DEF At
  <2>3. QED
    BY <2>1, <2>2 DEF Holds, Content
<1>4. ASSUME NEW i \in 1..n PROVE str[i] = IF i <= Len(code) THEN code[i] ELSE Zero
  <2> DEFINE q == i - 1
             j == q \div BlockSize + 1
             r == q % BlockSize
  <2>1. q \in Nat /\ q < Len(s) * BlockSize /\ q + 1 = i
    BY <1>3
  <2>2. str[i] = data[s[j]][r]
    OBVIOUS
  <2> HIDE DEF q, str, s
  <2>3. j \in 1..Len(s) /\ r \in Offset /\ At(j, r) = q
    BY <1>2, <2>1, PositionOf
  <2> HIDE DEF j, r
  <2>4. data[s[j]][r] = IF q < Len(code) THEN code[q + 1] ELSE Zero
    BY <2>3 DEF Holds, Content, s
  <2>5. q < Len(code) <=> i <= Len(code)
    BY <1>2, <2>1
  <2>6. QED
    BY <2>1, <2>2, <2>4, <2>5
<1> HIDE DEF n
<1>5. Len(str) = n /\ DOMAIN str = 1..n
  BY <1>3
<1> HIDE DEF str
<1>6. QED
  BY <1>1, <1>3, <1>4, <1>5 DEF Reads

(* A list that goes on behind the first blocks of another. *)
LEMMA GoesOn ==
  ASSUME NEW S, NEW was \in Seq(S), NEW is \in Seq(S), NEW n \in 0..Len(was),
         Len(was) - n <= Len(is), \A i \in 1..Len(was) - n : is[i] = was[i + n]
  PROVE  IsPrefix(SubSeq(was, n + 1, Len(was)), is)
<1> DEFINE l == Len(was)
           d == l - n
           p == SubSeq(was, n + 1, l)
<1>1. l \in Nat /\ n \in Nat /\ d \in Nat /\ Len(is) \in Nat /\ d <= Len(is)
  OBVIOUS
<1>2. /\ p \in Seq(S) /\ Len(p) = d /\ \A i \in 1..d : p[i] = was[n + i]
  OBVIOUS
<1>3. \A i \in 1..d : was[n + i] = is[i]
  <2>1. \A i \in 1..d : i + n = n + i
    BY <1>1
  <2>2. QED
    BY <2>1
<1> HIDE DEF d, p
<1> DEFINE h == SubSeq(is, 1, d)
<1>4. h \in Seq(S) /\ Len(h) = d /\ \A i \in 1..d : h[i] = is[i]
  BY <1>1
<1> HIDE DEF h
<1>5. SubSeq(p, 1, d) = p
  BY <1>1, <1>2
<1>6. p = h
  BY <1>1, <1>2, <1>3, <1>4, SameList
<1>7. IsPrefix(p, is)
  BY <1>1, <1>2, <1>5, <1>6 DEF IsPrefix, h
<1>8. QED
  BY <1>7 DEF p

\* The free list goes on behind its first n blocks, and holds none of these.
Reused(was, is, n) ==
  /\ n \in 0..Len(was) /\ IsPrefix(SubSeq(was, n + 1, Len(was)), is)
  /\ \A i \in 1..n : ~Contains(is, was[i])

(* The blocks that a command allocated are the first ones, and are not on  *)
(* the free list afterwards.                                               *)
LEMMA ReusedAfterAppend ==
  ASSUME NEW P, Apart(P), NEW Q, Apart(Q), NEW k \in Nat, Moves(P, Q, FreeList, Compiled, k)
  PROVE  Reused(P[FreeList], Q[FreeList], k)
<1>1. /\ P[FreeList] \in Seq(Block) /\ Q[FreeList] \in Seq(Block)
      /\ Len(P[FreeList]) \in Nat /\ Len(Q[FreeList]) \in Nat
  BY Holders DEF Apart
<1>2. /\ Len(Q[FreeList]) = Len(P[FreeList]) - k
      /\ \A i \in 1..Len(P[FreeList]) - k : Q[FreeList][i] = P[FreeList][i + k]
  BY DEF Moves
<1>3. k \in 0..Len(P[FreeList])
  BY <1>1, <1>2
<1>4. IsPrefix(SubSeq(P[FreeList], k + 1, Len(P[FreeList])), Q[FreeList])
  <2> DEFINE f == P[FreeList]
             g == Q[FreeList]
  <2>1. f \in Seq(Block) /\ g \in Seq(Block) /\ k \in 0..Len(f)
    BY <1>1, <1>3
  <2>2. Len(f) - k <= Len(g) /\ \A i \in 1..Len(f) - k : g[i] = f[i + k]
    BY <1>1, <1>2
  <2> HIDE DEF f, g
  <2>3. IsPrefix(SubSeq(f, k + 1, Len(f)), g)
    BY <2>1, <2>2, GoesOn
  <2>4. QED
    BY <2>3 DEF f, g
<1>5. ASSUME NEW i \in 1..k, NEW j \in 1..Len(Q[FreeList])
      PROVE  Q[FreeList][j] # P[FreeList][i]
  <2>1. /\ Q[Compiled][Len(P[Compiled]) + i] = P[FreeList][i]
        /\ Len(Q[Compiled]) = Len(P[Compiled]) + k /\ Len(P[Compiled]) \in Nat
    <3>1. P[Compiled] \in Seq(Block)
      BY Holders DEF Apart
    <3>2. QED
      BY <3>1 DEF Moves
  <2> DEFINE h == Len(P[Compiled]) + i
  <2>2. h \in 1..Len(Q[Compiled])
    BY <2>1
  <2>3. Q[Compiled][h] = P[FreeList][i]
    BY <2>1
  <2> HIDE DEF h
  <2>4. QED
    BY <2>2, <2>3, Holders DEF Apart
<1>6. QED
  BY <1>3, <1>4, <1>5 DEF Reused, Contains

(* And so they are at the end of a definition, where the old macro is      *)
(* released, or the new one if it could not be finished: nothing was       *)
(* allocated then.                                                         *)
LEMMA ReusedAfterEnd ==
  ASSUME NEW P, Apart(P), NEW Q, Apart(Q), NEW k \in Nat, Moves(P, Q, FreeList, Compiled, k),
         NEW R, Apart(R), NEW ok \in BOOLEAN, NEW m \in MacroId, Ended(Q, R, ok, m),
         ~ok => k = 0
  PROVE  Reused(P[FreeList], R[FreeList], k)
<1>1. /\ P[FreeList] \in Seq(Block) /\ Q[FreeList] \in Seq(Block) /\ R[FreeList] \in Seq(Block)
      /\ Len(P[FreeList]) \in Nat /\ Len(Q[FreeList]) \in Nat /\ Len(R[FreeList]) \in Nat
  BY Holders DEF Apart
<1>2. PICK s \in Seq(Block) : Returned(Q, R, s)
  <2>1. Q[Macro(m)] \in Seq(Block) /\ Q[Compiled] \in Seq(Block)
    BY Holders DEF Apart
  <2>2. QED
    BY <2>1 DEF Ended
<1>3. /\ Len(Q[FreeList]) = Len(P[FreeList]) - k
      /\ \A i \in 1..Len(P[FreeList]) - k : Q[FreeList][i] = P[FreeList][i + k]
  BY DEF Moves
<1>4. /\ Len(Q[FreeList]) <= Len(R[FreeList])
      /\ \A i \in 1..Len(Q[FreeList]) : R[FreeList][i] = Q[FreeList][i]
  <2>1. Len(s) \in Nat
    OBVIOUS
  <2>2. QED
    BY <1>1, <1>2, <2>1 DEF Returned
<1>5. k \in 0..Len(P[FreeList])
  BY <1>1, <1>3
<1>6. IsPrefix(SubSeq(P[FreeList], k + 1, Len(P[FreeList])), R[FreeList])
  <2> DEFINE f == P[FreeList]
             g == R[FreeList]
  <2>1. f \in Seq(Block) /\ g \in Seq(Block) /\ k \in 0..Len(f)
    BY <1>1, <1>5
  <2>2. Len(f) - k <= Len(g) /\ \A i \in 1..Len(f) - k : g[i] = f[i + k]
    BY <1>1, <1>3, <1>4
  <2> HIDE DEF f, g
  <2>3. IsPrefix(SubSeq(f, k + 1, Len(f)), g)
    BY <2>1, <2>2, GoesOn
  <2>4. QED
    BY <2>3 DEF f, g
<1>7. ASSUME NEW i \in 1..k, NEW j \in 1..Len(R[FreeList])
      PROVE  R[FreeList][j] # P[FreeList][i]
  <2>1. ok /\ R[Macro(m)] = Q[Compiled]
    BY <1>7 DEF Ended
  <2>2. /\ R[Macro(m)][Len(P[Compiled]) + i] = P[FreeList][i]
        /\ Len(R[Macro(m)]) = Len(P[Compiled]) + k /\ Len(P[Compiled]) \in Nat
    <3>1. P[Compiled] \in Seq(Block)
      BY Holders DEF Apart
    <3>2. QED
      BY <2>1, <3>1 DEF Moves
  <2> DEFINE h == Len(P[Compiled]) + i
  <2>3. h \in 1..Len(R[Macro(m)])
    BY <2>2
  <2>4. R[Macro(m)][h] = P[FreeList][i]
    BY <2>2
  <2> HIDE DEF h
  <2>5. QED
    BY <2>3, <2>4, Holders DEF Apart
<1>8. QED
  BY <1>5, <1>6, <1>7 DEF Reused, Contains
-----------------------------------------------------------------------------
(* Theorems.                                                               *)

(* Every variable has its type; the offset of comp-pc is always inside a   *)
(* block.                                                                  *)
THEOREM CompTypeOK ==
  ASSUME TRUE \notin ArchiveWhen
  PROVE  Spec => []TypeOK
<1>1. Spec => []CompInv
  BY CompInvariance
<1>2. CompInv => TypeOK
  <2> SUFFICES ASSUME CompInv PROVE TypeOK
    OBVIOUS
  <2>1. PICK P : Pooled(P) /\ Told(P)
    BY DEF CompInv
  <2>2. /\ next \in [Block -> Block \cup {Null}] /\ free \in Header /\ comp \in Header
    BY <2>1 DEF Pooled, Pool, Lists, Queue
  <2>3. freeCount \in Nat
    BY <2>1, Holders, HeldLength DEF Pooled, Pool, Lists
  <2>4. compPc \in (Block \cup {Null}) \X (0..BlockSize - 1)
    BY <2>1 DEF Told, CompInv, Simple, Place, Offset
  <2>5. QED
    BY <2>1, <2>2, <2>3, <2>4 DEF TypeOK, CompInv, Simple, Data, Firsts, Told
<1>3. QED
  BY <1>1, <1>2, PTL

(* Every macro is what it was taught, and the one being learned is what it *)
(* has been taught so far, byte for byte, whatever was refused on the way, *)
(* wherever the pool ran out, and after a restore from the archive; if     *)
(* macros are archived only outside a definition.                          *)
THEOREM CompMacrosAsTaught ==
  ASSUME TRUE \notin ArchiveWhen
  PROVE  Spec => []MacrosAsTaught
<1>1. Spec => []CompInv
  BY CompInvariance
<1>2. CompInv => MacrosAsTaught
  <2> SUFFICES ASSUME CompInv PROVE MacrosAsTaught
    OBVIOUS
  <2>1. PICK P : Pooled(P) /\ Told(P)
    BY DEF CompInv
  <2>2. /\ CompBlocks = P[Compiled] /\ \A m \in MacroId : Blocks(macros[m]) = P[Macro(m)]
    BY <2>1, ReadsLists
  <2>3. \A o \in Holder : P[o] \in Seq(Block)
    BY <2>1 DEF Pooled, Pool, Lists, Apart
  <2>4. ASSUME NEW m \in MacroId, macros[m] # Null PROVE Reads(macros[m], taught[m])
    <3>1. Blocks(macros[m]) \in Seq(Block)
      BY <2>2, <2>3, Holders
    <3>2. taught[m] \in Seq(Byte) /\ Holds(data, Blocks(macros[m]), taught[m])
      BY <2>1, <2>2, <2>4 DEF Told
    <3>3. QED
      BY <3>1, <3>2, ReadsHeld
  <2>5. ASSUME learning PROVE Reads(comp.head, learned)
    <3>1. Blocks(comp.head) \in Seq(Block) /\ Blocks(comp.head) = P[Compiled]
      BY <2>2, <2>3, Holders DEF CompBlocks
    <3>2. learned \in Seq(Byte) /\ Holds(data, Blocks(comp.head), learned)
      BY <2>1, <2>5, <3>1 DEF Told, Learns, Holds
    <3>3. QED
      BY <3>1, <3>2, ReadsHeld
  <2>6. QED
    BY <2>4, <2>5 DEF MacrosAsTaught
<1>3. QED
  BY <1>1, <1>2, PTL

(* Released blocks are reused last: whatever a command allocates comes off *)
(* the front of the free list and what it releases goes behind all that    *)
(* stay.  A block has room for the two bytes of an end command, or one     *)
(* that cannot be stored would allocate in vain.                           *)
THEOREM CompReusedLast ==
  ASSUME TRUE \notin ArchiveWhen, BlockSize > 1
  PROVE  Spec => ReusedLast
<1>1. Spec => []CompInv
  BY CompInvariance
<1>2. ASSUME CompInv, (\E c \in Commands : Append1(c)) \/ EndDef
      PROVE  \E n \in 0..Len(FreeBlocks) :
               /\ IsPrefix(SubSeq(FreeBlocks, n + 1, Len(FreeBlocks)), FreeBlocks')
               /\ \A i \in 1..n : ~Contains(FreeBlocks', FreeBlocks[i])
  <2>1. PICK P : Pooled(P) /\ Told(P)
    BY <1>2 DEF CompInv
  <2>2. Simple
    BY <1>2 DEF CompInv
  <2>3. FreeBlocks = P[FreeList] /\ Apart(P)
    BY <2>1, ReadsLists DEF Pooled, Pool, Lists
  <2>4. ASSUME NEW R, Pooled(R)' PROVE FreeBlocks' = R[FreeList] /\ Apart(R)
    <3>1. Lists(R, next') /\ free'.head = First(R[FreeList])
      BY <2>4 DEF Pooled, Pool, Queue
    <3>2. Chain(next', free'.head, NBlocks) = R[FreeList]
      BY <3>1, Holders, ListRead
    <3>3. QED
      BY <3>1, <3>2 DEF FreeBlocks, Blocks, Lists
  <2>5. \E n \in Nat : Reused(P[FreeList], FreeBlocks', n)
    <3>1. ASSUME NEW c \in Commands, Append1(c)
          PROVE  \E n \in Nat : Reused(P[FreeList], FreeBlocks', n)
      <4>1. PICK k \in Nat : \E Q : Appended(P, Q, c, k) /\ Pooled(Q)'
        BY <2>1, <2>2, <3>1, CompAppend
      <4>2. PICK Q : Appended(P, Q, c, k) /\ Pooled(Q)'
        BY <4>1
      <4>3. Moves(P, Q, FreeList, Compiled, k)
        BY <4>2 DEF Appended
      <4>4. QED
        BY <2>3, <2>4, <4>2, <4>3, ReusedAfterAppend
    <3>2. CASE EndDef
      <4>1. PICK k \in Nat : \E Q, R :
              /\ Appended(P, Q, EndCommand, k)
              /\ Ended(Q, R, AppendCmd(EndCommand).ok, compId) /\ Pooled(R)'
        BY <2>1, <2>2, <3>2, CompEnd
      <4>2. PICK Q, R :
              /\ Appended(P, Q, EndCommand, k)
              /\ Ended(Q, R, AppendCmd(EndCommand).ok, compId) /\ Pooled(R)'
        BY <4>1
      <4>3. Moves(P, Q, FreeList, Compiled, k) /\ Apart(Q)
        BY <4>2 DEF Appended, PoolOf, Pool, Lists
      <4> DEFINE ok == AppendCmd(EndCommand).ok
      <4>4. ~ok => k = 0
        <5>1. EndCommand.len <= 1 /\ BlockSize >= 2 /\ compPc[2] < BlockSize
          BY <2>1, SizesAssumption DEF EndCommand, Told, Offset
        <5>2. QED
          BY <4>2, <5>1 DEF Appended
      <4>5. compId \in MacroId /\ Ended(Q, R, ok, compId) /\ Apart(R) /\ FreeBlocks' = R[FreeList]
        BY <2>2, <2>4, <4>2 DEF Simple
      <4> HIDE DEF ok
      <4>6. Reused(P[FreeList], R[FreeList], k)
        <5>1. CASE ok
          <6>1. Ended(Q, R, TRUE, compId)
            BY <4>5, <5>1 DEF Ended
          <6>2. QED
            BY <2>3, <4>3, <4>5, <6>1, ReusedAfterEnd
        <5>2. CASE ~ok
          <6>1. Ended(Q, R, FALSE, compId) /\ k = 0
            BY <4>4, <4>5, <5>2 DEF Ended
          <6>2. QED
            BY <2>3, <4>3, <4>5, <6>1, ReusedAfterEnd
        <5>3. QED
          BY <5>1, <5>2
      <4>7. QED
        BY <4>5, <4>6
    <3>3. QED
      BY <1>2, <3>1, <3>2
  <2>6. QED
    BY <2>3, <2>5 DEF Reused
<1>3. CompInv /\ [Next]_vars =>
        [(\E c \in Commands : Append1(c)) \/ EndDef =>
           LET was == FreeBlocks
               is == FreeBlocks'
           IN  \E n \in 0..Len(was) :
                 /\ IsPrefix(SubSeq(was, n + 1, Len(was)), is)
                 /\ \A i \in 1..n : ~Contains(is, was[i])]_vars
  BY <1>2
<1>4. QED
  BY <1>1, <1>3, PTL DEF Spec, ReusedLast
=============================================================================
