---------------------------- MODULE KernelProofs ----------------------------
(***************************************************************************)
(* What the operations of module Kernel do to a well-formed kernel record, *)
(* proved for every set of processes and semaphores: the effect of each    *)
(* one, the accounting of semaphores and the order of priorities.  The     *)
(* proofs about the components that wait and signal rest on these lemmas.  *)
(***************************************************************************)
EXTENDS Kernel, TLAPS, FiniteSetTheorems, SequenceTheorems,
        WellFoundedInduction

-----------------------------------------------------------------------------
(* Lemmas about the operators on lists. *)

(* A list that never has the same process twice. *)
Distinct(l) == \A i, j \in DOMAIN l : l[i] = l[j] => i = j

(* The strict order of the naturals as a set of pairs. *)
Less == {ss \in Nat \X Nat : ss[1] < ss[2]}

(* As the relation that < is ... *)
LEMMA LessIsRelation == OpToRel(<, Nat) = Less
  BY Zenon DEF OpToRel, Less

(* ... it is well-founded. *)
LEMMA LessWellFounded == IsWellFoundedOn(Less, Nat)
  BY NatLessThanWellFounded, LessIsRelation, Zenon

(* Every nonempty set of naturals has a least element. *)
LEMMA LeastNatural ==
  ASSUME NEW S \in SUBSET Nat, S # {}
  PROVE  \E n \in S : \A m \in S : n <= m
<1>1. \E n \in S : \A m \in S : <<m, n>> \notin Less
  <2> HIDE DEF Less
  <2> QED BY LessWellFounded, WFMin
<1>2. \A a, b \in Nat : a < b => <<a, b>> \in Less
  BY DEF Less
<1>3. PICK n \in S : \A m \in S : <<m, n>> \notin Less
  BY <1>1
<1>4. \A m \in S : ~(m < n)
  BY <1>2, <1>3
<1>5. QED
  BY <1>4

(* FirstFrom(k, from, S) is the least position, from "from" on, of a       *)
(* member of S, when there is one.                                         *)
LEMMA FirstFromProperties ==
  ASSUME NEW kk, kk.list \in Seq(Proc), NEW from \in Nat, NEW S,
         \E i \in DOMAIN kk.list : i >= from /\ kk.list[i] \in S
  PROVE  LET f == FirstFrom(kk, from, S)
         IN  /\ f \in DOMAIN kk.list /\ f >= from /\ kk.list[f] \in S
             /\ \A j \in DOMAIN kk.list : from <= j /\ j < f => kk.list[j] \notin S
<1> DEFINE T == {i \in DOMAIN kk.list : i >= from /\ kk.list[i] \in S}
<1>1. T \in SUBSET Nat /\ T # {}
  OBVIOUS
<1>2. PICK n \in T : \A m \in T : n <= m
  BY <1>1, LeastNatural
<1>3. /\ n \in DOMAIN kk.list
      /\ n >= from /\ kk.list[n] \in S
      /\ \A j \in DOMAIN kk.list : from <= j /\ j < n => kk.list[j] \notin S
  BY <1>2
<1>4. QED
  BY <1>3 DEF FirstFrom

(* Pos(k, p) is the position of a listed process. *)
LEMMA PosProperties ==
  ASSUME NEW kk, kk.list \in Seq(Proc), NEW p \in Listed(kk)
  PROVE  Pos(kk, p) \in DOMAIN kk.list /\ kk.list[Pos(kk, p)] = p
  BY DEF Pos, Listed

(* InsertAfter puts p behind the first n elements and keeps the others. *)
LEMMA InsertProperties ==
  ASSUME NEW l \in Seq(Proc), NEW n \in 0..Len(l), NEW p \in Proc
  PROVE  /\ InsertAfter(l, n, p) \in Seq(Proc)
         /\ Len(InsertAfter(l, n, p)) = Len(l) + 1
         /\ \A i \in 1..Len(l) + 1 : InsertAfter(l, n, p)[i] =
              IF i <= n THEN l[i] ELSE IF i = n + 1 THEN p ELSE l[i - 1]
<1> DEFINE a == SubSeq(l, 1, n)
           c == SubSeq(l, n + 1, Len(l))
<1>1. a \in Seq(Proc) /\ Len(a) = n /\ \A i \in 1..n : a[i] = l[i]
  BY SubSeqProperties
<1>2. /\ c \in Seq(Proc) /\ Len(c) = Len(l) - n
      /\ \A i \in 1..Len(l) - n : c[i] = l[n + i]
  BY SubSeqProperties
<1>3. <<p>> \in Seq(Proc) /\ Len(<<p>>) = 1 /\ <<p>>[1] = p
  OBVIOUS
<1> HIDE DEF a, c
<1>4. /\ a \o <<p>> \in Seq(Proc) /\ Len(a \o <<p>>) = n + 1
      /\ \A i \in 1..n + 1 : (a \o <<p>>)[i] = IF i <= n THEN l[i] ELSE p
  BY <1>1, <1>3, ConcatProperties
<1> DEFINE b == a \o <<p>>
<1> HIDE DEF b
<1>5. /\ b \o c \in Seq(Proc) /\ Len(b \o c) = Len(b) + Len(c)
      /\ \A i \in 1..Len(b) + Len(c) :
           (b \o c)[i] = IF i <= Len(b) THEN b[i] ELSE c[i - Len(b)]
  BY <1>2, <1>4, ConcatProperties DEF b
<1>6. b \in Seq(Proc) /\ Len(b) = n + 1
  BY <1>4 DEF b
<1>7. ASSUME NEW i \in 1..Len(l) + 1
      PROVE  (b \o c)[i] =
               IF i <= n THEN l[i] ELSE IF i = n + 1 THEN p ELSE l[i - 1]
  <2>1. CASE i <= n + 1
    BY <1>2, <1>4, <1>5, <1>6, <2>1 DEF b
  <2>2. CASE i > n + 1
    <3>1. i - (n + 1) \in 1..Len(l) - n /\ n + (i - (n + 1)) = i - 1
      BY <2>2
    <3>2. (b \o c)[i] = c[i - (n + 1)]
      BY <1>2, <1>5, <1>6, <2>2
    <3>3. QED
      BY <1>2, <2>2, <3>1, <3>2
  <2>3. i <= n + 1 \/ i > n + 1
    OBVIOUS
  <2>4. QED
    BY <2>1, <2>2, <2>3, Zenon
<1>8. InsertAfter(l, n, p) = b \o c
  BY DEF InsertAfter, a, b, c
<1>9. Len(b) + Len(c) = Len(l) + 1
  BY <1>2, <1>6
<1>10. QED
  BY <1>5, <1>7, <1>8, <1>9

(* Without removes the element at position n and keeps the others. *)
LEMMA WithoutProperties ==
  ASSUME NEW l \in Seq(Proc), NEW n \in 1..Len(l)
  PROVE  /\ Without(l, n) \in Seq(Proc)
         /\ Len(Without(l, n)) = Len(l) - 1
         /\ \A i \in 1..Len(l) - 1 :
              Without(l, n)[i] = IF i < n THEN l[i] ELSE l[i + 1]
<1> DEFINE a == SubSeq(l, 1, n - 1)
           c == SubSeq(l, n + 1, Len(l))
<1>1. a \in Seq(Proc) /\ Len(a) = n - 1 /\ \A i \in 1..n - 1 : a[i] = l[i]
  BY SubSeqProperties
<1>2. /\ c \in Seq(Proc) /\ Len(c) = Len(l) - n
      /\ \A i \in 1..Len(l) - n : c[i] = l[n + i]
  BY SubSeqProperties
<1> HIDE DEF a, c
<1>3. /\ a \o c \in Seq(Proc) /\ Len(a \o c) = Len(a) + Len(c)
      /\ \A i \in 1..Len(a) + Len(c) :
           (a \o c)[i] = IF i <= Len(a) THEN a[i] ELSE c[i - Len(a)]
  BY <1>1, <1>2, ConcatProperties
<1>4. ASSUME NEW i \in 1..Len(l) - 1
      PROVE  (a \o c)[i] = IF i < n THEN l[i] ELSE l[i + 1]
  <2>1. CASE i < n
    BY <1>1, <1>2, <1>3, <2>1
  <2>2. CASE i >= n
    <3>1. i - (n - 1) \in 1..Len(l) - n /\ n + (i - (n - 1)) = i + 1
      BY <2>2
    <3>2. (a \o c)[i] = c[i - (n - 1)]
      BY <1>1, <1>2, <1>3, <2>2
    <3>3. QED
      BY <1>2, <2>2, <3>1, <3>2
  <2>3. i < n \/ i >= n
    OBVIOUS
  <2>4. QED
    BY <2>1, <2>2, <2>3, Zenon
<1>5. Without(l, n) = a \o c
  BY DEF Without, a, c
<1>6. Len(a) + Len(c) = Len(l) - 1
  BY <1>1, <1>2
<1>7. QED
  BY <1>3, <1>4, <1>5, <1>6
-----------------------------------------------------------------------------
(* What each operation of the kernel does to a well-formed record. *)

(* The part of TypeOK that is about the kernel record. *)
KernelOK(kk) ==
  /\ kk \in KernelType
  /\ Len(kk.list) >= 1
  /\ Distinct(kk.list)
  /\ kk.list[Len(kk.list)] = NullProc
  /\ kk.pstate[NullProc] = Runnable
  /\ kk.pstate[kk.cproc] = Runnable

(* In the step from kk to k1 the processor went to the first process below *)
(* the running one that was runnable.                                      *)
GivesWay(kk, k1) ==
  \E f \in DOMAIN kk.list :
    /\ k1.cproc = kk.list[f] /\ Pos(kk, kk.cproc) < f
    /\ \A j \in DOMAIN kk.list :
         Pos(kk, kk.cproc) < j /\ j < f => kk.pstate[kk.list[j]] # Runnable

(* wait takes one from the semaphore; when nothing was left the caller     *)
(* becomes a waiter and the next runnable process below it runs.           *)
LEMMA WaitEffect ==
  ASSUME NEW kk, KernelOK(kk), NEW s \in Sem,
         kk.cproc \in Listed(kk), kk.cproc # NullProc
  PROVE  LET k1 == Wait(kk, s) IN
         /\ KernelOK(k1)
         /\ k1.list = kk.list
         /\ k1.count = [kk.count EXCEPT ![s] = @ - 1]
         /\ \/ /\ kk.count[s] >= 1
               /\ k1.pstate = kk.pstate /\ k1.cproc = kk.cproc
            \/ /\ kk.count[s] <= 0
               /\ k1.pstate = [kk.pstate EXCEPT ![kk.cproc] = s]
               /\ GivesWay(kk, k1)
<1> DEFINE n  == kk.count[s] - 1
           q  == Pos(kk, kk.cproc)
           ps == [kk.pstate EXCEPT ![kk.cproc] = s]
           kw == [kk EXCEPT !.count[s] = n, !.pstate[kk.cproc] = s]
           f  == FirstFrom(kw, q + 1, RunnableProcs(kw))
<1>1. /\ kk.list \in Seq(Proc) /\ kk.cproc \in Proc
      /\ kk.pstate \in [Proc -> Sem \cup {Runnable}]
      /\ kk.count \in [Sem -> Int] /\ n \in Int
  BY DEF KernelOK, KernelType
<1>2. q \in DOMAIN kk.list /\ kk.list[q] = kk.cproc
  BY <1>1, PosProperties
<1>3. CASE n >= 0
  <2>1. Wait(kk, s) = [kk EXCEPT !.count[s] = n]
    BY <1>3 DEF Wait
  <2> DEFINE k1 == Wait(kk, s)
  <2>2. /\ k1.list = kk.list /\ k1.pstate = kk.pstate /\ k1.cproc = kk.cproc
        /\ k1.count = [kk.count EXCEPT ![s] = n]
    BY <2>1 DEF KernelOK, KernelType
  <2>3. k1 \in KernelType
    BY <1>1, <2>1 DEF KernelOK, KernelType
  <2> HIDE DEF k1
  <2>4. KernelOK(k1)
    BY <2>2, <2>3 DEF KernelOK
  <2>5. kk.count[s] >= 1
    BY <1>1, <1>3
  <2>6. QED
    BY <2>2, <2>4, <2>5 DEF k1
<1>4. CASE ~(n >= 0)
  <2>1. /\ kw.list = kk.list /\ kw.pstate = ps
        /\ kw.count = [kk.count EXCEPT ![s] = n]
        /\ kw \in KernelType
    BY <1>1, SemAssumption DEF KernelOK, KernelType
  <2>2. Len(kk.list) \in DOMAIN kk.list /\ q < Len(kk.list)
    BY <1>1, <1>2 DEF KernelOK
  <2>3. RunnableProcs(kw) = {p \in Proc : ps[p] = Runnable}
    BY <2>1 DEF RunnableProcs
  <2>4. kw.list[Len(kk.list)] \in RunnableProcs(kw)
    BY <1>1, <2>1, <2>3, NullAssumption DEF KernelOK
  <2> HIDE DEF kw
  <2>5. /\ f \in DOMAIN kk.list /\ f >= q + 1
        /\ kk.list[f] \in RunnableProcs(kw)
        /\ \A j \in DOMAIN kk.list :
             q + 1 <= j /\ j < f => kk.list[j] \notin RunnableProcs(kw)
    BY <1>1, <1>2, <2>1, <2>2, <2>4, FirstFromProperties
  <2>6. Wait(kk, s) = [kw EXCEPT !.cproc = kk.list[f]]
    BY <1>4 DEF Wait, kw
  <2> DEFINE k1 == Wait(kk, s)
  <2> HIDE DEF f
  <2>7. /\ k1.list = kk.list /\ k1.pstate = ps /\ k1.cproc = kk.list[f]
        /\ k1.count = [kk.count EXCEPT ![s] = n]
        /\ k1 \in KernelType
    <3>1. kk.list[f] \in Proc
      BY <1>1, <2>5
    <3>2. k1 \in KernelType
      BY <2>1, <2>6, <3>1 DEF KernelType
    <3>3. /\ k1.list = kw.list /\ k1.pstate = kw.pstate
          /\ k1.cproc = kk.list[f] /\ k1.count = kw.count
      BY <2>1, <2>6 DEF KernelType
    <3>4. QED
      BY <2>1, <3>2, <3>3
  <2> HIDE DEF k1
  <2>8. KernelOK(k1)
    BY <1>1, <2>3, <2>5, <2>7, NullAssumption DEF KernelOK
  <2>9. \A j \in DOMAIN kk.list :
          q < j /\ j < f => kk.pstate[kk.list[j]] # Runnable
    <3> SUFFICES ASSUME NEW j \in DOMAIN kk.list, q < j, j < f
                 PROVE  kk.pstate[kk.list[j]] # Runnable
      OBVIOUS
    <3>1. kk.list[j] # kk.cproc /\ kk.list[j] \in Proc
      BY <1>1, <1>2 DEF KernelOK, Distinct
    <3>2. kk.list[j] \notin RunnableProcs(kw)
      BY <1>1, <1>2, <2>5
    <3>3. QED
      BY <1>1, <2>3, <3>1, <3>2
  <2>10. kk.count[s] <= 0 /\ q < f
    BY <1>1, <1>2, <1>4, <2>5
  <2>11. GivesWay(kk, k1)
    BY <2>5, <2>7, <2>9, <2>10 DEF GivesWay
  <2>12. QED
    BY <2>7, <2>8, <2>10, <2>11 DEF k1
<1>5. QED
  BY <1>3, <1>4

(* In the step from kk to k1 the waiter w became runnable, and running if   *)
(* the running process was not above it.                                   *)
Wakes(kk, k1, w) ==
  /\ k1.pstate = [kk.pstate EXCEPT ![w] = Runnable]
  /\ \/ Above(kk, kk.cproc, w) /\ k1.cproc = kk.cproc
     \/ ~Above(kk, kk.cproc, w) /\ k1.cproc = w

(* signal gives one to the semaphore; when it was negative the highest     *)
(* waiter of the list, if there is one, becomes runnable, and it also      *)
(* becomes the running process unless the running process is above it.     *)
LEMMA SignalEffect ==
  ASSUME NEW kk, KernelOK(kk), NEW s \in Sem
  PROVE  LET k1 == Signal(kk, s) IN
         /\ KernelOK(k1)
         /\ k1.list = kk.list
         /\ k1.count = [kk.count EXCEPT ![s] = @ + 1]
         /\ \/ /\ kk.count[s] >= 0 \/ Waiters(kk, s) = {}
               /\ k1.pstate = kk.pstate /\ k1.cproc = kk.cproc
            \/ kk.count[s] < 0 /\ \E w \in Waiters(kk, s) : Wakes(kk, k1, w)
<1> DEFINE n  == kk.count[s] + 1
           kc == [kk EXCEPT !.count[s] = n]
           f  == FirstFrom(kk, 1, Waiters(kk, s))
           w  == kk.list[f]
           kp == [kc EXCEPT !.pstate[w] = Runnable]
           k1 == Signal(kk, s)
<1>1. /\ kk.list \in Seq(Proc) /\ kk.cproc \in Proc
      /\ kk.pstate \in [Proc -> Sem \cup {Runnable}]
      /\ kk.count \in [Sem -> Int] /\ n \in Int
  BY DEF KernelOK, KernelType
<1>2. /\ kc \in KernelType
      /\ kc.list = kk.list /\ kc.pstate = kk.pstate /\ kc.cproc = kk.cproc
      /\ kc.count = [kk.count EXCEPT ![s] = @ + 1]
  BY <1>1 DEF KernelOK, KernelType
<1>3. CASE kk.count[s] >= 0 \/ Waiters(kk, s) = {}
  <2>1. k1 = kc
    BY <1>3 DEF Signal
  <2> HIDE DEF kc, k1
  <2>2. KernelOK(k1)
    BY <1>2, <2>1 DEF KernelOK
  <2>3. QED
    BY <1>2, <1>3, <2>1, <2>2 DEF k1
<1>4. CASE ~(kk.count[s] >= 0 \/ Waiters(kk, s) = {})
  <2>1. kk.count[s] < 0
    BY <1>1, <1>4
  <2>2. \E i \in DOMAIN kk.list : i >= 1 /\ kk.list[i] \in Waiters(kk, s)
    BY <1>1, <1>4 DEF Waiters, Listed
  <2>3. f \in DOMAIN kk.list /\ w \in Waiters(kk, s)
    BY <1>1, <2>2, FirstFromProperties
  <2>4. w \in Proc
    BY <1>1, <2>3
  <2>5. k1 = IF Above(kk, kk.cproc, w) THEN kp ELSE [kp EXCEPT !.cproc = w]
    BY <1>4 DEF Signal
  <2> HIDE DEF f, w, kc, k1
  <2>6. /\ kp \in KernelType
        /\ kp.list = kk.list /\ kp.cproc = kk.cproc
        /\ kp.pstate = [kk.pstate EXCEPT ![w] = Runnable]
        /\ kp.count = [kk.count EXCEPT ![s] = @ + 1]
    BY <1>1, <1>2, <2>4 DEF KernelType
  <2> HIDE DEF kp
  <2>7. /\ k1 \in KernelType
        /\ k1.list = kk.list
        /\ k1.pstate = [kk.pstate EXCEPT ![w] = Runnable]
        /\ k1.count = [kk.count EXCEPT ![s] = @ + 1]
        /\ \/ Above(kk, kk.cproc, w) /\ k1.cproc = kk.cproc
           \/ ~Above(kk, kk.cproc, w) /\ k1.cproc = w
    <3>1. CASE Above(kk, kk.cproc, w)
      BY <2>5, <2>6, <3>1
    <3>2. CASE ~Above(kk, kk.cproc, w)
      BY <2>4, <2>5, <2>6, <3>2 DEF KernelType
    <3>3. QED
      BY <3>1, <3>2
  <2>8. KernelOK(k1)
    BY <1>1, <2>4, <2>7, NullAssumption DEF KernelOK
  <2>9. Wakes(kk, k1, w)
    BY <2>7 DEF Wakes
  <2>10. QED
    BY <2>1, <2>3, <2>7, <2>8, <2>9 DEF k1
<1>5. QED
  BY <1>3, <1>4

(* The waiter that a signal wakes is above the others, which wait on. *)
LEMMA SignalInOrder ==
  ASSUME NEW kk, KernelOK(kk), NEW s \in Sem, NEW p \in Waiters(kk, s),
         Signal(kk, s).pstate[p] = Runnable
  PROVE  \A q \in Waiters(kk, s) \ {p} :
           Above(kk, p, q) /\ Signal(kk, s).pstate[q] = s
<1> DEFINE f  == FirstFrom(kk, 1, Waiters(kk, s))
           w  == kk.list[f]
           k1 == Signal(kk, s)
           kp == [kk EXCEPT !.count[s] = @ + 1, !.pstate[w] = Runnable]
<1>1. /\ kk.list \in Seq(Proc) /\ kk.pstate \in [Proc -> Sem \cup {Runnable}]
      /\ Runnable \notin Sem
  BY SemAssumption DEF KernelOK, KernelType
<1>2. \A q \in Waiters(kk, s) : q \in Proc /\ kk.pstate[q] = s /\ q \in Listed(kk)
  BY <1>1 DEF Waiters, Listed
<1>3. \E i \in DOMAIN kk.list : i >= 1 /\ kk.list[i] \in Waiters(kk, s)
  BY <1>1 DEF Waiters, Listed
<1>4. /\ f \in DOMAIN kk.list /\ w \in Waiters(kk, s)
      /\ \A j \in DOMAIN kk.list : 1 <= j /\ j < f => kk.list[j] \notin Waiters(kk, s)
  BY <1>1, <1>3, FirstFromProperties
<1>5. k1.pstate = kk.pstate \/ k1.pstate = [kk.pstate EXCEPT ![w] = Runnable]
  <2>1. \/ k1 = [kk EXCEPT !.count[s] = @ + 1]
        \/ k1 = [[kk EXCEPT !.count[s] = @ + 1] EXCEPT !.pstate[w] = Runnable]
        \/ k1 = [[[kk EXCEPT !.count[s] = @ + 1] EXCEPT !.pstate[w] = Runnable]
                   EXCEPT !.cproc = w]
    BY DEF Signal
  <2> HIDE DEF k1, f, w
  <2>2. QED
    BY <2>1 DEF KernelOK, KernelType
<1> HIDE DEF k1, f, w
<1>6. p = w /\ k1.pstate = [kk.pstate EXCEPT ![w] = Runnable]
  BY <1>1, <1>2, <1>4, <1>5 DEF k1
<1>7. ASSUME NEW q \in Waiters(kk, s) \ {p}
      PROVE  Above(kk, p, q) /\ k1.pstate[q] = s
  <2>1. PICK j \in DOMAIN kk.list : kk.list[j] = q
    BY <1>2 DEF Listed
  <2>2. j # f /\ ~(j < f) /\ kk.list[f] = p
    BY <1>1, <1>4, <1>6, <1>7, <2>1 DEF w
  <2>3. f < j
    BY <1>1, <1>4, <2>1, <2>2
  <2>4. Above(kk, p, q)
    BY <1>4, <2>1, <2>2, <2>3 DEF Above
  <2>5. QED
    BY <1>1, <1>2, <1>6, <2>4
<1>8. QED
  BY <1>7 DEF k1

(* resched runs the first runnable process of the list. *)
LEMMA ReschedEffect ==
  ASSUME NEW kk, KernelOK(kk)
  PROVE  LET k1 == Resched(kk) IN
         /\ KernelOK(k1)
         /\ k1.list = kk.list /\ k1.pstate = kk.pstate /\ k1.count = kk.count
         /\ \E f \in DOMAIN kk.list :
              /\ k1.cproc = kk.list[f]
              /\ \A j \in DOMAIN kk.list :
                   j < f => kk.pstate[kk.list[j]] # Runnable
<1> DEFINE f  == FirstFrom(kk, 1, RunnableProcs(kk))
           k1 == Resched(kk)
<1>1. /\ kk.list \in Seq(Proc) /\ kk.pstate \in [Proc -> Sem \cup {Runnable}]
  BY DEF KernelOK, KernelType
<1>2. /\ Len(kk.list) \in DOMAIN kk.list /\ Len(kk.list) >= 1
      /\ kk.list[Len(kk.list)] \in RunnableProcs(kk)
  BY <1>1, NullAssumption DEF KernelOK, RunnableProcs
<1>3. /\ f \in DOMAIN kk.list /\ kk.list[f] \in RunnableProcs(kk)
      /\ \A j \in DOMAIN kk.list :
           1 <= j /\ j < f => kk.list[j] \notin RunnableProcs(kk)
  BY <1>1, <1>2, FirstFromProperties
<1>4. k1 = [kk EXCEPT !.cproc = kk.list[f]]
  BY DEF Resched
<1> HIDE DEF f, k1
<1>5. /\ kk.list[f] \in Proc /\ kk.pstate[kk.list[f]] = Runnable
      /\ \A j \in DOMAIN kk.list : j < f => kk.pstate[kk.list[j]] # Runnable
  BY <1>1, <1>3 DEF RunnableProcs
<1>6. /\ k1 \in KernelType /\ k1.cproc = kk.list[f]
      /\ k1.list = kk.list /\ k1.pstate = kk.pstate /\ k1.count = kk.count
  BY <1>4, <1>5 DEF KernelOK, KernelType
<1>7. KernelOK(k1)
  BY <1>5, <1>6 DEF KernelOK
<1>8. QED
  BY <1>3, <1>5, <1>6, <1>7 DEF k1

(* An unlisted process put into the list is runnable, is above the running *)
(* process only when it is inserted in front of it, and leaves the order   *)
(* of the others as it was.                                                *)
LEMMA InsertEffect ==
  ASSUME NEW kk, KernelOK(kk), NEW n \in 0..Len(kk.list) - 1,
         NEW p \in Proc \ Listed(kk)
  PROVE  LET k1 == Insert(kk, n, p) IN
         /\ KernelOK(k1)
         /\ Listed(k1) = Listed(kk) \cup {p}
         /\ k1.pstate = [kk.pstate EXCEPT ![p] = Runnable]
         /\ k1.count = kk.count /\ k1.cproc = kk.cproc
         /\ \A x, y \in Proc : Above(k1, x, y) /\ x # p /\ y # p => Above(kk, x, y)
         /\ \A y \in Listed(kk) : Above(k1, p, y) => n < Pos(kk, y)
<1> DEFINE l  == kk.list
           m  == InsertAfter(l, n, p)
           k1 == Insert(kk, n, p)
<1>1. /\ l \in Seq(Proc) /\ Len(l) >= 1 /\ Distinct(l) /\ n \in 0..Len(l)
      /\ kk.pstate \in [Proc -> Sem \cup {Runnable}]
  BY DEF KernelOK, KernelType
<1>2. /\ m \in Seq(Proc) /\ Len(m) = Len(l) + 1
      /\ \A i \in 1..Len(l) + 1 :
           m[i] = IF i <= n THEN l[i] ELSE IF i = n + 1 THEN p ELSE l[i - 1]
  <2>1. p \in Proc
    OBVIOUS
  <2> HIDE DEF l
  <2>2. QED
    BY <1>1, <2>1, InsertProperties
<1>3. k1 = [kk EXCEPT !.pstate[p] = Runnable, !.list = m]
  BY DEF Insert
<1> HIDE DEF m, k1
<1>4. /\ k1 \in KernelType /\ k1.list = m
      /\ k1.pstate = [kk.pstate EXCEPT ![p] = Runnable]
      /\ k1.count = kk.count /\ k1.cproc = kk.cproc
  BY <1>2, <1>3 DEF KernelOK, KernelType
<1> DEFINE old(i) == IF i <= n THEN i ELSE i - 1
<1>5. /\ DOMAIN m = 1..Len(l) + 1 /\ DOMAIN l = 1..Len(l)
      /\ n + 1 \in DOMAIN m /\ m[n + 1] = p
  <2>1. DOMAIN m = 1..Len(l) + 1 /\ DOMAIN l = 1..Len(l)
    BY <1>1, <1>2
  <2>2. n + 1 \in 1..Len(l) + 1 /\ ~(n + 1 <= n) /\ Len(l) \in Nat
    BY <1>1
  <2>3. QED
    BY <1>2, <2>1, <2>2
<1>6. ASSUME NEW i \in DOMAIN m, i # n + 1
      PROVE  old(i) \in DOMAIN l /\ m[i] = l[old(i)]
  BY <1>1, <1>2, <1>5, <1>6
<1>7. \A i \in DOMAIN l : l[i] # p
  BY DEF Listed
<1>8. ASSUME NEW i \in DOMAIN m, NEW j \in DOMAIN m, i # n + 1, j # n + 1
      PROVE  (i < j <=> old(i) < old(j)) /\ (i = j <=> old(i) = old(j))
  BY <1>1, <1>5, <1>8
<1> HIDE DEF old
<1>9. Distinct(m)
  <2> SUFFICES ASSUME NEW i \in DOMAIN m, NEW j \in DOMAIN m, m[i] = m[j]
               PROVE  i = j
    BY DEF Distinct
  <2>1. CASE i # n + 1 /\ j # n + 1
    BY <1>1, <1>6, <1>8, <2>1 DEF Distinct
  <2>2. CASE i = n + 1 \/ j = n + 1
    BY <1>5, <1>6, <1>7, <2>2
  <2>3. QED
    BY <2>1, <2>2
<1>10. m[Len(m)] = NullProc
  BY <1>1, <1>2 DEF KernelOK
<1>11. Listed(k1) = Listed(kk) \cup {p}
  <2>1. ASSUME NEW x \in Listed(k1) PROVE x \in Listed(kk) \cup {p}
    BY <1>4, <1>5, <1>6 DEF Listed
  <2>2. ASSUME NEW j \in DOMAIN l PROVE l[j] \in Listed(k1)
    <3>1. CASE j <= n
      BY <1>1, <1>2, <1>4, <1>5, <3>1 DEF Listed
    <3>2. CASE j > n
      <4>1. j + 1 \in DOMAIN m /\ m[j + 1] = l[j]
        BY <1>1, <1>2, <1>5, <3>2
      <4>2. QED
        BY <1>4, <4>1 DEF Listed
    <3>3. QED
      BY <1>1, <3>1, <3>2
  <2>3. p \in Listed(k1)
    BY <1>4, <1>5 DEF Listed
  <2>4. QED
    BY <2>1, <2>2, <2>3 DEF Listed
<1>12. KernelOK(k1)
  BY <1>1, <1>2, <1>4, <1>9, <1>10, NullAssumption DEF KernelOK, KernelType
<1>13. ASSUME NEW x \in Proc, NEW y \in Proc, Above(k1, x, y), x # p, y # p
       PROVE  Above(kk, x, y)
  <2>1. PICK i, j \in DOMAIN m : i < j /\ m[i] = x /\ m[j] = y
    BY <1>4, <1>13 DEF Above
  <2>2. i # n + 1 /\ j # n + 1
    BY <1>5, <1>13, <2>1
  <2>3. /\ old(i) \in DOMAIN l /\ old(j) \in DOMAIN l
        /\ old(i) < old(j) /\ l[old(i)] = x /\ l[old(j)] = y
    BY <1>6, <1>8, <2>1, <2>2
  <2>4. QED
    BY <2>3 DEF Above
<1>14. ASSUME NEW y \in Listed(kk), Above(k1, p, y)
       PROVE  n < Pos(kk, y)
  <2>1. PICK i, j \in DOMAIN m : i < j /\ m[i] = p /\ m[j] = y
    BY <1>4, <1>14 DEF Above
  <2>2. i = n + 1 /\ j # n + 1
    BY <1>5, <1>6, <1>7, <2>1
  <2>3. Pos(kk, y) = old(j)
    BY <1>1, <1>6, <2>1, <2>2, PosProperties DEF Distinct
  <2>4. QED
    BY <1>1, <1>5, <2>1, <2>2, <2>3 DEF old
<1>15. QED
  BY <1>4, <1>11, <1>12, <1>13, <1>14 DEF k1

(* A listed process taken out of the list leaves the others in order. *)
LEMMA RemoveEffect ==
  ASSUME NEW kk, KernelOK(kk), NEW p \in Listed(kk), p # NullProc
  PROVE  LET k1 == Remove(kk, p) IN
         /\ KernelOK(k1)
         /\ Listed(k1) = Listed(kk) \ {p}
         /\ k1.pstate = kk.pstate /\ k1.count = kk.count /\ k1.cproc = kk.cproc
         /\ \A x, y \in Proc : Above(k1, x, y) => Above(kk, x, y)
<1> DEFINE l  == kk.list
           n  == Pos(kk, p)
           m  == Without(l, n)
           k1 == Remove(kk, p)
<1>1. l \in Seq(Proc) /\ Len(l) >= 1 /\ Distinct(l) /\ l[Len(l)] = NullProc
  BY DEF KernelOK, KernelType
<1>2. n \in 1..Len(l) /\ l[n] = p
  BY <1>1, PosProperties
<1> HIDE DEF n
<1>3. /\ m \in Seq(Proc) /\ Len(m) = Len(l) - 1
      /\ \A i \in 1..Len(l) - 1 : m[i] = IF i < n THEN l[i] ELSE l[i + 1]
  BY <1>1, <1>2, WithoutProperties
<1>4. k1 = [kk EXCEPT !.list = m]
  BY DEF Remove, n
<1> HIDE DEF m, k1
<1>5. /\ k1 \in KernelType /\ k1.list = m
      /\ k1.pstate = kk.pstate /\ k1.count = kk.count /\ k1.cproc = kk.cproc
  BY <1>3, <1>4 DEF KernelOK, KernelType
<1> DEFINE old(i) == IF i < n THEN i ELSE i + 1
<1>6. DOMAIN m = 1..Len(l) - 1 /\ DOMAIN l = 1..Len(l)
  BY <1>1, <1>3
<1>7. ASSUME NEW i \in DOMAIN m
      PROVE  old(i) \in DOMAIN l /\ old(i) # n /\ m[i] = l[old(i)]
  BY <1>1, <1>2, <1>3, <1>6
<1>8. ASSUME NEW i \in DOMAIN m, NEW j \in DOMAIN m
      PROVE  (i < j <=> old(i) < old(j)) /\ (i = j <=> old(i) = old(j))
  BY <1>2, <1>6
<1> HIDE DEF old
<1>9. Distinct(m)
  BY <1>1, <1>7, <1>8 DEF Distinct
<1>10. n # Len(l)
  BY <1>1, <1>2
<1>11. Len(m) >= 1 /\ m[Len(m)] = NullProc
  BY <1>1, <1>2, <1>3, <1>10
<1>12. KernelOK(k1)
  BY <1>5, <1>9, <1>11 DEF KernelOK
<1>13. Listed(k1) = Listed(kk) \ {p}
  <2>1. ASSUME NEW x \in Listed(k1) PROVE x \in Listed(kk) \ {p}
    BY <1>1, <1>2, <1>5, <1>6, <1>7 DEF Listed, Distinct
  <2>2. ASSUME NEW j \in DOMAIN l, l[j] # p PROVE l[j] \in Listed(k1)
    <3>1. CASE j < n
      <4>1. j \in DOMAIN m /\ m[j] = l[j]
        BY <1>2, <1>3, <1>6, <3>1
      <4>2. QED
        BY <1>5, <4>1 DEF Listed
    <3>2. CASE j > n
      <4>1. j - 1 \in DOMAIN m /\ m[j - 1] = l[j]
        BY <1>2, <1>3, <1>6, <3>2
      <4>2. QED
        BY <1>5, <4>1 DEF Listed
    <3>3. QED
      BY <1>1, <1>2, <2>2, <3>1, <3>2
  <2>3. QED
    BY <2>1, <2>2 DEF Listed
<1>14. ASSUME NEW x \in Proc, NEW y \in Proc, Above(k1, x, y)
       PROVE  Above(kk, x, y)
  <2>1. PICK i, j \in DOMAIN m : i < j /\ m[i] = x /\ m[j] = y
    BY <1>5, <1>14 DEF Above
  <2>2. QED
    BY <1>7, <1>8, <2>1 DEF Above
<1>15. QED
  BY <1>5, <1>12, <1>13, <1>14 DEF k1
-----------------------------------------------------------------------------
(* The accounting of semaphores, operation by operation. *)

AccountingOf(kk, owed) ==
  \A s \in Sem :
    Cardinality(Waiters(kk, s)) + owed[s] =
      IF kk.count[s] < 0 THEN -kk.count[s] ELSE 0

(* The waiters for a semaphore are a finite set of processes. *)
LEMMA WaitersFinite ==
  ASSUME NEW kk, KernelOK(kk), NEW s \in Sem
  PROVE  IsFiniteSet(Waiters(kk, s)) /\ Cardinality(Waiters(kk, s)) \in Nat
<1>1. Listed(kk) \subseteq Proc
  BY DEF KernelOK, KernelType, Listed
<1>2. Waiters(kk, s) \in SUBSET Proc
  BY <1>1 DEF Waiters
<1>3. QED
  BY <1>2, FiniteAssumption, FS_Subset, FS_CardinalityType

(* wait: the caller joins the waiters exactly when the value goes, or      *)
(* stays, below zero.                                                      *)
LEMMA WaitAccounting ==
  ASSUME NEW kk, KernelOK(kk), NEW s \in Sem,
         kk.cproc \in Listed(kk), kk.cproc # NullProc,
         NEW owed \in [Sem -> Nat], AccountingOf(kk, owed)
  PROVE  AccountingOf(Wait(kk, s), owed)
<1> DEFINE k1 == Wait(kk, s)
<1>1. /\ kk.pstate \in [Proc -> Sem \cup {Runnable}] /\ kk.cproc \in Proc
      /\ kk.count \in [Sem -> Int] /\ kk.pstate[kk.cproc] = Runnable
      /\ Listed(kk) \subseteq Proc /\ Runnable \notin Sem
  BY SemAssumption DEF KernelOK, KernelType, Listed
<1>2. /\ k1.list = kk.list /\ k1.count = [kk.count EXCEPT ![s] = @ - 1]
      /\ \/ kk.count[s] >= 1 /\ k1.pstate = kk.pstate
         \/ kk.count[s] <= 0 /\ k1.pstate = [kk.pstate EXCEPT ![kk.cproc] = s]
  BY WaitEffect
<1> HIDE DEF k1
<1>3. Listed(k1) = Listed(kk)
  BY <1>2 DEF Listed
<1> SUFFICES ASSUME NEW t \in Sem
             PROVE  Cardinality(Waiters(k1, t)) + owed[t] =
                      IF k1.count[t] < 0 THEN -k1.count[t] ELSE 0
  BY DEF AccountingOf, k1
<1>4. /\ Cardinality(Waiters(kk, t)) + owed[t] =
           IF kk.count[t] < 0 THEN -kk.count[t] ELSE 0
      /\ IsFiniteSet(Waiters(kk, t)) /\ Cardinality(Waiters(kk, t)) \in Nat
  BY WaitersFinite DEF AccountingOf
<1>5. CASE kk.count[s] >= 1
  <2>1. Waiters(k1, t) = Waiters(kk, t)
    BY <1>1, <1>2, <1>3, <1>5 DEF Waiters
  <2>2. QED
    BY <1>1, <1>2, <1>4, <1>5, <2>1
<1>6. CASE kk.count[s] <= 0 /\ t # s
  <2>1. Waiters(k1, t) = Waiters(kk, t)
    BY <1>1, <1>2, <1>3, <1>6 DEF Waiters
  <2>2. QED
    BY <1>1, <1>2, <1>4, <1>6, <2>1
<1>7. CASE kk.count[s] <= 0 /\ t = s
  <2>1. /\ Waiters(k1, s) = Waiters(kk, s) \cup {kk.cproc}
        /\ kk.cproc \notin Waiters(kk, s)
    BY <1>1, <1>2, <1>3, <1>7 DEF Waiters
  <2>2. Cardinality(Waiters(k1, s)) = Cardinality(Waiters(kk, s)) + 1
    BY <1>4, <1>7, <2>1, FS_AddElement
  <2>3. QED
    BY <1>1, <1>2, <1>4, <1>7, <2>2
<1>8. QED
  BY <1>1, <1>5, <1>6, <1>7

(* signal: one waiter is released, or, when only killed ones are left, one *)
(* signal owed to them is used up.                                         *)
LEMMA SignalAccounting ==
  ASSUME NEW kk, KernelOK(kk), NEW s \in Sem,
         NEW owed \in [Sem -> Nat], AccountingOf(kk, owed)
  PROVE  LET left == [owed EXCEPT ![s] =
                        IF kk.count[s] < 0 /\ Waiters(kk, s) = {} THEN @ - 1 ELSE @]
         IN  left \in [Sem -> Nat] /\ AccountingOf(Signal(kk, s), left)
<1> DEFINE k1   == Signal(kk, s)
           gone == kk.count[s] < 0 /\ Waiters(kk, s) = {}
           left == [owed EXCEPT ![s] = IF gone THEN @ - 1 ELSE @]
<1>1. /\ kk.pstate \in [Proc -> Sem \cup {Runnable}]
      /\ kk.count \in [Sem -> Int]
      /\ Listed(kk) \subseteq Proc /\ Runnable \notin Sem
  BY SemAssumption DEF KernelOK, KernelType, Listed
<1>2. /\ k1.list = kk.list /\ k1.count = [kk.count EXCEPT ![s] = @ + 1]
      /\ \/ (kk.count[s] >= 0 \/ Waiters(kk, s) = {}) /\ k1.pstate = kk.pstate
         \/ /\ kk.count[s] < 0
            /\ \E w \in Waiters(kk, s) : k1.pstate = [kk.pstate EXCEPT ![w] = Runnable]
  <2>1. \/ (kk.count[s] >= 0 \/ Waiters(kk, s) = {}) /\ k1.pstate = kk.pstate
        \/ /\ kk.count[s] < 0
           /\ \E w \in Waiters(kk, s) : k1.pstate = [kk.pstate EXCEPT ![w] = Runnable]
    <3>1. \/ /\ kk.count[s] >= 0 \/ Waiters(kk, s) = {}
             /\ k1.pstate = kk.pstate
          \/ kk.count[s] < 0 /\ \E w \in Waiters(kk, s) : Wakes(kk, k1, w)
      BY SignalEffect
    <3>2. QED
      BY <3>1, Zenon DEF Wakes
  <2>2. k1.list = kk.list /\ k1.count = [kk.count EXCEPT ![s] = @ + 1]
    BY SignalEffect
  <2>3. QED
    BY <2>1, <2>2, Zenon
<1> HIDE DEF k1
<1>3. Listed(k1) = Listed(kk)
  BY <1>2 DEF Listed
<1>4. \A t \in Sem :
        /\ Cardinality(Waiters(kk, t)) + owed[t] =
             IF kk.count[t] < 0 THEN -kk.count[t] ELSE 0
        /\ IsFiniteSet(Waiters(kk, t)) /\ Cardinality(Waiters(kk, t)) \in Nat
  BY WaitersFinite DEF AccountingOf
<1>5. gone => Cardinality(Waiters(kk, s)) = 0 /\ owed[s] >= 1
  BY <1>1, <1>4, FS_EmptySet
<1>6. left \in [Sem -> Nat]
  BY <1>5
<1>7. ASSUME NEW t \in Sem
      PROVE  Cardinality(Waiters(k1, t)) + left[t] =
               IF k1.count[t] < 0 THEN -k1.count[t] ELSE 0
  <2>1. CASE t # s
    <3>1. Waiters(k1, t) = Waiters(kk, t)
      BY <1>1, <1>2, <1>3, <2>1 DEF Waiters
    <3>2. left[t] = owed[t] /\ k1.count[t] = kk.count[t]
      BY <1>1, <1>2, <2>1
    <3>3. QED
      BY <1>4, <3>1, <3>2
  <2>2. CASE t = s /\ k1.pstate = kk.pstate /\ (kk.count[s] >= 0 \/ Waiters(kk, s) = {})
    <3>1. Waiters(k1, s) = Waiters(kk, s)
      BY <1>3, <2>2 DEF Waiters
    <3>2. k1.count[s] = kk.count[s] + 1 /\ left[s] = IF gone THEN owed[s] - 1 ELSE owed[s]
      BY <1>1, <1>2
    <3>3. QED
      BY <1>1, <1>4, <1>5, <2>2, <3>1, <3>2
  <2>3. CASE /\ t = s /\ kk.count[s] < 0
             /\ \E w \in Waiters(kk, s) : k1.pstate = [kk.pstate EXCEPT ![w] = Runnable]
    <3>1. PICK w \in Waiters(kk, s) : k1.pstate = [kk.pstate EXCEPT ![w] = Runnable]
      BY <2>3
    <3>2. Waiters(k1, s) = Waiters(kk, s) \ {w}
      BY <1>1, <1>3, <3>1 DEF Waiters
    <3>3. Cardinality(Waiters(k1, s)) = Cardinality(Waiters(kk, s)) - 1
      BY <1>4, <3>2, FS_RemoveElement
    <3>4. k1.count[s] = kk.count[s] + 1 /\ left[s] = owed[s]
      BY <1>1, <1>2, <3>1
    <3>5. QED
      BY <1>1, <1>4, <2>3, <3>3, <3>4
  <2>4. QED
    BY <1>2, <2>1, <2>2, <2>3
<1>8. QED
  BY <1>6, <1>7 DEF AccountingOf, k1

(* A process that is started is not among the waiters. *)
LEMMA InsertAccounting ==
  ASSUME NEW kk, KernelOK(kk), NEW n \in 0..Len(kk.list) - 1,
         NEW p \in Proc \ Listed(kk), NEW owed, AccountingOf(kk, owed)
  PROVE  AccountingOf(Insert(kk, n, p), owed)
<1> DEFINE k1 == Insert(kk, n, p)
<1>1. /\ Listed(k1) = Listed(kk) \cup {p} /\ k1.count = kk.count
      /\ k1.pstate = [kk.pstate EXCEPT ![p] = Runnable]
  BY InsertEffect
<1>2. kk.pstate \in [Proc -> Sem \cup {Runnable}] /\ Listed(kk) \subseteq Proc
  BY DEF KernelOK, KernelType, Listed
<1> HIDE DEF k1
<1>3. \A t \in Sem : Waiters(k1, t) = Waiters(kk, t)
  BY <1>1, <1>2, SemAssumption DEF Waiters
<1>4. QED
  BY <1>1, <1>3 DEF AccountingOf, k1

(* Taking out a runnable process changes no set of waiters; taking out a   *)
(* waiter leaves one more signal owed.                                     *)
LEMMA RemoveAccounting ==
  ASSUME NEW kk, KernelOK(kk), NEW p \in Listed(kk), p # NullProc,
         NEW owed \in [Sem -> Nat], AccountingOf(kk, owed)
  PROVE  LET more == IF kk.pstate[p] = Runnable THEN owed
                     ELSE [owed EXCEPT ![kk.pstate[p]] = @ + 1]
         IN  more \in [Sem -> Nat] /\ AccountingOf(Remove(kk, p), more)
<1> DEFINE k1   == Remove(kk, p)
           more == IF kk.pstate[p] = Runnable THEN owed
                   ELSE [owed EXCEPT ![kk.pstate[p]] = @ + 1]
<1>1. /\ Listed(k1) = Listed(kk) \ {p} /\ k1.count = kk.count
      /\ k1.pstate = kk.pstate
  BY RemoveEffect
<1>2. /\ kk.pstate \in [Proc -> Sem \cup {Runnable}] /\ p \in Proc
      /\ kk.count \in [Sem -> Int]
  BY DEF KernelOK, KernelType, Listed
<1> HIDE DEF k1
<1>3. more \in [Sem -> Nat]
  <2>1. CASE kk.pstate[p] = Runnable
    BY <2>1
  <2>2. CASE kk.pstate[p] # Runnable
    <3>1. kk.pstate[p] \in Sem
      BY <1>2, <2>2
    <3>2. QED
      BY <2>2, <3>1
  <2>3. QED
    BY <2>1, <2>2
<1>4. ASSUME NEW t \in Sem
      PROVE  Cardinality(Waiters(k1, t)) + more[t] =
               IF k1.count[t] < 0 THEN -k1.count[t] ELSE 0
  <2>1. /\ Cardinality(Waiters(kk, t)) + owed[t] =
             IF kk.count[t] < 0 THEN -kk.count[t] ELSE 0
        /\ IsFiniteSet(Waiters(kk, t)) /\ Cardinality(Waiters(kk, t)) \in Nat
    BY WaitersFinite DEF AccountingOf
  <2>2. CASE kk.pstate[p] = t
    <3>1. Waiters(k1, t) = Waiters(kk, t) \ {p} /\ p \in Waiters(kk, t)
      BY <1>1, <2>2 DEF Waiters
    <3>2. Cardinality(Waiters(k1, t)) = Cardinality(Waiters(kk, t)) - 1
      BY <2>1, <3>1, FS_RemoveElement
    <3>3. more[t] = owed[t] + 1
      BY <2>2, SemAssumption
    <3>4. QED
      BY <1>1, <1>2, <2>1, <3>2, <3>3
  <2>3. CASE kk.pstate[p] # t
    <3>1. Waiters(k1, t) = Waiters(kk, t)
      BY <1>1, <2>3 DEF Waiters
    <3>2. more[t] = owed[t]
      BY <1>2, <2>3
    <3>3. QED
      BY <1>1, <2>1, <3>1, <3>2
  <2>4. QED
    BY <2>2, <2>3
<1>5. QED
  BY <1>3, <1>4 DEF AccountingOf, k1
-----------------------------------------------------------------------------
(* When nobody is killed, each semaphore keeps its own account, whatever   *)
(* becomes of the others.                                                  *)
Balanced(kk, t) ==
  Cardinality(Waiters(kk, t)) = IF kk.count[t] < 0 THEN -kk.count[t] ELSE 0

(* wait keeps the account of every semaphore. *)
LEMMA WaitBalanced ==
  ASSUME NEW kk, KernelOK(kk), NEW s \in Sem, NEW t \in Sem,
         kk.cproc \in Listed(kk), kk.cproc # NullProc, Balanced(kk, t)
  PROVE  Balanced(Wait(kk, s), t)
<1> DEFINE k1 == Wait(kk, s)
<1>1. /\ kk.pstate \in [Proc -> Sem \cup {Runnable}] /\ kk.cproc \in Proc
      /\ kk.count \in [Sem -> Int] /\ kk.pstate[kk.cproc] = Runnable
      /\ Listed(kk) \subseteq Proc /\ Runnable \notin Sem
  BY SemAssumption DEF KernelOK, KernelType, Listed
<1>2. /\ k1.list = kk.list /\ k1.count = [kk.count EXCEPT ![s] = @ - 1]
      /\ \/ kk.count[s] >= 1 /\ k1.pstate = kk.pstate
         \/ kk.count[s] <= 0 /\ k1.pstate = [kk.pstate EXCEPT ![kk.cproc] = s]
  BY WaitEffect
<1> HIDE DEF k1
<1>3. Listed(k1) = Listed(kk)
  BY <1>2 DEF Listed
<1>4. /\ IsFiniteSet(Waiters(kk, t)) /\ Cardinality(Waiters(kk, t)) \in Nat
      /\ Cardinality(Waiters(kk, t)) = IF kk.count[t] < 0 THEN -kk.count[t] ELSE 0
  BY WaitersFinite DEF Balanced
<1>5. CASE kk.count[s] >= 1 \/ t # s
  <2>1. Waiters(k1, t) = Waiters(kk, t)
    BY <1>1, <1>2, <1>3, <1>5 DEF Waiters
  <2>2. \/ k1.count[t] = kk.count[t]
        \/ kk.count[t] >= 1 /\ k1.count[t] = kk.count[t] - 1
    BY <1>1, <1>2, <1>5
  <2>3. QED
    BY <1>1, <1>4, <2>1, <2>2 DEF Balanced, k1
<1>6. CASE kk.count[s] <= 0 /\ t = s
  <2>1. /\ Waiters(k1, s) = Waiters(kk, s) \cup {kk.cproc}
        /\ kk.cproc \notin Waiters(kk, s)
    BY <1>1, <1>2, <1>3, <1>6 DEF Waiters
  <2>2. Cardinality(Waiters(k1, s)) = Cardinality(Waiters(kk, s)) + 1
    BY <1>4, <1>6, <2>1, FS_AddElement
  <2>3. k1.count[s] = kk.count[s] - 1
    BY <1>1, <1>2
  <2>4. QED
    BY <1>1, <1>4, <1>6, <2>2, <2>3 DEF Balanced, k1
<1>7. QED
  BY <1>1, <1>5, <1>6

(* So does signal, since it always finds a waiter when there must be one. *)
LEMMA SignalBalanced ==
  ASSUME NEW kk, KernelOK(kk), NEW s \in Sem, NEW t \in Sem, Balanced(kk, t)
  PROVE  Balanced(Signal(kk, s), t)
<1> DEFINE k1 == Signal(kk, s)
<1>1. /\ kk.pstate \in [Proc -> Sem \cup {Runnable}]
      /\ kk.count \in [Sem -> Int]
      /\ Listed(kk) \subseteq Proc /\ Runnable \notin Sem
  BY SemAssumption DEF KernelOK, KernelType, Listed
<1>2. /\ k1.list = kk.list /\ k1.count = [kk.count EXCEPT ![s] = @ + 1]
      /\ \/ (kk.count[s] >= 0 \/ Waiters(kk, s) = {}) /\ k1.pstate = kk.pstate
         \/ kk.count[s] < 0 /\ \E w \in Waiters(kk, s) : Wakes(kk, k1, w)
  BY SignalEffect
<1> HIDE DEF k1
<1>3. Listed(k1) = Listed(kk)
  BY <1>2 DEF Listed
<1>4. /\ IsFiniteSet(Waiters(kk, t)) /\ Cardinality(Waiters(kk, t)) \in Nat
      /\ Cardinality(Waiters(kk, t)) = IF kk.count[t] < 0 THEN -kk.count[t] ELSE 0
  BY WaitersFinite DEF Balanced
<1>5. CASE t # s
  <2>1. Waiters(k1, t) = Waiters(kk, t)
    BY <1>1, <1>2, <1>3, <1>5 DEF Waiters, Wakes
  <2>2. k1.count[t] = kk.count[t]
    BY <1>1, <1>2, <1>5
  <2>3. QED
    BY <1>4, <2>1, <2>2 DEF Balanced, k1
<1>6. CASE t = s /\ k1.pstate = kk.pstate /\ (kk.count[s] >= 0 \/ Waiters(kk, s) = {})
  <2>1. Waiters(k1, s) = Waiters(kk, s)
    BY <1>3, <1>6 DEF Waiters
  <2>2. kk.count[s] >= 0
    BY <1>1, <1>4, <1>6, FS_EmptySet
  <2>3. k1.count[s] = kk.count[s] + 1
    BY <1>1, <1>2
  <2>4. QED
    BY <1>1, <1>4, <1>6, <2>1, <2>2, <2>3 DEF Balanced, k1
<1>7. ASSUME t = s, kk.count[s] < 0, NEW w \in Waiters(kk, s), Wakes(kk, k1, w)
      PROVE  Balanced(k1, t)
  <2>1. Waiters(k1, s) = Waiters(kk, s) \ {w}
    BY <1>1, <1>3, <1>7 DEF Waiters, Wakes
  <2>2. Cardinality(Waiters(k1, s)) = Cardinality(Waiters(kk, s)) - 1
    BY <1>4, <1>7, <2>1, FS_RemoveElement
  <2>3. k1.count[s] = kk.count[s] + 1
    BY <1>1, <1>2
  <2>4. QED
    BY <1>1, <1>4, <1>7, <2>2, <2>3 DEF Balanced
<1>8. QED
  BY <1>2, <1>5, <1>6, <1>7 DEF k1
-----------------------------------------------------------------------------
(* Priorities. *)

(* The order of the list is a strict total order. *)
LEMMA AboveOrder ==
  ASSUME NEW kk, KernelOK(kk)
  PROVE  /\ \A x, y, z \in Proc : Above(kk, x, y) /\ Above(kk, y, z) => Above(kk, x, z)
         /\ \A x, y \in Proc : Above(kk, x, y) => ~Above(kk, y, x)
         /\ \A x, y \in Listed(kk) : x # y => Above(kk, x, y) \/ Above(kk, y, x)
         /\ \A x, y \in Proc : Above(kk, x, y) =>
              x # y /\ x \in Listed(kk) /\ y \in Listed(kk)
<1>1. /\ kk.list \in Seq(Proc) /\ DOMAIN kk.list \subseteq Int
      /\ \A i, j \in DOMAIN kk.list : kk.list[i] = kk.list[j] => i = j
  BY DEF KernelOK, KernelType, Distinct
<1>2. ASSUME NEW x \in Proc, NEW y \in Proc, NEW z \in Proc,
             Above(kk, x, y), Above(kk, y, z)
      PROVE  Above(kk, x, z)
  <2>1. PICK a, b \in DOMAIN kk.list : a < b /\ kk.list[a] = x /\ kk.list[b] = y
    BY <1>2 DEF Above
  <2>2. PICK c, d \in DOMAIN kk.list : c < d /\ kk.list[c] = y /\ kk.list[d] = z
    BY <1>2 DEF Above
  <2>3. b = c
    BY <1>1, <2>1, <2>2
  <2>4. a < d
    BY <1>1, <2>1, <2>2, <2>3
  <2>5. QED
    BY <2>1, <2>2, <2>4 DEF Above
<1>3. ASSUME NEW x \in Proc, NEW y \in Proc, Above(kk, x, y)
      PROVE  /\ ~Above(kk, y, x)
             /\ x # y /\ x \in Listed(kk) /\ y \in Listed(kk)
  <2>1. PICK a, b \in DOMAIN kk.list : a < b /\ kk.list[a] = x /\ kk.list[b] = y
    BY <1>3 DEF Above
  <2>2. ASSUME NEW c \in DOMAIN kk.list, NEW d \in DOMAIN kk.list, c < d,
               kk.list[c] = y, kk.list[d] = x
        PROVE  FALSE
    <3>1. c = b /\ d = a
      BY <1>1, <2>1, <2>2
    <3>2. QED
      BY <1>1, <2>1, <2>2, <3>1
  <2>3. x # y /\ x \in Listed(kk) /\ y \in Listed(kk)
    BY <1>1, <2>1 DEF Listed
  <2>4. QED
    BY <2>2, <2>3 DEF Above
<1>4. ASSUME NEW x \in Listed(kk), NEW y \in Listed(kk), x # y
      PROVE  Above(kk, x, y) \/ Above(kk, y, x)
  <2>1. PICK a \in DOMAIN kk.list, b \in DOMAIN kk.list : kk.list[a] = x /\ kk.list[b] = y
    BY DEF Listed
  <2>2. a < b \/ b < a
    BY <1>1, <1>4, <2>1
  <2>3. QED
    BY <2>1, <2>2 DEF Above
<1>5. QED
  BY <1>2, <1>3, <1>4

(* A signal leaves nobody runnable above the process it leaves running who *)
(* was not runnable above the running process before.                      *)
LEMMA SignalPriority ==
  ASSUME NEW kk, KernelOK(kk), NEW s \in Sem, kk.cproc \in Listed(kk), NEW S,
         \A p \in Proc : Above(kk, p, kk.cproc) /\ kk.pstate[p] = Runnable => p \in S
  PROVE  LET k1 == Signal(kk, s) IN
         \A p \in Proc : Above(k1, p, k1.cproc) /\ k1.pstate[p] = Runnable
                          => p \in S \ {k1.cproc}
<1> DEFINE k1 == Signal(kk, s)
<1>1. /\ KernelOK(k1) /\ k1.list = kk.list
      /\ \/ k1.pstate = kk.pstate /\ k1.cproc = kk.cproc
         \/ \E w \in Waiters(kk, s) : Wakes(kk, k1, w)
  BY SignalEffect
<1> HIDE DEF k1
<1>2. /\ \A x, y \in Proc : Above(k1, x, y) <=> Above(kk, x, y)
      /\ kk.pstate \in [Proc -> Sem \cup {Runnable}] /\ kk.cproc \in Proc
      /\ kk.pstate[kk.cproc] = Runnable
      /\ Listed(kk) \subseteq Proc
  BY <1>1 DEF Above, KernelOK, KernelType, Listed
<1> SUFFICES ASSUME NEW p \in Proc, Above(k1, p, k1.cproc), k1.pstate[p] = Runnable
             PROVE  p \in S \ {k1.cproc}
  BY DEF k1
<1>3. k1.cproc \in Proc
  BY <1>1 DEF KernelOK, KernelType
<1>4. p # k1.cproc /\ Above(kk, p, k1.cproc)
  BY <1>1, <1>2, <1>3, AboveOrder
<1>5. CASE k1.pstate = kk.pstate /\ k1.cproc = kk.cproc
  BY <1>4, <1>5
<1>6. ASSUME NEW w \in Waiters(kk, s), Wakes(kk, k1, w)
      PROVE  p \in S
  <2>1. /\ w \in Proc /\ w \in Listed(kk) /\ w # kk.cproc
        /\ k1.pstate = [kk.pstate EXCEPT ![w] = Runnable]
    BY <1>2, <1>6, SemAssumption DEF Waiters, Wakes
  <2>2. CASE Above(kk, kk.cproc, w) /\ k1.cproc = kk.cproc
    <3>1. p # w
      BY <1>2, <1>4, <2>1, <2>2, AboveOrder
    <3>2. kk.pstate[p] = Runnable
      BY <1>2, <2>1, <3>1
    <3>3. QED
      BY <1>4, <2>2, <3>2
  <2>3. CASE ~Above(kk, kk.cproc, w) /\ k1.cproc = w
    <3>1. Above(kk, w, kk.cproc)
      BY <2>1, <2>3, AboveOrder
    <3>2. Above(kk, p, kk.cproc)
      BY <1>2, <1>4, <2>1, <2>3, <3>1, AboveOrder
    <3>3. kk.pstate[p] = Runnable
      BY <1>2, <1>4, <2>1, <2>3
    <3>4. QED
      BY <3>2, <3>3
  <2>4. QED
    BY <1>6, <2>2, <2>3 DEF Wakes
<1>7. QED
  BY <1>1, <1>4, <1>5, <1>6

(* Nor does wait. *)
LEMMA WaitPriority ==
  ASSUME NEW kk, KernelOK(kk), NEW s \in Sem,
         kk.cproc \in Listed(kk), kk.cproc # NullProc, NEW S,
         \A p \in Proc : Above(kk, p, kk.cproc) /\ kk.pstate[p] = Runnable => p \in S
  PROVE  LET k1 == Wait(kk, s) IN
         \A p \in Proc : Above(k1, p, k1.cproc) /\ k1.pstate[p] = Runnable
                          => p \in S \ {k1.cproc}
<1> DEFINE k1 == Wait(kk, s)
           q == Pos(kk, kk.cproc)
<1>1. /\ kk.list \in Seq(Proc) /\ kk.pstate \in [Proc -> Sem \cup {Runnable}]
      /\ kk.cproc \in Proc /\ DOMAIN kk.list \subseteq Int
      /\ \A i, j \in DOMAIN kk.list : kk.list[i] = kk.list[j] => i = j
  BY DEF KernelOK, KernelType, Distinct
<1>2. q \in DOMAIN kk.list /\ kk.list[q] = kk.cproc
  BY <1>1, PosProperties
<1>3. /\ KernelOK(k1) /\ k1.list = kk.list
      /\ \/ k1.pstate = kk.pstate /\ k1.cproc = kk.cproc
         \/ k1.pstate = [kk.pstate EXCEPT ![kk.cproc] = s] /\ GivesWay(kk, k1)
  BY WaitEffect
<1> HIDE DEF k1, q
<1> SUFFICES ASSUME NEW x \in Proc, Above(k1, x, k1.cproc), k1.pstate[x] = Runnable
             PROVE  x \in S \ {k1.cproc}
  BY DEF k1
<1>4. k1.cproc \in Proc /\ x # k1.cproc
  BY <1>3, AboveOrder DEF KernelOK, KernelType
<1>5. CASE k1.pstate = kk.pstate /\ k1.cproc = kk.cproc
  BY <1>3, <1>4, <1>5 DEF Above
<1>6. CASE k1.pstate = [kk.pstate EXCEPT ![kk.cproc] = s] /\ GivesWay(kk, k1)
  <2>1. PICK f \in DOMAIN kk.list :
               /\ k1.cproc = kk.list[f] /\ q < f
               /\ \A j \in DOMAIN kk.list :
                    q < j /\ j < f => kk.pstate[kk.list[j]] # Runnable
    BY <1>6 DEF GivesWay, q
  <2>2. x # kk.cproc /\ kk.pstate[x] = Runnable
    BY <1>1, <1>6, SemAssumption
  <2>3. PICK i, g \in DOMAIN kk.list : i < g /\ kk.list[i] = x /\ kk.list[g] = k1.cproc
    BY <1>3 DEF Above
  <2>4. g = f
    BY <1>1, <2>1, <2>3
  <2>5. i < q
    BY <1>1, <1>2, <2>1, <2>2, <2>3, <2>4
  <2>6. Above(kk, x, kk.cproc)
    BY <1>2, <2>3, <2>5 DEF Above
  <2>7. QED
    BY <1>4, <2>2, <2>6
<1>7. QED
  BY <1>3, <1>5, <1>6

=============================================================================
