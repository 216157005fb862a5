------------------------------ MODULE TtyProofs ------------------------------
(***************************************************************************)
(* Proofs about module TtyDriver, for every list of processes, size of the *)
(* FIFOs and set of uses: types, slots, the order of input and output, and *)
(* the hand-over between processes, interrupt routines and the UART.       *)
(***************************************************************************)
EXTENDS TtyDriver, KernelProofs

-----------------------------------------------------------------------------
(* The inductive invariant. *)

\* Where a process is that waits for a semaphore.
Place(s) == IF s = OutFree THEN "slot" ELSE "char"

\* The scheduler underneath: the list is fixed, the running process is in
\* it, and whoever waits does so in the driver.
KernelPart ==
  /\ KernelOK(k) /\ k.list = Priority /\ k.cproc \in Listed(k)
  /\ \A p \in Proc, s \in Sem : k.pstate[p] = s => p \in Users /\ pc[p] = Place(s)

\* Only the processes of the use that is made of the driver are in it.
UsePart ==
  /\ use \in Modes
  /\ \A p \in Users : pc[p] # "think" => p \in use.writers \cup use.echoers

\* The UART and the state of the channel.
UartPart ==
  /\ txreq => uart = Idle
  /\ state = OUTPUT => uart # Idle \/ txreq
  /\ state = QUIET => out.charsin = 0

\* A FIFO with indices i and o and buffer buf holds the n characters that
\* were put and not yet given.
Holds(buf, i, o, n, put, given) ==
  /\ i = (o + n) % FIFOSIZE
  /\ (given + n) % Labels = put
  /\ \A j \in 0..n - 1 : buf[(o + j) % FIFOSIZE] = (given + j) % Labels

InPart ==
  /\ Balanced(k, InChars)
  /\ in.charsout <= FIFOSIZE
  /\ Holds(in.buffer, in.inptr, in.outptr, FIFOSIZE - in.charsout, inSeq.put, inSeq.given)

OutHolds ==
  /\ out.charsin <= FIFOSIZE
  /\ Holds(out.buffer, out.inptr, out.outptr, out.charsin, outSeq.put, outSeq.given)

OutPart == Balanced(k, OutFree) /\ OutHolds

Places == {"think", "slot", "char", "got"}
Index == 0..FIFOSIZE - 1
OutFifo == [charsin : Nat, inptr : Index, outptr : Index, buffer : [Index -> Label]]
InFifo == [charsout : Nat, inptr : Index, outptr : Index, buffer : [Index -> Label]]

\* The parts of TypeOK.
Types ==
  /\ k \in KernelType /\ pc \in [Users -> Places]
  /\ state \in {QUIET, OUTPUT, THROTTLED} /\ uart \in Label \cup {Idle} /\ txreq \in BOOLEAN
  /\ out \in OutFifo /\ outSeq \in [put : Label, given : Label]
  /\ in \in InFifo /\ inSeq \in [put : Label, given : Label]

\* SlotsAccounted, by the number of processes at a place.
Number(f, l) == Cardinality({p \in Users : f[p] = l})
Slots ==
  /\ k.count[OutFree] + out.charsin + Number(pc, "slot") = FIFOSIZE
  /\ k.count[InChars] + in.charsout + Number(pc, "char") = FIFOSIZE

\* What holds of every use of the driver ...
IInv ==
  /\ Types /\ Slots /\ KernelPart /\ UsePart /\ UartPart /\ InPart
  /\ Raw => QuietMeansIdle

\* ... and of those where an interrupt routine writes only if no process does.
Separate ==
  \A mode \in Modes : mode.interruptput => mode.writers = {} /\ mode.echoers = {}
-----------------------------------------------------------------------------
(* FIFOs. *)

(* Sums of a remainder and at most one modulus. *)
LEMMA ModAdd ==
  ASSUME NEW n \in Nat \ {0}, NEW a \in 0..n - 1, NEW b \in 0..n
  PROVE  (a + b) % n = IF a + b < n THEN a + b ELSE a + b - n
  OBVIOUS

(* The successors of an index and of a label are one too. *)
LEMMA StepTypes ==
  /\ \A i \in Index : Wrap(i) \in Index
  /\ \A c \in Label : Succ(c) \in Label
  /\ \A c \in Label : c # Idle
  /\ 0 \in Label /\ 0 \in Index
  BY SizesAssumption DEF Wrap, Succ, Index, Label, Idle

(* Storing the next character keeps the FIFO's order, if a slot is free. *)
LEMMA StoreHolds ==
  ASSUME NEW buf \in [Index -> Label], NEW i \in Index, NEW o \in Index,
         NEW n \in 0..FIFOSIZE - 1, NEW put \in Label, NEW given \in Label,
         Holds(buf, i, o, n, put, given)
  PROVE  Holds([buf EXCEPT ![i] = put], Wrap(i), o, n + 1, Succ(put), given)
<1>1. /\ FIFOSIZE \in Nat \ {0} /\ Labels \in Nat \ {0} /\ Labels > FIFOSIZE + 1
      /\ o \in 0..FIFOSIZE - 1 /\ i \in 0..FIFOSIZE - 1
      /\ put \in 0..Labels - 1 /\ given \in 0..Labels - 1 /\ n \in Nat /\ n < FIFOSIZE
  BY SizesAssumption DEF Index, Label
<1>2. /\ i = (o + n) % FIFOSIZE /\ (given + n) % Labels = put
      /\ \A j \in 0..n - 1 : buf[(o + j) % FIFOSIZE] = (given + j) % Labels
  BY DEF Holds
<1>3. ASSUME NEW j \in 0..n + 1
      PROVE  /\ (o + j) % FIFOSIZE = IF o + j < FIFOSIZE THEN o + j ELSE o + j - FIFOSIZE
             /\ (given + j) % Labels = IF given + j < Labels THEN given + j ELSE given + j - Labels
  <2>1. j \in 0..FIFOSIZE /\ j \in 0..Labels
    BY <1>1
  <2>2. (o + j) % FIFOSIZE = IF o + j < FIFOSIZE THEN o + j ELSE o + j - FIFOSIZE
    BY <1>1, <2>1, ModAdd
  <2>3. (given + j) % Labels = IF given + j < Labels THEN given + j ELSE given + j - Labels
    BY <1>1, <2>1, ModAdd
  <2>4. QED
    BY <2>2, <2>3
<1>4. /\ i = IF o + n < FIFOSIZE THEN o + n ELSE o + n - FIFOSIZE
      /\ put = IF given + n < Labels THEN given + n ELSE given + n - Labels
  BY <1>1, <1>2, <1>3
<1>5. Wrap(i) = (o + (n + 1)) % FIFOSIZE
  BY <1>1, <1>3, <1>4 DEF Wrap
<1>6. (given + (n + 1)) % Labels = Succ(put)
  <2>1. (put + 1) % Labels = IF put + 1 < Labels THEN put + 1 ELSE put + 1 - Labels
    <3>1. 1 \in 0..Labels
      BY <1>1
    <3>2. QED
      BY <1>1, <3>1, ModAdd
  <2>2. QED
    BY <1>1, <1>3, <1>4, <2>1 DEF Succ
<1>7. ASSUME NEW j \in 0..(n + 1) - 1
      PROVE  [buf EXCEPT ![i] = put][(o + j) % FIFOSIZE] = (given + j) % Labels
  <2>1. CASE j = n
    BY <1>1, <1>2, <2>1 DEF Index
  <2>2. CASE j < n
    <3>1. (o + j) % FIFOSIZE # i /\ (o + j) % FIFOSIZE \in Index
      <4>1. (o + j) % FIFOSIZE = IF o + j < FIFOSIZE THEN o + j ELSE o + j - FIFOSIZE
        BY <1>3
      <4>2. QED
        BY <1>1, <1>4, <2>2, <4>1 DEF Index
    <3>2. j \in 0..n - 1
      BY <2>2
    <3>3. QED
      BY <1>2, <3>1, <3>2
  <2>3. QED
    BY <1>1, <2>1, <2>2
<1>8. QED
  BY <1>5, <1>6, <1>7 DEF Holds

(* Fetching yields the character that has waited longest, and keeps the    *)
(* order of the rest.                                                      *)
LEMMA FetchHolds ==
  ASSUME NEW buf \in [Index -> Label], NEW i \in Index, NEW o \in Index,
         NEW n \in 1..FIFOSIZE, NEW put \in Label, NEW given \in Label,
         Holds(buf, i, o, n, put, given)
  PROVE  /\ buf[o] = given
         /\ Holds(buf, i, Wrap(o), n - 1, put, Succ(given))
<1>1. /\ FIFOSIZE \in Nat \ {0} /\ Labels \in Nat \ {0} /\ Labels > FIFOSIZE + 1
      /\ o \in 0..FIFOSIZE - 1 /\ i \in 0..FIFOSIZE - 1
      /\ put \in 0..Labels - 1 /\ given \in 0..Labels - 1
      /\ n \in Nat /\ n >= 1 /\ n <= FIFOSIZE
  BY SizesAssumption DEF Index, Label
<1>2. /\ i = (o + n) % FIFOSIZE /\ (given + n) % Labels = put
      /\ \A j \in 0..n - 1 : buf[(o + j) % FIFOSIZE] = (given + j) % Labels
  BY DEF Holds
<1>3. ASSUME NEW j \in 0..n
      PROVE  /\ (o + j) % FIFOSIZE = IF o + j < FIFOSIZE THEN o + j ELSE o + j - FIFOSIZE
             /\ (given + j) % Labels = IF given + j < Labels THEN given + j ELSE given + j - Labels
  <2>1. j \in 0..FIFOSIZE /\ j \in 0..Labels
    BY <1>1
  <2>2. (o + j) % FIFOSIZE = IF o + j < FIFOSIZE THEN o + j ELSE o + j - FIFOSIZE
    BY <1>1, <2>1, ModAdd
  <2>3. (given + j) % Labels = IF given + j < Labels THEN given + j ELSE given + j - Labels
    BY <1>1, <2>1, ModAdd
  <2>4. QED
    BY <2>2, <2>3
<1>4. buf[o] = given
  <2>1. (o + 0) % FIFOSIZE = o /\ (given + 0) % Labels = given /\ 0 \in 0..n - 1
    BY <1>1, <1>3
  <2>2. QED
    BY <1>2, <2>1
<1>5. /\ Wrap(o) = IF o + 1 = FIFOSIZE THEN 0 ELSE o + 1
      /\ Succ(given) = IF given + 1 = Labels THEN 0 ELSE given + 1
  <2>1. (given + 1) % Labels = IF given + 1 < Labels THEN given + 1 ELSE given + 1 - Labels
    <3>1. 1 \in 0..Labels
      BY <1>1
    <3>2. QED
      BY <1>1, <3>1, ModAdd
  <2>2. QED
    BY <1>1, <2>1 DEF Wrap, Succ
<1>6. ASSUME NEW j \in 0..n - 1
      PROVE  /\ (Wrap(o) + j) % FIFOSIZE = (o + (j + 1)) % FIFOSIZE
             /\ (Succ(given) + j) % Labels = (given + (j + 1)) % Labels
  <2>1. /\ Wrap(o) \in 0..FIFOSIZE - 1 /\ Succ(given) \in 0..Labels - 1
        /\ j \in 0..FIFOSIZE /\ j \in 0..Labels /\ j + 1 \in 0..n
    BY <1>1, <1>5
  <2>2. (Wrap(o) + j) % FIFOSIZE =
          IF Wrap(o) + j < FIFOSIZE THEN Wrap(o) + j ELSE Wrap(o) + j - FIFOSIZE
    BY <1>1, <2>1, ModAdd
  <2>3. (Succ(given) + j) % Labels =
          IF Succ(given) + j < Labels THEN Succ(given) + j ELSE Succ(given) + j - Labels
    BY <1>1, <2>1, ModAdd
  <2>4. (o + (j + 1)) % FIFOSIZE =
          IF o + (j + 1) < FIFOSIZE THEN o + (j + 1) ELSE o + (j + 1) - FIFOSIZE
    BY <1>3, <2>1
  <2>5. (given + (j + 1)) % Labels =
          IF given + (j + 1) < Labels THEN given + (j + 1) ELSE given + (j + 1) - Labels
    BY <1>3, <2>1
  <2>6. QED
    BY <1>1, <1>5, <2>2, <2>3, <2>4, <2>5
<1>7. /\ i = (Wrap(o) + (n - 1)) % FIFOSIZE
      /\ (Succ(given) + (n - 1)) % Labels = put
  <2>1. n - 1 \in 0..n - 1 /\ (n - 1) + 1 = n
    BY <1>1
  <2>2. QED
    BY <1>2, <1>6, <2>1
<1>8. ASSUME NEW j \in 0..(n - 1) - 1
      PROVE  buf[(Wrap(o) + j) % FIFOSIZE] = (Succ(given) + j) % Labels
  <2>1. j \in 0..n - 1 /\ j + 1 \in 0..n - 1
    BY <1>1
  <2>2. QED
    BY <1>2, <1>6, <2>1
<1>9. QED
  BY <1>4, <1>7, <1>8 DEF Holds

(* What the two operations do to the fields of a FIFO. *)
LEMMA OutFields ==
  ASSUME NEW f \in OutFifo, NEW c \in Label
  PROVE  /\ FetchedFrom(f) \in Label
         /\ LET g == [StoreFifo(f, c) EXCEPT !.charsin = @ + 1]
            IN  /\ g \in OutFifo /\ g.charsin = f.charsin + 1
                /\ g.inptr = Wrap(f.inptr) /\ g.outptr = f.outptr
                /\ g.buffer = [f.buffer EXCEPT ![f.inptr] = c]
         /\ LET g == [FetchFifo(f) EXCEPT !.charsin = @ - 1]
            IN  /\ f.charsin # 0 => g \in OutFifo
                /\ g.charsin = f.charsin - 1
                /\ g.inptr = f.inptr /\ g.outptr = Wrap(f.outptr) /\ g.buffer = f.buffer
<1>1. /\ \A i \in Index : Wrap(i) \in Index
      /\ f.inptr \in Index /\ f.outptr \in Index /\ f.charsin \in Nat
      /\ f.buffer \in [Index -> Label]
  BY StepTypes DEF OutFifo
<1>2. Wrap(f.inptr) \in Index /\ Wrap(f.outptr) \in Index
  BY <1>1
<1>3. FetchedFrom(f) \in Label
  BY <1>1 DEF FetchedFrom
<1> DEFINE s == StoreFifo(f, c)
           g == FetchFifo(f)
<1>4. /\ s \in OutFifo /\ s.charsin = f.charsin
      /\ s.inptr = Wrap(f.inptr) /\ s.outptr = f.outptr
      /\ s.buffer = [f.buffer EXCEPT ![f.inptr] = c]
  BY <1>1, <1>2 DEF StoreFifo, OutFifo
<1>5. /\ g \in OutFifo /\ g.charsin = f.charsin
      /\ g.inptr = f.inptr /\ g.outptr = Wrap(f.outptr) /\ g.buffer = f.buffer
  BY <1>1, <1>2 DEF FetchFifo, OutFifo
<1> HIDE DEF s, g
<1>6. ASSUME NEW h \in OutFifo, NEW n \in Int
      PROVE  LET h1 == [h EXCEPT !.charsin = n]
             IN  /\ n \in Nat => h1 \in OutFifo
                 /\ h1.charsin = n /\ h1.inptr = h.inptr
                 /\ h1.outptr = h.outptr /\ h1.buffer = h.buffer
  BY DEF OutFifo
<1>7. /\ [s EXCEPT !.charsin = @ + 1] = [s EXCEPT !.charsin = f.charsin + 1]
      /\ [g EXCEPT !.charsin = @ - 1] = [g EXCEPT !.charsin = f.charsin - 1]
  BY <1>4, <1>5
<1>8. /\ f.charsin + 1 \in Nat /\ f.charsin - 1 \in Int
      /\ f.charsin # 0 => f.charsin - 1 \in Nat
  BY <1>1
<1>9. QED
  BY <1>3, <1>4, <1>5, <1>6, <1>7, <1>8 DEF s, g

(* The same of the input FIFO. *)
LEMMA InFields ==
  ASSUME NEW f \in InFifo, NEW c \in Label
  PROVE  /\ FetchedFrom(f) \in Label
         /\ LET g == [FetchFifo(f) EXCEPT !.charsout = @ + 1]
            IN  /\ g \in InFifo /\ g.charsout = f.charsout + 1
                /\ g.inptr = f.inptr /\ g.outptr = Wrap(f.outptr) /\ g.buffer = f.buffer
         /\ LET g == [StoreFifo(f, c) EXCEPT !.charsout = @ - 1]
            IN  /\ f.charsout # 0 => g \in InFifo
                /\ g.charsout = f.charsout - 1
                /\ g.inptr = Wrap(f.inptr) /\ g.outptr = f.outptr
                /\ g.buffer = [f.buffer EXCEPT ![f.inptr] = c]
<1>1. /\ \A i \in Index : Wrap(i) \in Index
      /\ f.inptr \in Index /\ f.outptr \in Index /\ f.charsout \in Nat
      /\ f.buffer \in [Index -> Label]
  BY StepTypes DEF InFifo
<1>2. Wrap(f.inptr) \in Index /\ Wrap(f.outptr) \in Index
  BY <1>1
<1>3. FetchedFrom(f) \in Label
  BY <1>1 DEF FetchedFrom
<1> DEFINE s == StoreFifo(f, c)
           g == FetchFifo(f)
<1>4. /\ s \in InFifo /\ s.charsout = f.charsout
      /\ s.inptr = Wrap(f.inptr) /\ s.outptr = f.outptr
      /\ s.buffer = [f.buffer EXCEPT ![f.inptr] = c]
  BY <1>1, <1>2 DEF StoreFifo, InFifo
<1>5. /\ g \in InFifo /\ g.charsout = f.charsout
      /\ g.inptr = f.inptr /\ g.outptr = Wrap(f.outptr) /\ g.buffer = f.buffer
  BY <1>1, <1>2 DEF FetchFifo, InFifo
<1> HIDE DEF s, g
<1>6. ASSUME NEW h \in InFifo, NEW n \in Int
      PROVE  LET h1 == [h EXCEPT !.charsout = n]
             IN  /\ n \in Nat => h1 \in InFifo
                 /\ h1.charsout = n /\ h1.inptr = h.inptr
                 /\ h1.outptr = h.outptr /\ h1.buffer = h.buffer
  BY DEF InFifo
<1>7. /\ [s EXCEPT !.charsout = @ - 1] = [s EXCEPT !.charsout = f.charsout - 1]
      /\ [g EXCEPT !.charsout = @ + 1] = [g EXCEPT !.charsout = f.charsout + 1]
  BY <1>4, <1>5
<1>8. /\ f.charsout + 1 \in Nat /\ f.charsout - 1 \in Int
      /\ f.charsout # 0 => f.charsout - 1 \in Nat
  BY <1>1
<1>9. QED
  BY <1>3, <1>4, <1>5, <1>6, <1>7, <1>8 DEF s, g
-----------------------------------------------------------------------------
(* Processes and semaphores. *)

(* Users are processes, and finitely many. *)
LEMMA UsersFinite ==
  /\ Users \subseteq Proc /\ NullProc \notin Users
  /\ \A S \in SUBSET Users : IsFiniteSet(S) /\ Cardinality(S) \in Nat
<1>1. \A mode \in Modes : /\ mode.writers \subseteq Proc \ {NullProc}
                          /\ mode.echoers \subseteq Proc \ {NullProc}
  BY UsesAssumption
<1>2. Users \subseteq Proc /\ NullProc \notin Users
  BY <1>1 DEF Users
<1>3. QED
  BY <1>2, FiniteAssumption, FS_Subset, FS_CardinalityType

(* A process that goes from one place to another is counted there. *)
LEMMA NumberMoves ==
  ASSUME NEW f \in [Users -> Places], NEW p \in Users, NEW m \in Places, NEW l \in Places
  PROVE  /\ Number(f, l) \in Nat
         /\ f[p] # l /\ m = l => Number([f EXCEPT ![p] = m], l) = Number(f, l) + 1
         /\ f[p] = l /\ m # l => Number([f EXCEPT ![p] = m], l) = Number(f, l) - 1
         /\ f[p] # l /\ m # l => Number([f EXCEPT ![p] = m], l) = Number(f, l)
<1> DEFINE A == {q \in Users : f[q] = l}
           B == {q \in Users : [f EXCEPT ![p] = m][q] = l}
<1>1. IsFiniteSet(A) /\ Cardinality(A) \in Nat
  BY UsersFinite
<1>2. ASSUME f[p] # l, m = l PROVE Cardinality(B) = Cardinality(A) + 1
  <2>1. B = A \cup {p} /\ p \notin A
    BY <1>2
  <2> HIDE DEF A, B
  <2>2. QED
    BY <1>1, <2>1, FS_AddElement
<1>3. ASSUME f[p] = l, m # l PROVE Cardinality(B) = Cardinality(A) - 1
  <2>1. B = A \ {p} /\ p \in A
    BY <1>3
  <2> HIDE DEF A, B
  <2>2. QED
    BY <1>1, <2>1, FS_RemoveElement
<1>4. ASSUME f[p] # l, m # l PROVE B = A
  BY <1>4
<1> HIDE DEF A, B
<1>5. Number(f, l) = Cardinality(A) /\ Number([f EXCEPT ![p] = m], l) = Cardinality(B)
  BY DEF Number, A, B
<1>6. QED
  BY <1>1, <1>2, <1>3, <1>4, <1>5

(* A process that has passed its wait has a slot, or a character: n, the   *)
(* number of the others, is not yet at the size of the FIFO.               *)
LEMMA RoomForOne ==
  ASSUME KernelPart, pc \in [Users -> {"think", "slot", "char", "got"}],
         NEW s \in Sem, NEW n \in Nat, Balanced(k, s),
         k.count[s] + n + Number(pc, Place(s)) = FIFOSIZE,
         NEW p \in Users, At(p, Place(s))
  PROVE  n < FIFOSIZE
<1> DEFINE A == {q \in Users : pc[q] = Place(s)}
<1>1. /\ Users \subseteq Proc /\ IsFiniteSet(A) /\ Cardinality(A) \in Nat
      /\ p \in A /\ Cardinality(A) = Number(pc, Place(s))
  BY UsersFinite DEF At, Number
<1>2. /\ k.count[s] \in Int /\ k.pstate[p] = Runnable /\ s # Runnable
      /\ FIFOSIZE \in Nat
  BY SemAssumption, SizesAssumption DEF KernelPart, KernelOK, KernelType, At
<1>3. Waiters(k, s) \subseteq A \ {p}
  <2>1. Listed(k) \subseteq Proc
    BY DEF KernelPart, KernelOK, KernelType, Listed
  <2>2. \A q \in Proc : k.pstate[q] = s => q \in Users /\ pc[q] = Place(s)
    BY DEF KernelPart
  <2>3. QED
    BY <1>2, <2>1, <2>2 DEF Waiters
<1> HIDE DEF A
<1>4. Cardinality(A \ {p}) = Cardinality(A) - 1 /\ IsFiniteSet(A \ {p})
  BY <1>1, FS_RemoveElement
<1>5. Cardinality(Waiters(k, s)) <= Cardinality(A) - 1
  BY <1>3, <1>4, FS_Subset
<1>6. Cardinality(Waiters(k, s)) = IF k.count[s] < 0 THEN -k.count[s] ELSE 0
  BY DEF Balanced
<1>7. QED
  BY <1>1, <1>2, <1>5, <1>6

(* The kernel's part of the invariant through wait ... *)
LEMMA KernelWaits ==
  ASSUME KernelPart, NEW p \in Users, k.cproc = p, NEW s \in Sem,
         pc \in [Users -> {"think", "slot", "char", "got"}],
         pc[p] \notin {"slot", "char"},
         k' = Wait(k, s), pc' = [pc EXCEPT ![p] = Place(s)]
  PROVE  /\ KernelPart' /\ k'.count = [k.count EXCEPT ![s] = @ - 1]
         /\ \A t \in Sem : Balanced(k, t) => Balanced(k', t)
<1>1. /\ KernelOK(k) /\ k.list = Priority /\ k.cproc \in Listed(k)
      /\ p # NullProc /\ Users \subseteq Proc
      /\ k.pstate \in [Proc -> Sem \cup {Runnable}] /\ k.pstate[p] = Runnable
      /\ \A q \in Proc, t \in Sem : k.pstate[q] = t => q \in Users /\ pc[q] = Place(t)
  BY UsersFinite DEF KernelPart, KernelOK, KernelType
<1>2. /\ KernelOK(k') /\ k'.list = k.list
      /\ k'.count = [k.count EXCEPT ![s] = @ - 1]
      /\ \/ k'.pstate = k.pstate /\ k'.cproc = k.cproc
         \/ k'.pstate = [k.pstate EXCEPT ![k.cproc] = s] /\ GivesWay(k, k')
  BY <1>1, WaitEffect
<1>3. k'.cproc \in Listed(k')
  BY <1>1, <1>2 DEF GivesWay, Listed
<1>4. ASSUME NEW q \in Proc, NEW t \in Sem, k'.pstate[q] = t
      PROVE  q \in Users /\ pc'[q] = Place(t)
  <2>1. CASE q = p
    <3>1. t = s
      BY <1>1, <1>2, <1>4, <2>1, SemAssumption
    <3>2. QED
      BY <2>1, <3>1
  <2>2. CASE q # p
    BY <1>1, <1>2, <1>4, <2>2
  <2>3. QED
    BY <2>1, <2>2
<1>5. \A t \in Sem : Balanced(k, t) => Balanced(k', t)
  BY <1>1, WaitBalanced
<1>6. QED
  BY <1>1, <1>2, <1>3, <1>4, <1>5 DEF KernelPart

(* ... through signal, when at most the running process moves ... *)
LEMMA KernelSignals ==
  ASSUME KernelPart, NEW s \in Sem, k' = Signal(k, s),
         \A q \in Users : q # k.cproc => pc'[q] = pc[q]
  PROVE  /\ KernelPart' /\ k'.count = [k.count EXCEPT ![s] = @ + 1]
         /\ \A t \in Sem : Balanced(k, t) => Balanced(k', t)
<1>1. /\ KernelOK(k) /\ k.list = Priority /\ k.cproc \in Listed(k)
      /\ k.pstate \in [Proc -> Sem \cup {Runnable}] /\ k.pstate[k.cproc] = Runnable
      /\ \A q \in Proc, t \in Sem : k.pstate[q] = t => q \in Users /\ pc[q] = Place(t)
  BY DEF KernelPart, KernelOK, KernelType
<1>2. /\ KernelOK(k') /\ k'.list = k.list
      /\ k'.count = [k.count EXCEPT ![s] = @ + 1]
      /\ \/ k'.pstate = k.pstate /\ k'.cproc = k.cproc
         \/ \E w \in Waiters(k, s) : Wakes(k, k', w)
  BY <1>1, SignalEffect
<1>3. k'.cproc \in Listed(k')
  <2>1. k'.cproc = k.cproc \/ \E w \in Listed(k) : k'.cproc = w
    BY <1>2 DEF Wakes, Waiters
  <2>2. QED
    BY <1>1, <1>2, <2>1 DEF Listed
<1>4. ASSUME NEW q \in Proc, NEW t \in Sem, k'.pstate[q] = t
      PROVE  q \in Users /\ pc'[q] = Place(t)
  <2>1. k.pstate[q] = t
    BY <1>1, <1>2, <1>4, SemAssumption DEF Wakes
  <2>2. q # k.cproc
    BY <1>1, <2>1, SemAssumption
  <2>3. QED
    BY <1>1, <2>1, <2>2
<1>5. \A t \in Sem : Balanced(k, t) => Balanced(k', t)
  BY <1>1, SignalBalanced
<1>6. QED
  BY <1>1, <1>2, <1>3, <1>4, <1>5 DEF KernelPart

(* ... and when it stays as it is. *)
LEMMA KernelStays ==
  ASSUME KernelPart, UNCHANGED k, \A q \in Users : q # k.cproc => pc'[q] = pc[q]
  PROVE  KernelPart' /\ \A t \in Sem : Balanced(k, t) => Balanced(k', t)
<1>1. /\ k.pstate[k.cproc] = Runnable
      /\ \A q \in Proc, t \in Sem : k.pstate[q] = t => q \in Users /\ pc[q] = Place(t)
  BY DEF KernelPart, KernelOK
<1>2. ASSUME NEW q \in Proc, NEW t \in Sem, k'.pstate[q] = t
      PROVE  q \in Users /\ pc'[q] = Place(t)
  BY <1>1, <1>2, SemAssumption
<1>3. QED
  BY <1>2 DEF KernelPart
-----------------------------------------------------------------------------
(* The steps.  Each lemma is about the actions that change the same part   *)
(* of the state; OutPart is carried along apart from the rest.             *)

Keeps == IInv' /\ (OutPart => OutPart')

(* What the invariant says, in the forms that the steps use. *)
LEMMA Parts ==
  ASSUME IInv
  PROVE  /\ Types /\ Slots /\ KernelPart /\ UsePart /\ UartPart /\ InPart
         /\ Raw => QuietMeansIdle
         /\ OutFree \in Sem /\ InChars \in Sem /\ OutFree # InChars
         /\ Place(OutFree) = "slot" /\ Place(InChars) = "char"
         /\ k.count \in [Sem -> Int]
         /\ out.charsin \in Nat /\ in.charsout \in Nat
<1>1. OutFree \in Sem /\ InChars \in Sem /\ OutFree # InChars
  BY SemaphoresAssumption DEF OutFree, InChars
<1>2. Place(OutFree) = "slot" /\ Place(InChars) = "char"
  BY <1>1 DEF Place
<1>3. Types /\ Slots
  BY DEF IInv
<1>4. k.count \in [Sem -> Int] /\ out.charsin \in Nat /\ in.charsout \in Nat
  BY <1>3 DEF Types, KernelType, OutFifo, InFifo
<1>5. QED
  BY <1>1, <1>2, <1>3, <1>4 DEF IInv

(* A process goes to wait for a slot, or for a character. *)
LEMMA WaitStepKeeps ==
  ASSUME IInv, UNCHANGED use, NEW p \in Users, PutcWait(p) \/ GetcWait(p)
  PROVE  Keeps
<1>1. /\ Types /\ Slots /\ KernelPart /\ UsePart /\ UartPart /\ InPart
      /\ Raw => QuietMeansIdle
      /\ OutFree \in Sem /\ InChars \in Sem /\ OutFree # InChars
      /\ Place(OutFree) = "slot" /\ Place(InChars) = "char"
      /\ k.count \in [Sem -> Int] /\ out.charsin \in Nat /\ in.charsout \in Nat
  BY Parts
<1>2. PICK s \in Sem :
        /\ s \in {OutFree, InChars}
        /\ k.cproc = p /\ pc[p] \in {"think", "got"} /\ p \in use.writers \cup use.echoers
        /\ k' = Wait(k, s) /\ pc' = [pc EXCEPT ![p] = Place(s)] /\ UNCHANGED tty
  <2>1. CASE PutcWait(p)
    <3>1. p \in use.writers \cup use.echoers
      BY <1>1, <2>1 DEF PutcWait, At, UsePart
    <3>2. QED
      BY <1>1, <2>1, <3>1 DEF PutcWait, At, Goto
  <2>2. CASE GetcWait(p)
    BY <1>1, <2>2 DEF GetcWait, At, Goto
  <2>3. QED
    BY <2>1, <2>2
<1>3. UNCHANGED <<state, out, in, uart, txreq, outSeq, inSeq>>
  BY <1>2 DEF tty
<1>4. /\ KernelPart' /\ k'.count = [k.count EXCEPT ![s] = @ - 1]
      /\ \A t \in Sem : Balanced(k, t) => Balanced(k', t)
  <2>1. pc \in [Users -> {"think", "slot", "char", "got"}] /\ pc[p] \notin {"slot", "char"}
    BY <1>1, <1>2 DEF Types, Places
  <2>2. QED
    BY <1>1, <1>2, <2>1, KernelWaits
<1>5. /\ Number(pc, "slot") \in Nat /\ Number(pc, "char") \in Nat
      /\ Number(pc', "slot") = Number(pc, "slot") + IF s = OutFree THEN 1 ELSE 0
      /\ Number(pc', "char") = Number(pc, "char") + IF s = OutFree THEN 0 ELSE 1
  <2>1. /\ pc \in [Users -> Places] /\ pc[p] # "slot" /\ pc[p] # "char"
        /\ pc' = [pc EXCEPT ![p] = Place(s)]
        /\ "slot" \in Places /\ "char" \in Places
    BY <1>1, <1>2 DEF Types, Places
  <2>2. CASE s = OutFree
    <3>1. pc' = [pc EXCEPT ![p] = "slot"]
      BY <1>1, <2>1, <2>2
    <3>2. /\ Number(pc, "slot") \in Nat
          /\ Number([pc EXCEPT ![p] = "slot"], "slot") = Number(pc, "slot") + 1
      BY <2>1, NumberMoves
    <3>3. /\ Number(pc, "char") \in Nat
          /\ Number([pc EXCEPT ![p] = "slot"], "char") = Number(pc, "char")
      BY <2>1, NumberMoves
    <3>4. QED
      BY <2>2, <3>1, <3>2, <3>3
  <2>3. CASE s = InChars
    <3>1. pc' = [pc EXCEPT ![p] = "char"] /\ s # OutFree
      BY <1>1, <2>1, <2>3
    <3>2. /\ Number(pc, "slot") \in Nat
          /\ Number([pc EXCEPT ![p] = "char"], "slot") = Number(pc, "slot")
      BY <2>1, NumberMoves
    <3>3. /\ Number(pc, "char") \in Nat
          /\ Number([pc EXCEPT ![p] = "char"], "char") = Number(pc, "char") + 1
      BY <2>1, NumberMoves
    <3>4. QED
      BY <3>1, <3>2, <3>3
  <2>4. QED
    BY <1>2, <2>2, <2>3
<1>6. Slots'
  BY <1>1, <1>2, <1>3, <1>4, <1>5 DEF Slots
<1>7. Types'
  BY <1>1, <1>2, <1>3, <1>4 DEF Types, Places, KernelPart, KernelOK
<1>8. UsePart'
  BY <1>1, <1>2 DEF UsePart, Types
<1>9. UartPart' /\ InPart' /\ (Raw' => QuietMeansIdle')
  BY <1>1, <1>3, <1>4 DEF UartPart, InPart, Raw, QuietMeansIdle
<1>10. OutPart => OutPart'
  BY <1>1, <1>3, <1>4 DEF OutPart, OutHolds
<1>11. QED
  BY <1>4, <1>6, <1>7, <1>8, <1>9, <1>10 DEF Keeps, IInv

(* Steps of the UART and its interrupts that move no character. *)
LEMMA UartStepKeeps ==
  ASSUME IInv, UNCHANGED <<use, k, pc, out, in, outSeq, inSeq>>,
         state' \in {QUIET, OUTPUT, THROTTLED}, uart' \in Label \cup {Idle}, txreq' \in BOOLEAN,
         UartPart', Raw => QuietMeansIdle'
  PROVE  Keeps
<1>1. Types /\ Slots /\ KernelPart /\ UsePart /\ InPart
  BY Parts
<1>2. Types' /\ Slots' /\ UsePart'
  BY <1>1 DEF Types, Slots, UsePart
<1>3. KernelPart' /\ InPart'
  BY <1>1 DEF KernelPart, InPart
<1>4. (Raw' => QuietMeansIdle') /\ (OutPart => OutPart')
  BY DEF Raw, OutPart, OutHolds
<1>5. QED
  BY <1>2, <1>3, <1>4 DEF Keeps, IInv

(* The next character goes straight to an idle channel's UART, or into the *)
(* output FIFO, which keeps its order if it has a free slot.               *)
LEMMA PutKeeps ==
  ASSUME IInv, (state = QUIET /\ PutFirst) \/ (state # QUIET /\ PutFifo)
  PROVE  /\ state' \in {QUIET, OUTPUT, THROTTLED} /\ uart' \in Label \cup {Idle}
         /\ txreq' \in BOOLEAN /\ out' \in OutFifo /\ outSeq' \in [put : Label, given : Label]
         /\ out'.charsin = out.charsin + IF state = QUIET THEN 0 ELSE 1
         /\ UartPart' /\ state' # QUIET
         /\ (OutHolds /\ (state = QUIET \/ out.charsin < FIFOSIZE)) => OutHolds'
<1>1. Types /\ UartPart /\ out.charsin \in Nat
  BY Parts
<1>2. /\ out \in OutFifo /\ outSeq \in [put : Label, given : Label]
      /\ outSeq.put \in Label /\ outSeq.given \in Label
      /\ Succ(outSeq.put) \in Label /\ outSeq.put # Idle
  BY <1>1, StepTypes DEF Types
<1>3. CASE state = QUIET /\ PutFirst
  <2>1. /\ state' = OUTPUT /\ uart' = outSeq.put /\ txreq' = FALSE /\ out' = out
        /\ outSeq' = [put |-> Succ(outSeq.put), given |-> Succ(outSeq.put)]
        /\ out.charsin = 0 /\ QUIET # OUTPUT
    BY <1>1, <1>3 DEF PutFirst, UartPart, QUIET, OUTPUT
  <2>2. UartPart' /\ state' # QUIET /\ outSeq' \in [put : Label, given : Label]
    BY <1>2, <2>1 DEF UartPart
  <2>3. ASSUME OutHolds PROVE OutHolds'
    <3>1. /\ out.inptr = (out.outptr + 0) % FIFOSIZE
          /\ outSeq'.put = Succ(outSeq.put) /\ outSeq'.given = Succ(outSeq.put)
      BY <2>1, <2>3 DEF OutHolds, Holds
    <3>2. (Succ(outSeq.put) + 0) % Labels = Succ(outSeq.put)
      BY <1>2, SizesAssumption DEF Label
    <3>3. 0 <= FIFOSIZE /\ \A j \in 0..0 - 1 : FALSE
      BY SizesAssumption
    <3>4. QED
      BY <2>1, <3>1, <3>2, <3>3 DEF OutHolds, Holds
  <2>4. /\ state' \in {QUIET, OUTPUT, THROTTLED} /\ uart' \in Label \cup {Idle}
        /\ txreq' \in BOOLEAN /\ out' \in OutFifo
    BY <1>2, <2>1
  <2>5. out'.charsin = out.charsin + IF state = QUIET THEN 0 ELSE 1
    BY <1>3, <2>1
  <2>6. QED
    BY <2>2, <2>3, <2>4, <2>5
<1>4. CASE state # QUIET /\ PutFifo
  <2>1. /\ out' = [StoreFifo(out, outSeq.put) EXCEPT !.charsin = @ + 1]
        /\ outSeq' = [outSeq EXCEPT !.put = Succ(@)]
        /\ UNCHANGED <<state, uart, txreq>>
    BY <1>4 DEF PutFifo
  <2>2. /\ out' \in OutFifo /\ out'.charsin = out.charsin + 1
        /\ out'.inptr = Wrap(out.inptr) /\ out'.outptr = out.outptr
        /\ out'.buffer = [out.buffer EXCEPT ![out.inptr] = outSeq.put]
    BY <1>2, <2>1, OutFields
  <2>3. /\ outSeq' \in [put : Label, given : Label]
        /\ outSeq'.put = Succ(outSeq.put) /\ outSeq'.given = outSeq.given
    BY <1>2, <2>1
  <2>4. UartPart'
    BY <1>1, <1>4, <2>1 DEF UartPart
  <2>5. ASSUME OutHolds, out.charsin < FIFOSIZE PROVE OutHolds'
    <3>1. /\ out.buffer \in [Index -> Label] /\ out.inptr \in Index /\ out.outptr \in Index
          /\ out.charsin \in 0..FIFOSIZE - 1 /\ out.charsin + 1 <= FIFOSIZE
      BY <1>1, <1>2, <2>5, SizesAssumption DEF OutFifo
    <3>2. Holds([out.buffer EXCEPT ![out.inptr] = outSeq.put], Wrap(out.inptr), out.outptr,
                out.charsin + 1, Succ(outSeq.put), outSeq.given)
      BY <1>2, <2>5, <3>1, StoreHolds DEF OutHolds
    <3>3. QED
      BY <2>2, <2>3, <3>1, <3>2 DEF OutHolds
  <2>6. QED
    BY <1>1, <1>4, <2>1, <2>2, <2>3, <2>4, <2>5 DEF Types
<1>5. QED
  BY <1>3, <1>4

(* A process emits its character. *)
LEMMA PutcStoreKeeps ==
  ASSUME IInv, UNCHANGED use, NEW p \in Users, PutcStore(p)
  PROVE  Keeps
<1>1. /\ Types /\ Slots /\ KernelPart /\ UsePart /\ UartPart /\ InPart
      /\ OutFree \in Sem /\ InChars \in Sem /\ OutFree # InChars
      /\ Place(OutFree) = "slot" /\ Place(InChars) = "char"
      /\ k.count \in [Sem -> Int] /\ out.charsin \in Nat /\ in.charsout \in Nat
  BY Parts
<1>2. /\ k.cproc = p /\ pc[p] = "slot" /\ pc' = [pc EXCEPT ![p] = "think"]
      /\ \/ state = QUIET /\ PutFirst /\ k' = Signal(k, OutFree)
         \/ state # QUIET /\ PutFifo /\ UNCHANGED k
      /\ UNCHANGED <<in, inSeq>>
  BY DEF PutcStore, At, Goto
<1>3. /\ state' \in {QUIET, OUTPUT, THROTTLED} /\ uart' \in Label \cup {Idle}
      /\ txreq' \in BOOLEAN /\ out' \in OutFifo /\ outSeq' \in [put : Label, given : Label]
      /\ out'.charsin = out.charsin + IF state = QUIET THEN 0 ELSE 1
      /\ UartPart' /\ state' # QUIET
      /\ (OutHolds /\ (state = QUIET \/ out.charsin < FIFOSIZE)) => OutHolds'
  BY <1>2, PutKeeps
<1>4. /\ KernelPart' /\ \A t \in Sem : Balanced(k, t) => Balanced(k', t)
      /\ k'.count = IF state = QUIET THEN [k.count EXCEPT ![OutFree] = @ + 1] ELSE k.count
  <2>1. \A q \in Users : q # k.cproc => pc'[q] = pc[q]
    BY <1>1, <1>2 DEF Types
  <2>2. CASE state = QUIET
    <3>1. k' = Signal(k, OutFree)
      BY <1>2, <2>2
    <3>2. QED
      BY <1>1, <2>1, <2>2, <3>1, KernelSignals
  <2>3. CASE state # QUIET
    <3>1. UNCHANGED k
      BY <1>2, <2>3
    <3>2. QED
      BY <1>1, <2>1, <2>3, <3>1, KernelStays
  <2>4. QED
    BY <2>2, <2>3
<1>5. /\ Number(pc, "slot") \in Nat /\ Number(pc, "char") \in Nat
      /\ Number(pc', "slot") = Number(pc, "slot") - 1
      /\ Number(pc', "char") = Number(pc, "char")
  <2>1. /\ pc \in [Users -> Places] /\ pc[p] = "slot"
        /\ "slot" \in Places /\ "char" \in Places /\ "think" \in Places
    BY <1>1, <1>2 DEF Types, Places
  <2>2. /\ Number(pc, "slot") \in Nat
        /\ Number([pc EXCEPT ![p] = "think"], "slot") = Number(pc, "slot") - 1
    BY <2>1, NumberMoves
  <2>3. /\ Number(pc, "char") \in Nat
        /\ Number([pc EXCEPT ![p] = "think"], "char") = Number(pc, "char")
    BY <2>1, NumberMoves
  <2>4. QED
    BY <1>2, <2>2, <2>3
<1>6. Slots'
  BY <1>1, <1>2, <1>3, <1>4, <1>5 DEF Slots
<1>7. Types'
  BY <1>1, <1>2, <1>3, <1>4 DEF Types, Places, KernelPart, KernelOK
<1>8. UsePart'
  BY <1>1, <1>2 DEF UsePart, Types
<1>9. InPart' /\ (Raw' => QuietMeansIdle')
  BY <1>1, <1>2, <1>3, <1>4 DEF InPart, Raw, QuietMeansIdle
<1>10. ASSUME OutPart PROVE OutPart'
  <2>1. out.charsin < FIFOSIZE
    <3>1. /\ pc \in [Users -> {"think", "slot", "char", "got"}] /\ Balanced(k, OutFree)
          /\ k.count[OutFree] + out.charsin + Number(pc, Place(OutFree)) = FIFOSIZE
          /\ At(p, Place(OutFree))
      BY <1>1, <1>2, <1>10 DEF Types, Places, Slots, At, OutPart
    <3>2. QED
      BY <1>1, <3>1, RoomForOne
  <2>2. QED
    BY <1>1, <1>3, <1>4, <1>10, <2>1 DEF OutPart
<1>11. QED
  BY <1>3, <1>4, <1>6, <1>7, <1>8, <1>9, <1>10 DEF Keeps, IInv

(* A process takes its character from the input FIFO. *)
LEMMA GetcTakeKeeps ==
  ASSUME IInv, UNCHANGED use, NEW p \in Users, GetcTake(p)
  PROVE  Keeps
<1>1. /\ Types /\ Slots /\ KernelPart /\ UsePart /\ UartPart /\ InPart
      /\ Raw => QuietMeansIdle
      /\ OutFree \in Sem /\ InChars \in Sem /\ OutFree # InChars
      /\ Place(OutFree) = "slot" /\ Place(InChars) = "char"
      /\ k.count \in [Sem -> Int] /\ out.charsin \in Nat /\ in.charsout \in Nat
  BY Parts
<1>2. /\ k.cproc = p /\ pc[p] = "char" /\ pc' = [pc EXCEPT ![p] = "got"]
      /\ in' = [FetchFifo(in) EXCEPT !.charsout = @ + 1]
      /\ inSeq' = [inSeq EXCEPT !.given = Succ(FetchedFrom(in))]
      /\ UNCHANGED <<k, state, out, uart, txreq, outSeq>>
  BY DEF GetcTake, At, Goto
<1>3. /\ in \in InFifo /\ inSeq \in [put : Label, given : Label]
      /\ inSeq.put \in Label /\ inSeq.given \in Label /\ in.charsout <= FIFOSIZE
      /\ FIFOSIZE \in Nat /\ FIFOSIZE - in.charsout \in Nat /\ Balanced(k, InChars)
  BY <1>1, SizesAssumption DEF Types, InPart
<1>4. /\ in' \in InFifo /\ in'.charsout = in.charsout + 1
      /\ in'.inptr = in.inptr /\ in'.outptr = Wrap(in.outptr) /\ in'.buffer = in.buffer
  BY <1>2, <1>3, InFields
<1>5. /\ Number(pc, "slot") \in Nat /\ Number(pc, "char") \in Nat
      /\ Number(pc', "slot") = Number(pc, "slot")
      /\ Number(pc', "char") = Number(pc, "char") - 1
  <2>1. /\ pc \in [Users -> Places] /\ pc[p] = "char"
        /\ "slot" \in Places /\ "char" \in Places /\ "got" \in Places
    BY <1>1, <1>2 DEF Types, Places
  <2>2. /\ Number(pc, "slot") \in Nat
        /\ Number([pc EXCEPT ![p] = "got"], "slot") = Number(pc, "slot")
    BY <2>1, NumberMoves
  <2>3. /\ Number(pc, "char") \in Nat
        /\ Number([pc EXCEPT ![p] = "got"], "char") = Number(pc, "char") - 1
    BY <2>1, NumberMoves
  <2>4. QED
    BY <1>2, <2>2, <2>3
<1>6. in.charsout < FIFOSIZE
  <2> DEFINE n == in.charsout
  <2>1. /\ pc \in [Users -> {"think", "slot", "char", "got"}]
        /\ k.count[InChars] + in.charsout + Number(pc, Place(InChars)) = FIFOSIZE
        /\ At(p, Place(InChars))
    BY <1>1, <1>2 DEF Types, Places, Slots, At
  <2>2. QED
    BY <1>1, <1>3, <2>1, RoomForOne
<1>7. InPart' /\ inSeq' \in [put : Label, given : Label]
  <2>1. /\ in.buffer \in [Index -> Label] /\ in.inptr \in Index /\ in.outptr \in Index
        /\ FIFOSIZE - in.charsout \in 1..FIFOSIZE
        /\ (FIFOSIZE - in.charsout) - 1 = FIFOSIZE - (in.charsout + 1)
    BY <1>1, <1>3, <1>6 DEF InFifo
  <2>2. /\ in.buffer[in.outptr] = inSeq.given
        /\ Holds(in.buffer, in.inptr, Wrap(in.outptr), (FIFOSIZE - in.charsout) - 1,
                 inSeq.put, Succ(inSeq.given))
    BY <1>1, <1>3, <2>1, FetchHolds DEF InPart
  <2>3. /\ inSeq' = [inSeq EXCEPT !.given = Succ(inSeq.given)]
        /\ inSeq'.put = inSeq.put /\ inSeq'.given = Succ(inSeq.given)
        /\ Succ(inSeq.given) \in Label
    BY <1>2, <1>3, <2>2, StepTypes DEF FetchedFrom
  <2>4. in'.charsout <= FIFOSIZE /\ Balanced(k', InChars)
    BY <1>1, <1>2, <1>3, <1>4, <1>6
  <2>5. QED
    BY <1>3, <1>4, <2>1, <2>2, <2>3, <2>4 DEF InPart
<1>8. KernelPart'
  <2>1. \A q \in Users : q # k.cproc => pc'[q] = pc[q]
    BY <1>1, <1>2 DEF Types
  <2>2. QED
    BY <1>1, <1>2, <2>1, KernelStays
<1>9. Slots'
  BY <1>1, <1>2, <1>4, <1>5 DEF Slots
<1>10. Types'
  BY <1>1, <1>2, <1>4, <1>7 DEF Types, Places
<1>11. UsePart'
  BY <1>1, <1>2 DEF UsePart, Types
<1>12. UartPart' /\ (Raw' => QuietMeansIdle') /\ (OutPart => OutPart')
  BY <1>1, <1>2 DEF UartPart, Raw, QuietMeansIdle, OutPart, OutHolds
<1>13. QED
  BY <1>7, <1>8, <1>9, <1>10, <1>11, <1>12 DEF Keeps, IInv

(* An interrupt routine gives the UART the next character of the output    *)
(* FIFO and signals its slot free.                                         *)
LEMMA GiveKeeps ==
  ASSUME IInv, UNCHANGED <<use, pc, in, inSeq>>, out.charsin # 0,
         GiveUart(FetchedFrom(out)), out' = [FetchFifo(out) EXCEPT !.charsin = @ - 1],
         state' = OUTPUT, k' = Signal(k, OutFree)
  PROVE  Keeps
<1>1. /\ Types /\ Slots /\ KernelPart /\ UsePart /\ UartPart /\ InPart
      /\ OutFree \in Sem /\ InChars \in Sem /\ OutFree # InChars
      /\ k.count \in [Sem -> Int] /\ out.charsin \in Nat /\ in.charsout \in Nat
  BY Parts
<1>2. /\ out \in OutFifo /\ outSeq \in [put : Label, given : Label]
      /\ outSeq.put \in Label /\ outSeq.given \in Label /\ 0 \in Label
  BY <1>1, StepTypes DEF Types
<1>3. /\ out' \in OutFifo /\ out'.charsin = out.charsin - 1
      /\ out'.inptr = out.inptr /\ out'.outptr = Wrap(out.outptr)
      /\ out'.buffer = out.buffer /\ FetchedFrom(out) \in Label
  BY <1>2, OutFields
<1>4. /\ uart' = FetchedFrom(out) /\ uart' \in Label /\ uart' # Idle /\ txreq' = FALSE
      /\ outSeq' = [outSeq EXCEPT !.given = Succ(FetchedFrom(out))]
      /\ outSeq' \in [put : Label, given : Label]
  BY <1>2, <1>3, StepTypes DEF GiveUart
<1>5. /\ KernelPart' /\ k'.count = [k.count EXCEPT ![OutFree] = @ + 1]
      /\ \A t \in Sem : Balanced(k, t) => Balanced(k', t)
  BY <1>1, KernelSignals
<1>6. Number(pc, "slot") \in Nat /\ Number(pc, "char") \in Nat /\ pc' = pc /\ in' = in
  BY UsersFinite DEF Number
<1>7. Slots'
  <2>1. k'.count[OutFree] = k.count[OutFree] + 1 /\ k'.count[InChars] = k.count[InChars]
    BY <1>1, <1>5
  <2>2. /\ k.count[OutFree] \in Int /\ k.count[InChars] \in Int
        /\ k.count[OutFree] + out.charsin + Number(pc, "slot") = FIFOSIZE
        /\ k.count[InChars] + in.charsout + Number(pc, "char") = FIFOSIZE
    BY <1>1 DEF Slots
  <2>3. /\ k'.count[OutFree] + out'.charsin + Number(pc, "slot") = FIFOSIZE
        /\ k'.count[InChars] + in'.charsout + Number(pc, "char") = FIFOSIZE
    BY <1>1, <1>3, <1>6, <2>1, <2>2
  <2>4. QED
    BY <1>6, <2>3 DEF Slots
<1>8. Types' /\ UsePart'
  BY <1>1, <1>3, <1>4, <1>5 DEF Types, KernelPart, KernelOK, UsePart
<1>9. UartPart' /\ InPart' /\ (Raw' => QuietMeansIdle')
  BY <1>1, <1>4, <1>5 DEF UartPart, InPart, Raw, QuietMeansIdle, QUIET, OUTPUT
<1>10. ASSUME OutPart PROVE OutPart'
  <2>1. /\ out.buffer \in [Index -> Label] /\ out.inptr \in Index /\ out.outptr \in Index
        /\ out.charsin \in 1..FIFOSIZE /\ out.charsin - 1 <= FIFOSIZE
    BY <1>1, <1>2, <1>10, SizesAssumption DEF OutFifo, OutPart, OutHolds
  <2>2. /\ FetchedFrom(out) = outSeq.given
        /\ Holds(out.buffer, out.inptr, Wrap(out.outptr), out.charsin - 1,
                 outSeq.put, Succ(outSeq.given))
    BY <1>2, <1>10, <2>1, FetchHolds DEF OutPart, OutHolds, FetchedFrom
  <2>3. outSeq'.put = outSeq.put /\ outSeq'.given = Succ(outSeq.given)
    BY <1>2, <1>4, <2>2
  <2>4. QED
    BY <1>1, <1>3, <1>5, <1>10, <2>1, <2>2, <2>3 DEF OutPart, OutHolds
<1>11. QED
  BY <1>5, <1>7, <1>8, <1>9, <1>10 DEF Keeps, IInv

(* A character arrives. *)
LEMMA RcvCharKeeps ==
  ASSUME IInv, UNCHANGED use, RcvChar
  PROVE  Keeps
<1>1. /\ Types /\ Slots /\ KernelPart /\ UsePart /\ UartPart /\ InPart
      /\ Raw => QuietMeansIdle
      /\ OutFree \in Sem /\ InChars \in Sem /\ OutFree # InChars
      /\ k.count \in [Sem -> Int] /\ out.charsin \in Nat /\ in.charsout \in Nat
  BY Parts
<1>2. CASE in.charsout = 0
  <2>1. UNCHANGED <<k, pc, state, out, in, uart, txreq, outSeq, inSeq>>
    BY <1>2 DEF RcvChar
  <2>2. QED
    BY <1>1, <2>1, UartStepKeeps DEF Types, UartPart, QuietMeansIdle
<1>3. CASE in.charsout # 0
  <2>1. /\ in' = [StoreFifo(in, inSeq.put) EXCEPT !.charsout = @ - 1]
        /\ inSeq' = [inSeq EXCEPT !.put = Succ(@)]
        /\ k' = Signal(k, InChars)
        /\ UNCHANGED <<pc, state, out, uart, txreq, outSeq>>
    BY <1>3 DEF RcvChar
  <2>2. /\ in \in InFifo /\ inSeq \in [put : Label, given : Label]
        /\ inSeq.put \in Label /\ inSeq.given \in Label /\ Succ(inSeq.put) \in Label
    BY <1>1, StepTypes DEF Types
  <2>3. /\ in' \in InFifo /\ in'.charsout = in.charsout - 1
        /\ in'.inptr = Wrap(in.inptr) /\ in'.outptr = in.outptr
        /\ in'.buffer = [in.buffer EXCEPT ![in.inptr] = inSeq.put]
    BY <1>3, <2>1, <2>2, InFields
  <2>4. /\ inSeq' \in [put : Label, given : Label]
        /\ inSeq'.put = Succ(inSeq.put) /\ inSeq'.given = inSeq.given
    BY <2>1, <2>2
  <2>5. /\ KernelPart' /\ k'.count = [k.count EXCEPT ![InChars] = @ + 1]
        /\ \A t \in Sem : Balanced(k, t) => Balanced(k', t)
    BY <1>1, <2>1, KernelSignals
  <2>6. Number(pc, "slot") \in Nat /\ Number(pc, "char") \in Nat
    BY UsersFinite DEF Number
  <2>7. Slots'
    BY <1>1, <2>1, <2>3, <2>5, <2>6 DEF Slots
  <2>8. Types' /\ UsePart'
    BY <1>1, <2>1, <2>3, <2>4, <2>5 DEF Types, KernelPart, KernelOK, UsePart
  <2>9. InPart'
    <3>1. /\ in.buffer \in [Index -> Label] /\ in.inptr \in Index /\ in.outptr \in Index
          /\ FIFOSIZE - in.charsout \in 0..FIFOSIZE - 1
          /\ (FIFOSIZE - in.charsout) + 1 = FIFOSIZE - (in.charsout - 1)
          /\ in.charsout - 1 <= FIFOSIZE /\ Balanced(k, InChars)
      BY <1>1, <1>3, <2>2, SizesAssumption DEF InFifo, InPart
    <3>2. Holds([in.buffer EXCEPT ![in.inptr] = inSeq.put], Wrap(in.inptr), in.outptr,
                (FIFOSIZE - in.charsout) + 1, Succ(inSeq.put), inSeq.given)
      BY <1>1, <2>2, <3>1, StoreHolds DEF InPart
    <3>3. QED
      BY <1>1, <2>3, <2>4, <2>5, <3>1, <3>2 DEF InPart
  <2>10. UartPart' /\ (Raw' => QuietMeansIdle') /\ (OutPart => OutPart')
    BY <1>1, <2>1, <2>5 DEF UartPart, Raw, QuietMeansIdle, OutPart, OutHolds
  <2>11. QED
    BY <2>5, <2>7, <2>8, <2>9, <2>10 DEF Keeps, IInv
<1>4. QED
  BY <1>2, <1>3

(* The UART and the interrupts of the transmitter and of XOFF and XON. *)
LEMMA UartKeeps ==
  ASSUME IInv, UNCHANGED use, UartDone \/ TransInt \/ RcvXoff \/ RcvXon
  PROVE  Keeps
<1>1. Types /\ UartPart /\ (Raw => QuietMeansIdle) /\ out.charsin \in Nat
  BY Parts
<1>2. /\ state \in {QUIET, OUTPUT, THROTTLED} /\ uart \in Label \cup {Idle}
      /\ txreq \in BOOLEAN /\ QUIET # OUTPUT /\ QUIET # THROTTLED /\ OUTPUT # THROTTLED
  BY <1>1 DEF Types, QUIET, OUTPUT, THROTTLED
<1>3. CASE UartDone
  <2>1. /\ UNCHANGED <<use, k, pc, state, out, in, outSeq, inSeq>>
        /\ uart' = Idle /\ txreq' = TRUE
    BY <1>3 DEF UartDone
  <2>2. UartPart' /\ QuietMeansIdle'
    BY <1>1, <2>1 DEF UartPart, QuietMeansIdle
  <2>3. QED
    BY <1>2, <2>1, <2>2, UartStepKeeps
<1>4. CASE TransInt /\ state = OUTPUT /\ out.charsin # 0
  BY <1>4, GiveKeeps DEF TransInt
<1>5. CASE TransInt /\ ~(state = OUTPUT /\ out.charsin # 0)
  <2>1. /\ UNCHANGED <<use, k, pc, out, in, uart, outSeq, inSeq>>
        /\ txreq' = FALSE /\ txreq /\ state' = IF state = OUTPUT THEN QUIET ELSE state
        /\ state = OUTPUT => out.charsin = 0
    BY <1>5 DEF TransInt, StopTransints
  <2>2. UartPart' /\ QuietMeansIdle'
    BY <1>1, <1>2, <2>1 DEF UartPart, QuietMeansIdle
  <2>3. QED
    BY <1>2, <2>1, <2>2, UartStepKeeps
<1>6. CASE RcvXoff
  <2>1. /\ UNCHANGED <<use, k, pc, out, in, uart, txreq, outSeq, inSeq>>
        /\ state' = THROTTLED
    BY <1>6 DEF RcvXoff
  <2>2. UartPart' /\ QuietMeansIdle'
    BY <1>1, <1>2, <2>1 DEF UartPart, QuietMeansIdle
  <2>3. QED
    BY <1>2, <2>1, <2>2, UartStepKeeps
<1>7. CASE RcvXon /\ state = THROTTLED /\ out.charsin # 0
  BY <1>7, GiveKeeps DEF RcvXon
<1>8. CASE RcvXon /\ ~(state = THROTTLED /\ out.charsin # 0)
  <2>1. /\ UNCHANGED <<use, k, pc, out, in, uart, txreq, outSeq, inSeq>>
        /\ state' = IF state = THROTTLED THEN QUIET ELSE state
        /\ state = THROTTLED => out.charsin = 0
        /\ ~Raw
    BY <1>8 DEF RcvXon, Raw
  <2>2. UartPart' /\ (Raw => QuietMeansIdle')
    BY <1>1, <1>2, <2>1 DEF UartPart
  <2>3. QED
    BY <1>2, <2>1, <2>2, UartStepKeeps
<1>9. QED
  BY <1>3, <1>4, <1>5, <1>6, <1>7, <1>8

(* The driver, or the kernel, as it is after a restart. *)
LEMMA StartState ==
  ASSUME NEW kk, NEW f, kk = InitState.kernel, f = InitState.pc
  PROVE  /\ KernelOK(kk) /\ kk.list = Priority /\ kk.cproc \in Listed(kk)
         /\ \A p \in Proc : kk.pstate[p] = Runnable
         /\ \A s \in Sem : Balanced(kk, s)
         /\ kk.count[OutFree] = FIFOSIZE /\ kk.count[InChars] = 0
         /\ f \in [Users -> Places] /\ \A p \in Users : f[p] = "think"
         /\ Number(f, "slot") = 0 /\ Number(f, "char") = 0
<1>1. /\ kk.list = Priority /\ kk.cproc = Priority[1]
      /\ kk.pstate = [p \in Proc |-> Runnable]
      /\ kk.count = [s \in Sem |-> IF s = OutFree THEN FIFOSIZE ELSE 0]
      /\ kk = [list |-> Priority, cproc |-> Priority[1],
               pstate |-> [p \in Proc |-> Runnable],
               count |-> [s \in Sem |-> IF s = OutFree THEN FIFOSIZE ELSE 0]]
      /\ f = [p \in Users |-> "think"]
  BY DEF InitState
<1>2. /\ OutFree \in Sem /\ InChars \in Sem /\ OutFree # InChars /\ FIFOSIZE \in Nat
      /\ Runnable \notin Sem
  BY SemaphoresAssumption, SizesAssumption, SemAssumption DEF OutFree, InChars
<1>3. /\ Priority \in Seq(Proc) /\ Len(Priority) >= 1 /\ 1 \in DOMAIN Priority
      /\ Len(Priority) \in DOMAIN Priority
      /\ Priority[1] \in Proc /\ Priority[Len(Priority)] = NullProc
      /\ \A i, j \in DOMAIN Priority : Priority[i] = Priority[j] => i = j
  BY PriorityAssumption
<1>4. kk \in KernelType
  BY <1>1, <1>2, <1>3 DEF KernelType
<1>5. kk.cproc \in Listed(kk) /\ \A p \in Proc : kk.pstate[p] = Runnable
  BY <1>1, <1>3 DEF Listed
<1>6. KernelOK(kk)
  BY <1>1, <1>3, <1>4, <1>5, NullAssumption DEF KernelOK, Distinct
<1>7. ASSUME NEW s \in Sem PROVE Balanced(kk, s)
  <2>1. Listed(kk) \subseteq Proc
    BY <1>1, <1>3 DEF Listed
  <2>2. Waiters(kk, s) = {}
    BY <1>2, <1>5, <2>1 DEF Waiters
  <2>3. Cardinality(Waiters(kk, s)) = 0 /\ kk.count[s] \in Nat
    BY <1>1, <1>2, <2>2, FS_EmptySet
  <2>4. QED
    BY <1>2, <2>3 DEF Balanced
<1>8. /\ f \in [Users -> Places] /\ \A p \in Users : f[p] = "think"
      /\ {p \in Users : f[p] = "slot"} = {} /\ {p \in Users : f[p] = "char"} = {}
  BY <1>1 DEF Places
<1>9. Number(f, "slot") = 0 /\ Number(f, "char") = 0
  BY <1>8, FS_EmptySet DEF Number
<1>10. QED
  BY <1>1, <1>2, <1>5, <1>6, <1>7, <1>8, <1>9

(* Empty FIFOs. *)
LEMMA StartFifos ==
  ASSUME NEW fo, NEW fi, fo = InitState.outfifo, fi = InitState.infifo
  PROVE  /\ fo \in OutFifo /\ fo.charsin = 0 /\ fi \in InFifo /\ fi.charsout = FIFOSIZE
         /\ FIFOSIZE <= FIFOSIZE /\ 0 <= FIFOSIZE /\ FIFOSIZE - FIFOSIZE = 0
         /\ Holds(fo.buffer, fo.inptr, fo.outptr, 0, 0, 0)
         /\ Holds(fi.buffer, fi.inptr, fi.outptr, 0, 0, 0)
         /\ [put |-> 0, given |-> 0] \in [put : Label, given : Label]
<1>1. /\ FIFOSIZE \in Nat \ {0} /\ Labels \in Nat \ {0} /\ 0 \in Label /\ 0 \in Index
  BY SizesAssumption DEF Label, Index
<1>2. /\ fo = [charsin |-> 0, inptr |-> 0, outptr |-> 0, buffer |-> [i \in Index |-> 0]]
      /\ fi = [charsout |-> FIFOSIZE, inptr |-> 0, outptr |-> 0, buffer |-> [i \in Index |-> 0]]
  BY DEF InitState, Index
<1>3. fo \in OutFifo /\ fi \in InFifo
  BY <1>1, <1>2 DEF OutFifo, InFifo
<1>4. 0 = (0 + 0) % FIFOSIZE /\ (0 + 0) % Labels = 0 /\ \A j \in 0..0 - 1 : FALSE
  BY <1>1
<1>5. ASSUME NEW buf PROVE Holds(buf, 0, 0, 0, 0, 0)
  BY <1>4 DEF Holds
<1>6. QED
  BY <1>1, <1>2, <1>3, <1>5

(* KILL. *)
LEMMA RcvKillKeeps ==
  ASSUME IInv, UNCHANGED use, RcvKill
  PROVE  Keeps
<1>1. Types /\ UartPart /\ UsePart /\ ~Raw
  BY Parts DEF RcvKill, Raw
<1>2. /\ k' = InitState.kernel /\ pc' = InitState.pc
      /\ out' = InitState.outfifo /\ in' = InitState.infifo
      /\ state' = QUIET /\ UNCHANGED <<use, uart, txreq>>
      /\ outSeq' = [put |-> 0, given |-> 0] /\ outSeq'.put = 0 /\ outSeq'.given = 0
      /\ inSeq' = [put |-> 0, given |-> 0] /\ inSeq'.put = 0 /\ inSeq'.given = 0
  BY DEF RcvKill
<1>3. /\ KernelOK(k') /\ k'.list = Priority /\ k'.cproc \in Listed(k')
      /\ \A p \in Proc : k'.pstate[p] = Runnable
      /\ \A s \in Sem : Balanced(k', s)
      /\ k'.count[OutFree] = FIFOSIZE /\ k'.count[InChars] = 0
      /\ pc' \in [Users -> Places] /\ \A p \in Users : pc'[p] = "think"
      /\ Number(pc', "slot") = 0 /\ Number(pc', "char") = 0
  BY <1>2, StartState
<1>4. /\ out' \in OutFifo /\ out'.charsin = 0 /\ in' \in InFifo /\ in'.charsout = FIFOSIZE
      /\ FIFOSIZE <= FIFOSIZE /\ 0 <= FIFOSIZE /\ FIFOSIZE - FIFOSIZE = 0
      /\ Holds(out'.buffer, out'.inptr, out'.outptr, 0, 0, 0)
      /\ Holds(in'.buffer, in'.inptr, in'.outptr, 0, 0, 0)
      /\ [put |-> 0, given |-> 0] \in [put : Label, given : Label]
  BY <1>2, StartFifos
<1>5. OutFree \in Sem /\ InChars \in Sem /\ FIFOSIZE \in Nat /\ Runnable \notin Sem
  BY SemaphoresAssumption, SizesAssumption, SemAssumption
<1>6. KernelPart'
  BY <1>3, <1>5 DEF KernelPart
<1>7. Types'
  BY <1>1, <1>2, <1>3, <1>4 DEF Types, KernelOK
<1>8. Slots'
  BY <1>3, <1>4, <1>5 DEF Slots
<1>9. UsePart' /\ UartPart' /\ ~Raw'
  BY <1>1, <1>2, <1>3, <1>4 DEF UsePart, UartPart, Raw, QUIET, OUTPUT
<1>10. InPart' /\ OutPart'
  BY <1>2, <1>3, <1>4, <1>5 DEF InPart, OutPart, OutHolds
<1>11. QED
  BY <1>6, <1>7, <1>8, <1>9, <1>10 DEF Keeps, IInv

(* An interrupt routine emits a character.  It takes a slot whenever the   *)
(* value of the semaphore is not zero, which is right as long as no        *)
(* process ever waits.                                                     *)
LEMMA PutIKeeps ==
  ASSUME IInv, UNCHANGED use, PutcI
  PROVE  IInv' /\ (Separate /\ OutPart => OutPart')
<1>1. /\ Types /\ Slots /\ KernelPart /\ UsePart /\ UartPart /\ InPart
      /\ Raw => QuietMeansIdle
      /\ OutFree \in Sem /\ InChars \in Sem /\ OutFree # InChars
      /\ Place(OutFree) = "slot" /\ Place(InChars) = "char"
      /\ k.count \in [Sem -> Int] /\ out.charsin \in Nat /\ in.charsout \in Nat
  BY Parts
<1>2. CASE k.count[OutFree] = 0
  <2>1. UNCHANGED <<use, k, pc, state, out, in, uart, txreq, outSeq, inSeq>>
    BY <1>2 DEF PutcI
  <2>2. Keeps
    BY <1>1, <2>1, UartStepKeeps DEF Types, UartPart, QuietMeansIdle
  <2>3. QED
    BY <2>2 DEF Keeps
<1>3. CASE k.count[OutFree] # 0
  <2>1. /\ \/ state = QUIET /\ PutFirst /\ UNCHANGED k
           \/ /\ state # QUIET /\ PutFifo
              /\ k' = [k EXCEPT !.count[OutFree] = @ - 1]
        /\ UNCHANGED <<pc, in, inSeq>> /\ use.interruptput
    BY <1>3 DEF PutcI
  <2>2. /\ state' \in {QUIET, OUTPUT, THROTTLED} /\ uart' \in Label \cup {Idle}
        /\ txreq' \in BOOLEAN /\ out' \in OutFifo /\ outSeq' \in [put : Label, given : Label]
        /\ out'.charsin = out.charsin + IF state = QUIET THEN 0 ELSE 1
        /\ UartPart' /\ state' # QUIET
        /\ (OutHolds /\ (state = QUIET \/ out.charsin < FIFOSIZE)) => OutHolds'
    BY <2>1, PutKeeps
  <2>3. /\ k' \in KernelType /\ k'.list = k.list /\ k'.cproc = k.cproc /\ k'.pstate = k.pstate
        /\ k'.count = IF state = QUIET THEN k.count ELSE [k.count EXCEPT ![OutFree] = @ - 1]
    <3>1. CASE state = QUIET
      <4>1. k' = k
        BY <2>1, <3>1
      <4>2. QED
        BY <1>1, <3>1, <4>1 DEF Types
    <3>2. CASE state # QUIET
      <4>1. k' = [k EXCEPT !.count[OutFree] = @ - 1] /\ k \in KernelType
        BY <1>1, <2>1, <3>2 DEF Types
      <4>2. [k.count EXCEPT ![OutFree] = @ - 1] \in [Sem -> Int]
        BY <1>1
      <4>3. k' = [k EXCEPT !.count = [k.count EXCEPT ![OutFree] = @ - 1]]
        BY <4>1 DEF KernelType
      <4>4. /\ k' \in KernelType /\ k'.list = k.list /\ k'.cproc = k.cproc
            /\ k'.pstate = k.pstate /\ k'.count = [k.count EXCEPT ![OutFree] = @ - 1]
        BY <4>1, <4>2, <4>3 DEF KernelType
      <4>5. QED
        BY <3>2, <4>4
    <3>3. QED
      BY <3>1, <3>2
  <2>4. KernelPart'
    BY <1>1, <2>1, <2>3 DEF KernelPart, KernelOK, Listed, Distinct
  <2>5. Number(pc, "slot") \in Nat /\ Number(pc, "char") \in Nat /\ pc' = pc /\ in' = in
    BY <2>1, UsersFinite DEF Number
  <2>6. Slots'
    BY <1>1, <2>2, <2>3, <2>5 DEF Slots
  <2>7. Types' /\ UsePart'
    BY <1>1, <2>1, <2>2, <2>3 DEF Types, UsePart
  <2>8. InPart' /\ (Raw' => QuietMeansIdle')
    <3>1. Waiters(k', InChars) = Waiters(k, InChars) /\ k'.count[InChars] = k.count[InChars]
      BY <1>1, <2>3 DEF Waiters, Listed
    <3>2. QED
      BY <1>1, <2>1, <2>2, <3>1 DEF InPart, Balanced, QuietMeansIdle
  <2>9. ASSUME Separate, OutPart PROVE OutPart'
    <3>1. /\ use \in Modes /\ use.writers = {} /\ use.echoers = {}
          /\ \A p \in Users : pc[p] = "think"
      BY <1>1, <2>1, <2>9 DEF Separate, UsePart
    <3>2. Waiters(k, OutFree) = {} /\ Waiters(k', OutFree) = {}
      <4>1. Listed(k) \subseteq Proc /\ Listed(k') = Listed(k)
        BY <1>1, <2>3 DEF KernelPart, KernelOK, KernelType, Listed
      <4>2. \A p \in Proc : k.pstate[p] # OutFree
        BY <1>1, <3>1 DEF KernelPart
      <4>3. QED
        BY <2>3, <4>1, <4>2 DEF Waiters
    <3>3. k.count[OutFree] >= 1
      <4>1. Cardinality(Waiters(k, OutFree)) = 0
        BY <3>2, FS_EmptySet
      <4>2. QED
        BY <1>1, <1>3, <2>9, <4>1 DEF OutPart, Balanced
    <3>4. out.charsin < FIFOSIZE
      <4>1. FIFOSIZE \in Nat
        BY SizesAssumption
      <4>2. QED
        BY <1>1, <2>5, <3>3, <4>1 DEF Slots
    <3>5. Balanced(k', OutFree)
      <4>1. Cardinality(Waiters(k', OutFree)) = 0
        BY <3>2, FS_EmptySet
      <4>2. k'.count[OutFree] \in Int /\ k'.count[OutFree] >= 0
        BY <1>1, <2>3, <3>3
      <4>3. QED
        BY <4>1, <4>2 DEF Balanced
    <3>6. QED
      BY <2>2, <2>9, <3>4, <3>5 DEF OutPart
  <2>10. QED
    BY <2>2, <2>4, <2>6, <2>7, <2>8, <2>9 DEF IInv
<1>4. QED
  BY <1>2, <1>3

(* Every step. *)
LEMMA StepKeeps ==
  ASSUME IInv, [Next]_vars
  PROVE  IInv' /\ (Separate /\ OutPart => OutPart')
<1>1. CASE UNCHANGED vars
  <2>1. UNCHANGED <<use, k, pc, state, out, in, uart, txreq, outSeq, inSeq>>
    BY <1>1 DEF vars, moving, tty
  <2>2. Types /\ UartPart /\ (Raw => QuietMeansIdle)
    BY Parts
  <2>3. Keeps
    BY <2>1, <2>2, UartStepKeeps DEF Types, UartPart, QuietMeansIdle
  <2>4. QED
    BY <2>3 DEF Keeps
<1>2. CASE UNCHANGED use /\ \E p \in Users : ProcessStep(p)
  <2>1. PICK p \in Users : ProcessStep(p)
    BY <1>2
  <2>2. Keeps
    BY <1>2, <2>1, WaitStepKeeps, PutcStoreKeeps, GetcTakeKeeps DEF ProcessStep
  <2>3. QED
    BY <2>2 DEF Keeps
<1>3. CASE UNCHANGED use /\ (UartDone \/ TransInt \/ RcvXoff \/ RcvXon)
  BY <1>3, UartKeeps DEF Keeps
<1>4. CASE UNCHANGED use /\ (RcvChar \/ RcvKill)
  BY <1>4, RcvCharKeeps, RcvKillKeeps DEF Keeps
<1>5. CASE UNCHANGED use /\ PutcI
  BY <1>5, PutIKeeps
<1>6. QED
  BY <1>1, <1>2, <1>3, <1>4, <1>5 DEF Next

(* The initial states. *)
LEMMA InitHolds == Init => IInv /\ OutPart
<1> SUFFICES ASSUME Init PROVE IInv /\ OutPart
  OBVIOUS
<1>1. /\ k = InitState.kernel /\ pc = InitState.pc
      /\ out = InitState.outfifo /\ in = InitState.infifo
      /\ use \in Modes /\ state = QUIET /\ uart = Idle /\ txreq = FALSE
      /\ outSeq = [put |-> 0, given |-> 0] /\ outSeq.put = 0 /\ outSeq.given = 0
      /\ inSeq = [put |-> 0, given |-> 0] /\ inSeq.put = 0 /\ inSeq.given = 0
  BY DEF Init
<1>2. /\ KernelOK(k) /\ k.list = Priority /\ k.cproc \in Listed(k)
      /\ \A p \in Proc : k.pstate[p] = Runnable
      /\ \A s \in Sem : Balanced(k, s)
      /\ k.count[OutFree] = FIFOSIZE /\ k.count[InChars] = 0
      /\ pc \in [Users -> Places] /\ \A p \in Users : pc[p] = "think"
      /\ Number(pc, "slot") = 0 /\ Number(pc, "char") = 0
  BY <1>1, StartState
<1>3. /\ out \in OutFifo /\ out.charsin = 0 /\ in \in InFifo /\ in.charsout = FIFOSIZE
      /\ FIFOSIZE <= FIFOSIZE /\ 0 <= FIFOSIZE /\ FIFOSIZE - FIFOSIZE = 0
      /\ Holds(out.buffer, out.inptr, out.outptr, 0, 0, 0)
      /\ Holds(in.buffer, in.inptr, in.outptr, 0, 0, 0)
      /\ [put |-> 0, given |-> 0] \in [put : Label, given : Label]
  BY <1>1, StartFifos
<1>4. OutFree \in Sem /\ InChars \in Sem /\ FIFOSIZE \in Nat /\ Runnable \notin Sem
  BY SemaphoresAssumption, SizesAssumption, SemAssumption
<1>5. KernelPart
  BY <1>2, <1>4 DEF KernelPart
<1>6. Types
  BY <1>1, <1>2, <1>3 DEF Types, KernelOK
<1>7. Slots
  BY <1>2, <1>3, <1>4 DEF Slots
<1>8. UsePart /\ UartPart /\ QuietMeansIdle
  BY <1>1, <1>2, <1>3 DEF UsePart, UartPart, QuietMeansIdle, QUIET, OUTPUT
<1>9. InPart /\ OutPart
  BY <1>1, <1>2, <1>3, <1>4 DEF InPart, OutPart, OutHolds
<1>10. QED
  BY <1>5, <1>6, <1>7, <1>8, <1>9 DEF IInv
-----------------------------------------------------------------------------
(* The theorems. *)

(* The inductive invariant holds, whatever the uses of the driver are. *)
LEMMA Invariance == Spec => []IInv
<1>1. Init => IInv
  BY InitHolds
<1>2. IInv /\ [Next]_vars => IInv'
  BY StepKeeps
<1>3. QED
  BY <1>1, <1>2, PTL DEF Spec

(* Every variable of the driver has its type. *)
THEOREM TtyTypeOK == Spec => []TypeOK
<1>1. IInv => TypeOK
  BY DEF IInv, Types, TypeOK, Places, OutFifo, InFifo, Index
<1>2. QED
  BY <1>1, Invariance, PTL

(* Every slot of both FIFOs is free, occupied or promised to one process   *)
(* between its wait and its disabled section, through every interleaving   *)
(* of tty-putc, tty-getc, tty-putc-i and the interrupt routines.           *)
THEOREM TtySlotsAccounted == Spec => []SlotsAccounted
<1>1. IInv => SlotsAccounted
  BY DEF IInv, Slots, SlotsAccounted, Number
<1>2. QED
  BY <1>1, Invariance, PTL

(* Whatever is received and not thrown away is read once, in its order,    *)
(* and the type-ahead buffer never overflows (tty-rcvint, tty-getc).       *)
THEOREM TtyInputInOrder == Spec => []InputInOrder
<1>1. IInv => InputInOrder
  <2> SUFFICES ASSUME IInv PROVE InputInOrder
    OBVIOUS
  <2>1. /\ in.charsout <= FIFOSIZE /\ in.charsout \in Nat /\ FIFOSIZE \in Nat
        /\ Holds(in.buffer, in.inptr, in.outptr, FIFOSIZE - in.charsout, inSeq.put, inSeq.given)
    BY Parts, SizesAssumption DEF InPart
  <2>2. QED
    BY <2>1 DEF InputInOrder, Holds
<1>2. QED
  BY <1>1, Invariance, PTL

(* Characters in the output FIFO are on their way: the UART is sending, or *)
(* asks for an interrupt, unless the other end has sent XOFF.              *)
THEOREM TtyNoStall == Spec => []NoStall
<1>1. IInv => NoStall
  BY Parts DEF Types, UartPart, NoStall
<1>2. QED
  BY <1>1, Invariance, PTL

(* On a raw channel, QUIET is only ever seen with an idle UART. *)
THEOREM TtyRawQuietMeansIdle == Spec => []RawQuietMeansIdle
<1>1. IInv => RawQuietMeansIdle
  BY DEF IInv, RawQuietMeansIdle
<1>2. QED
  BY <1>1, Invariance, PTL

(* A raw channel never overruns the UART: no step replaces a character     *)
(* that is being sent (uart! and uart-first! do not look).                 *)
THEOREM TtyNoOverrun == Spec => NoOverrun
<1>1. ASSUME IInv, [Next]_vars PROVE [Raw /\ uart # Idle => uart' \in {uart, Idle}]_vars
  <2>1. UartPart /\ (Raw => QuietMeansIdle)
    BY <1>1, Parts
  <2>2. CASE UNCHANGED vars
    BY <2>2
  <2>3. ASSUME Next, Raw, uart # Idle PROVE uart' \in {uart, Idle}
    <3>1. ~txreq /\ state # QUIET /\ use.controls = {}
      BY <2>1, <2>3 DEF UartPart, Raw, QuietMeansIdle
    <3>2. CASE \E p \in Users : ProcessStep(p)
      BY <3>1, <3>2 DEF ProcessStep, PutcWait, PutcStore, GetcWait, GetcTake, PutFifo, tty
    <3>3. CASE UartDone \/ TransInt
      BY <3>1, <3>3 DEF UartDone, TransInt
    <3>4. CASE RcvChar \/ RcvXoff \/ RcvXon \/ RcvKill
      BY <3>1, <3>4 DEF RcvChar, RcvXoff, RcvXon, RcvKill
    <3>5. CASE PutcI
      BY <3>1, <3>5 DEF PutcI, PutFifo
    <3>6. QED
      BY <2>3, <3>2, <3>3, <3>4, <3>5 DEF Next
  <2>4. QED
    BY <1>1, <2>2, <2>3
<1>2. QED
  BY <1>1, Invariance, PTL DEF Spec, NoOverrun

(* Where no interrupt routine writes to a channel that processes write to, *)
(* every character put is given to the UART once, in its order, and the    *)
(* output FIFO never overflows (tty-putc, tty-transint, tty-rcvint).       *)
THEOREM TtyOutputInOrder ==
  ASSUME Separate
  PROVE  Spec => []OutputInOrder
<1>1. Init => IInv /\ OutPart
  BY InitHolds
<1>2. IInv /\ OutPart /\ [Next]_vars => (IInv /\ OutPart)'
  BY StepKeeps
<1>3. OutPart => OutputInOrder
  BY DEF OutPart, OutHolds, Holds, OutputInOrder
<1>4. QED
  BY <1>1, <1>2, <1>3, PTL DEF Spec
=============================================================================
