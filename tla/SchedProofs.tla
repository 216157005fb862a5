----------------------------- MODULE SchedProofs -----------------------------
(***************************************************************************)
(* Proofs about module Sched, for every set of processes and semaphores:   *)
(* the type invariant, the accounting of semaphores, the rule that the     *)
(* running process is the highest one that can run, the safety of every    *)
(* search of the list, and the order of preemptions and of wakeups.        *)
(***************************************************************************)
EXTENDS Sched, KernelProofs

-----------------------------------------------------------------------------
(* The inductive invariant.  The two parts need each other: a signal that  *)
(* finds no waiter takes one from what is owed, which stays a natural      *)
(* number only because the accounts balance.                               *)
IInv == TypeOK /\ Accounting

(* TypeOK, with its part about the kernel record named. *)
LEMMA TypeOKParts ==
  TypeOK <=> /\ KernelOK(k)
             /\ orphaned \in [Sem -> Nat]
             /\ inserted \subseteq Proc /\ overtaken \subseteq Proc
             /\ wild \in BOOLEAN
  BY DEF TypeOK, KernelOK, Distinct

(* The boot code leaves the default process above the null process. *)
LEMMA InitInvariant == Init => IInv
<1> SUFFICES ASSUME Init PROVE IInv
  OBVIOUS
<1>1. /\ k.list = <<DefProc, NullProc>> /\ k.cproc = DefProc
      /\ k.pstate = [p \in Proc |-> Runnable] /\ k.count \in [Sem -> 0..MaxCount]
      /\ k = [list |-> k.list, cproc |-> k.cproc, pstate |-> k.pstate, count |-> k.count]
      /\ orphaned = [s \in Sem |-> 0]
      /\ inserted = {} /\ overtaken = {} /\ wild = FALSE
  BY DEF Init
<1>2. k.list \in Seq(Proc) /\ k.count \in [Sem -> Int]
  BY <1>1, DefAssumption, NullAssumption, BoundsAssumption
<1>3. k \in KernelType
  <2>1. k.cproc \in Proc /\ k.pstate \in [Proc -> Sem \cup {Runnable}]
    BY <1>1, DefAssumption
  <2>2. QED
    BY <1>1, <1>2, <2>1 DEF KernelType
<1>4. KernelOK(k)
  BY <1>1, <1>3, DefAssumption, NullAssumption DEF KernelOK, Distinct
<1>5. Accounting
  <2> SUFFICES ASSUME NEW s \in Sem
               PROVE  Cardinality(Waiters(k, s)) + orphaned[s] =
                        IF k.count[s] < 0 THEN -k.count[s] ELSE 0
    BY DEF Accounting
  <2>1. Waiters(k, s) = {}
    BY <1>1, <1>2, SemAssumption DEF Waiters, Listed
  <2>2. Cardinality(Waiters(k, s)) = 0
    BY <2>1, FS_EmptySet
  <2>3. k.count[s] \in 0..MaxCount
    BY <1>1
  <2>4. QED
    BY <1>1, <2>2, <2>3, BoundsAssumption
<1>6. QED
  BY <1>1, <1>4, <1>5, TypeOKParts DEF IInv

(* Every step keeps the invariant: one case per action. *)
LEMMA StepInvariant == IInv /\ [Next]_vars => IInv'
<1> SUFFICES ASSUME IInv, [Next]_vars PROVE IInv'
  OBVIOUS
<1>1. /\ KernelOK(k) /\ orphaned \in [Sem -> Nat]
      /\ inserted \subseteq Proc /\ overtaken \subseteq Proc
      /\ wild \in BOOLEAN /\ AccountingOf(k, orphaned)
  BY TypeOKParts DEF IInv, Accounting, AccountingOf
<1>2. Listed(k) \subseteq Proc /\ k.list \in Seq(Proc) /\ Len(k.list) >= 1
  BY <1>1 DEF KernelOK, KernelType, Listed
<1> DEFINE Goal == /\ KernelOK(k)' /\ (orphaned \in [Sem -> Nat])'
                   /\ AccountingOf(k', orphaned')
                   /\ (inserted \subseteq Proc)' /\ (overtaken \subseteq Proc)'
                   /\ (wild \in BOOLEAN)'
<1>3. SUFFICES Goal
  <2>1. Goal => TypeOK'
    BY DEF TypeOK, KernelOK, Distinct
  <2>2. Goal => Accounting'
    BY DEF Accounting, AccountingOf
  <2>3. QED
    BY <2>1, <2>2 DEF IInv
<1>4. ASSUME NEW p \in Proc, NEW s \in Sem, WaitStep(p, s) PROVE Goal
  <2>1. k' = Wait(k, s) /\ k.cproc \in Listed(k) /\ k.cproc # NullProc
    BY <1>4 DEF WaitStep, Running
  <2>2. KernelOK(k') /\ AccountingOf(k', orphaned)
    BY <1>1, <2>1, WaitEffect, WaitAccounting
  <2>3. QED
    BY <1>1, <1>4, <2>2 DEF WaitStep, Switched
<1>5. ASSUME NEW p \in Proc, NEW s \in Sem, SignalStep(p, s) PROVE Goal
  <2>1. /\ k' = Signal(k, s)
        /\ orphaned' = [orphaned EXCEPT ![s] =
             IF k.count[s] < 0 /\ Waiters(k, s) = {} THEN @ - 1 ELSE @]
    BY <1>5 DEF SignalStep
  <2>2. KernelOK(k') /\ orphaned' \in [Sem -> Nat] /\ AccountingOf(k', orphaned')
    BY <1>1, <2>1, SignalEffect, SignalAccounting
  <2>3. QED
    BY <1>1, <1>5, <2>2 DEF SignalStep, Switched
<1>6. ASSUME NEW self \in Proc, NEW n \in 0..Len(k.list) - 1, NEW p \in Proc,
             NextProcess(self, n, p)
      PROVE  Goal
  <2>1. k' = Insert(k, n, p) /\ p \in Proc \ Listed(k)
    BY <1>6 DEF NextProcess
  <2>2. KernelOK(k') /\ AccountingOf(k', orphaned)
    BY <1>1, <2>1, InsertEffect, InsertAccounting
  <2>3. QED
    BY <1>1, <1>6, <2>2 DEF NextProcess
<1>7. ASSUME NEW self \in Proc, NEW p \in Proc, Run(self, p) PROVE Goal
  <2> DEFINE n == Pos(k, self)
  <2>1. /\ k' = Insert(k, n, p) /\ p \in Proc \ Listed(k)
        /\ self \in Listed(k) /\ self # NullProc
        /\ UNCHANGED history
    BY <1>7 DEF Run, Running
  <2>2. n \in DOMAIN k.list /\ k.list[n] = self
    BY <1>2, <2>1, PosProperties
  <2>3. n \in 0..Len(k.list) - 1
    BY <1>1, <1>2, <2>1, <2>2 DEF KernelOK
  <2>4. KernelOK(k') /\ AccountingOf(k', orphaned)
    BY <1>1, <2>1, <2>3, InsertEffect, InsertAccounting
  <2>5. QED
    BY <1>1, <2>1, <2>4 DEF history
<1>8. ASSUME NEW self \in Proc, NEW p \in Proc, Kill(self, p) PROVE Goal
  <2>1. /\ k' = Remove(k, p) /\ p \in Listed(k) /\ p # NullProc
        /\ orphaned' = IF k.pstate[p] = Runnable THEN orphaned
                       ELSE [orphaned EXCEPT ![k.pstate[p]] = @ + 1]
    BY <1>8 DEF Kill
  <2>2. KernelOK(k') /\ orphaned' \in [Sem -> Nat] /\ AccountingOf(k', orphaned')
    BY <1>1, <2>1, RemoveEffect, RemoveAccounting
  <2>3. QED
    BY <1>1, <1>8, <2>2 DEF Kill
<1>9. ASSUME NEW self \in Proc, Terminate(self) PROVE Goal
  <2>1. /\ k' = Remove(k, self) /\ self \in Listed(k) /\ self # NullProc
        /\ k.pstate[self] = Runnable /\ UNCHANGED history
    BY <1>1, <1>9 DEF Terminate, Running, KernelOK
  <2>2. KernelOK(k') /\ AccountingOf(k', orphaned)
    BY <1>1, <2>1, RemoveEffect, RemoveAccounting
  <2>3. QED
    BY <1>1, <2>1, <2>2 DEF history
<1>10. ASSUME ReschedStep PROVE Goal
  <2>1. /\ KernelOK(k') /\ k'.list = k.list /\ k'.pstate = k.pstate
        /\ k'.count = k.count
    BY <1>1, <1>10, ReschedEffect DEF ReschedStep
  <2>2. AccountingOf(k', orphaned)
    BY <1>1, <2>1 DEF AccountingOf, Waiters, Listed
  <2>3. QED
    BY <1>1, <1>10, <2>1, <2>2 DEF ReschedStep
<1>11. ASSUME NEW s \in Sem, InterruptSignal(s) PROVE Goal
  <2>1. /\ k' = Signal(k, s)
        /\ orphaned' = [orphaned EXCEPT ![s] =
             IF k.count[s] < 0 /\ Waiters(k, s) = {} THEN @ - 1 ELSE @]
    BY <1>11 DEF InterruptSignal
  <2>2. KernelOK(k') /\ orphaned' \in [Sem -> Nat] /\ AccountingOf(k', orphaned')
    BY <1>1, <2>1, SignalEffect, SignalAccounting
  <2>3. (inserted \subseteq Proc)' /\ (overtaken \subseteq Proc)' /\ (wild \in BOOLEAN)'
    BY <1>1, <1>11 DEF InterruptSignal, Switched, RunnableProcs
  <2>4. QED
    BY <2>2, <2>3
<1>12. ASSUME NEW s \in Sem, InterruptWild(s) PROVE Goal
  BY <1>1, <1>12 DEF InterruptWild
<1>13. CASE UNCHANGED vars
  BY <1>1, <1>13 DEF vars, history
<1>14. CASE Next
  BY <1>4, <1>5, <1>6, <1>7, <1>8, <1>9, <1>10, <1>11, <1>12, <1>14 DEF Next
<1>15. QED
  BY <1>13, <1>14

(* The scheduler's data stay well formed: in particular the list never     *)
(* holds a process twice, the null process always ends it and is runnable, *)
(* so that every search for a runnable process ends.                       *)
THEOREM SchedTypeOK == Spec => []TypeOK
<1>1. IInv => TypeOK
  BY DEF IInv
<1>2. QED
  BY InitInvariant, StepInvariant, <1>1, PTL DEF Spec

(* No signal is lost and no process waits on a semaphore that is not       *)
(* negative, in every interleaving of processes and interrupts, for any    *)
(* number of processes and semaphores (wait and signal, sched.fr:106-152). *)
THEOREM SchedAccounting == Spec => []Accounting
<1>1. IInv => Accounting
  BY DEF IInv
<1>2. QED
  BY InitInvariant, StepInvariant, <1>1, PTL DEF Spec
-----------------------------------------------------------------------------
(* Priorities. *)

\* The claim of HighestRuns about a record kk with exceptions S.
Highest(kk, S) ==
  \A p \in Proc : Above(kk, p, kk.cproc) /\ kk.pstate[p] = Runnable => p \in S

(* Every step keeps HighestRuns.  The exceptions only grow in nextprocess, *)
(* and in a signal that comes between the two halves of a terminate.       *)
LEMMA StepPriority == IInv /\ HighestRuns /\ [Next]_vars => HighestRuns'
<1> SUFFICES ASSUME IInv, HighestRuns, [Next]_vars PROVE HighestRuns'
  OBVIOUS
<1>1. KernelOK(k) /\ Highest(k, inserted \cup overtaken)
  BY TypeOKParts DEF IInv, HighestRuns, Highest
<1>2. /\ Listed(k) \subseteq Proc /\ k.list \in Seq(Proc) /\ Len(k.list) >= 1
      /\ k.pstate \in [Proc -> Sem \cup {Runnable}] /\ k.cproc \in Proc
      /\ k.pstate[k.cproc] = Runnable
  BY <1>1 DEF KernelOK, KernelType, Listed
<1> DEFINE Goal == Highest(k', inserted' \cup overtaken')
<1>3. SUFFICES Goal
  BY DEF HighestRuns, Highest
<1>4. ASSUME NEW p \in Proc, NEW s \in Sem, WaitStep(p, s) PROVE Goal
  <2>1. /\ k' = Wait(k, s) /\ k.cproc \in Listed(k) /\ k.cproc # NullProc
        /\ inserted' \cup overtaken' = (inserted \cup overtaken) \ {k'.cproc}
    BY <1>4 DEF WaitStep, Running, Switched
  <2>2. QED
    BY <1>1, <2>1, WaitPriority DEF Highest
<1>5. ASSUME NEW p \in Proc, NEW s \in Sem, SignalStep(p, s) PROVE Goal
  <2>1. /\ k' = Signal(k, s) /\ k.cproc \in Listed(k)
        /\ inserted' \cup overtaken' = (inserted \cup overtaken) \ {k'.cproc}
    BY <1>5 DEF SignalStep, Running, Switched
  <2>2. QED
    BY <1>1, <2>1, SignalPriority DEF Highest
<1>6. ASSUME NEW self \in Proc, NEW n \in 0..Len(k.list) - 1, NEW p \in Proc,
             NextProcess(self, n, p)
      PROVE  Goal
  <2>1. /\ k' = Insert(k, n, p) /\ p \in Proc \ Listed(k) /\ k.cproc \in Listed(k)
        /\ inserted' = IF n < Pos(k, k.cproc) THEN inserted \cup {p} ELSE inserted
        /\ overtaken' = overtaken
    BY <1>6 DEF NextProcess, Running
  <2>2. /\ k'.pstate = [k.pstate EXCEPT ![p] = Runnable] /\ k'.cproc = k.cproc
        /\ \A x, y \in Proc : Above(k', x, y) /\ x # p /\ y # p => Above(k, x, y)
        /\ \A y \in Listed(k) : Above(k', p, y) => n < Pos(k, y)
    BY <1>1, <2>1, InsertEffect
  <2>3. ASSUME NEW x \in Proc, Above(k', x, k.cproc), k'.pstate[x] = Runnable
        PROVE  x \in inserted' \cup overtaken'
    <3>1. CASE x = p
      BY <2>1, <2>2, <2>3, <3>1
    <3>2. CASE x # p
      <4>1. Above(k, x, k.cproc) /\ k.pstate[x] = Runnable
        BY <1>2, <2>1, <2>2, <2>3, <3>2
      <4>2. QED
        BY <1>1, <2>1, <4>1 DEF Highest
    <3>3. QED
      BY <3>1, <3>2
  <2>4. QED
    BY <2>2, <2>3 DEF Highest
<1>7. ASSUME NEW self \in Proc, NEW p \in Proc, Run(self, p) PROVE Goal
  <2> DEFINE n == Pos(k, self)
  <2>1. /\ k' = Insert(k, n, p) /\ p \in Proc \ Listed(k)
        /\ self = k.cproc /\ self \in Listed(k) /\ self # NullProc
        /\ inserted' = inserted /\ overtaken' = overtaken
    BY <1>7 DEF Run, Running, history
  <2>2. n \in DOMAIN k.list /\ k.list[n] = self
    BY <1>2, <2>1, PosProperties
  <2>3. n \in 0..Len(k.list) - 1
    BY <1>1, <1>2, <2>1, <2>2 DEF KernelOK
  <2>4. /\ k'.pstate = [k.pstate EXCEPT ![p] = Runnable] /\ k'.cproc = k.cproc
        /\ \A x, y \in Proc : Above(k', x, y) /\ x # p /\ y # p => Above(k, x, y)
        /\ \A y \in Listed(k) : Above(k', p, y) => n < Pos(k, y)
    BY <1>1, <2>1, <2>3, InsertEffect
  <2>5. ASSUME NEW x \in Proc, Above(k', x, k.cproc), k'.pstate[x] = Runnable
        PROVE  x \in inserted' \cup overtaken'
    <3>1. x # p
      BY <2>1, <2>3, <2>4, <2>5
    <3>2. Above(k, x, k.cproc) /\ k.pstate[x] = Runnable
      BY <1>2, <2>1, <2>4, <2>5, <3>1
    <3>3. QED
      BY <1>1, <2>1, <3>2 DEF Highest
  <2>6. QED
    BY <2>4, <2>5 DEF Highest
<1>8. ASSUME NEW self \in Proc, NEW p \in Proc, Kill(self, p) PROVE Goal
  <2>1. /\ k' = Remove(k, p) /\ p \in Listed(k) /\ p # NullProc
        /\ inserted' \cup overtaken' = (inserted \cup overtaken) \ {p}
    BY <1>8 DEF Kill
  <2>2. /\ KernelOK(k') /\ Listed(k') = Listed(k) \ {p}
        /\ k'.pstate = k.pstate /\ k'.cproc = k.cproc
        /\ \A x, y \in Proc : Above(k', x, y) => Above(k, x, y)
    BY <1>1, <2>1, RemoveEffect
  <2>3. ASSUME NEW x \in Proc, Above(k', x, k.cproc) PROVE x # p
    BY <1>2, <2>2, <2>3, AboveOrder
  <2>4. QED
    BY <1>1, <1>2, <2>1, <2>2, <2>3 DEF Highest
<1>9. ASSUME NEW self \in Proc, Terminate(self) PROVE Goal
  <2>1. /\ k' = Remove(k, self) /\ self \in Listed(k) /\ self # NullProc
        /\ inserted' = inserted /\ overtaken' = overtaken
    BY <1>9 DEF Terminate, Running, history
  <2>2. /\ k'.pstate = k.pstate /\ k'.cproc = k.cproc
        /\ \A x, y \in Proc : Above(k', x, y) => Above(k, x, y)
    BY <1>1, <2>1, RemoveEffect
  <2>3. QED
    BY <1>1, <1>2, <2>1, <2>2 DEF Highest
<1>10. ASSUME ReschedStep PROVE Goal
  <2>1. KernelOK(k') /\ k'.list = k.list /\ k'.pstate = k.pstate
    BY <1>1, <1>10, ReschedEffect DEF ReschedStep
  <2>2. PICK f \in DOMAIN k.list :
             /\ k'.cproc = k.list[f]
             /\ \A j \in DOMAIN k.list : j < f => k.pstate[k.list[j]] # Runnable
    BY <1>1, <1>10, ReschedEffect DEF ReschedStep
  <2>3. ASSUME NEW x \in Proc, Above(k', x, k'.cproc) PROVE k'.pstate[x] # Runnable
    <3>1. PICK i, g \in DOMAIN k.list : i < g /\ k.list[i] = x /\ k.list[g] = k'.cproc
      BY <2>1, <2>3 DEF Above
    <3>2. g = f
      BY <1>1, <2>2, <3>1 DEF KernelOK, Distinct
    <3>3. QED
      BY <2>1, <2>2, <3>1, <3>2
  <2>4. QED
    BY <2>3 DEF Highest
<1>11. ASSUME NEW s \in Sem, InterruptSignal(s) PROVE Goal
  <2>1. k' = Signal(k, s)
    BY <1>11 DEF InterruptSignal
  <2>2. CASE k.cproc \in Listed(k)
    <3>1. inserted' \cup overtaken' = (inserted \cup overtaken) \ {k'.cproc}
      BY <1>11, <2>2 DEF InterruptSignal, Switched
    <3>2. QED
      BY <1>1, <2>1, <2>2, <3>1, SignalPriority DEF Highest
  <2>3. CASE k.cproc \notin Listed(k)
    <3>1. overtaken' = (overtaken \cup {p \in RunnableProcs(k') :
                                         Above(k', p, k'.cproc)}) \ {k'.cproc}
      BY <1>11, <2>3 DEF InterruptSignal, Switched
    <3>2. KernelOK(k')
      BY <1>1, <2>1, SignalEffect
    <3>3. \A x \in Proc : Above(k', x, k'.cproc) => x # k'.cproc
      BY <3>2, AboveOrder DEF KernelOK, KernelType
    <3>4. QED
      BY <3>1, <3>3 DEF Highest, RunnableProcs
  <2>4. QED
    BY <2>2, <2>3
<1>12. ASSUME NEW s \in Sem, InterruptWild(s) PROVE Goal
  BY <1>1, <1>12 DEF InterruptWild
<1>13. CASE UNCHANGED vars
  BY <1>1, <1>13 DEF vars, history
<1>14. CASE Next
  BY <1>4, <1>5, <1>6, <1>7, <1>8, <1>9, <1>10, <1>11, <1>12, <1>14 DEF Next
<1>15. QED
  BY <1>13, <1>14

(* At boot only the null process is below the running one. *)
LEMMA InitPriority == Init => HighestRuns
<1> SUFFICES ASSUME Init, NEW p \in Proc, Above(k, p, k.cproc) PROVE FALSE
  BY DEF HighestRuns
<1>1. k.list = <<DefProc, NullProc>> /\ k.cproc = DefProc
  BY DEF Init
<1>2. QED
  BY <1>1, DefAssumption DEF Above

(* The processor always goes to the highest process that can run, apart    *)
(* from those that nextprocess put above the running one without a resched *)
(* and those overtaken in the middle of a terminate: the assumption under  *)
(* which wait searches only below the running process (sched.fr:115-118).  *)
THEOREM SchedHighestRuns == Spec => []HighestRuns
<1>1. Init => IInv /\ HighestRuns
  BY InitInvariant, InitPriority
<1>2. IInv /\ HighestRuns /\ [Next]_vars => (IInv /\ HighestRuns)'
  BY StepInvariant, StepPriority
<1>3. QED
  BY <1>1, <1>2, PTL DEF Spec
-----------------------------------------------------------------------------
(* The searches of the list. *)

(* A search runs off the end of the list only in the signal of a semaphore *)
(* that owes a signal to a killed waiter: by the accounts, a negative      *)
(* semaphore that nobody in the list waits for can be nothing else.        *)
LEMMA StepWild == IInv /\ NoWildSearch /\ [Next]_vars => NoWildSearch'
<1> SUFFICES ASSUME IInv, NoWildSearch, [Next]_vars PROVE NoWildSearch'
  OBVIOUS
<1>1. /\ KernelOK(k) /\ orphaned \in [Sem -> Nat] /\ Accounting
      /\ wild \in BOOLEAN
  BY TypeOKParts DEF IInv
<1>2. CASE wild' = wild
  <2>1. CASE wild
    <3>1. UNCHANGED orphaned
      BY <2>1 DEF Next, WaitStep, SignalStep, NextProcess, Run, Kill, Terminate,
                  ReschedStep, InterruptSignal, InterruptWild, Running, vars, history
    <3>2. QED
      BY <1>2, <3>1 DEF NoWildSearch
  <2>2. CASE ~wild
    BY <1>2, <2>2 DEF NoWildSearch
  <2>3. QED
    BY <2>1, <2>2
<1>3. ASSUME NEW s \in Sem, InterruptWild(s)
      PROVE  NoWildSearch'
  <2>1. k.count[s] < 0 /\ Waiters(k, s) = {} /\ orphaned' = orphaned
    BY <1>1, <1>3 DEF InterruptWild, SearchEnds, KernelOK, KernelType
  <2>2. Cardinality(Waiters(k, s)) = 0
    BY <2>1, FS_EmptySet
  <2>3. orphaned'[s] > 0
    <3>1. Cardinality(Waiters(k, s)) + orphaned[s] =
            IF k.count[s] < 0 THEN -k.count[s] ELSE 0
      BY <1>1, Zenon DEF Accounting
    <3>2. k.count[s] \in Int /\ orphaned[s] \in Nat
      BY <1>1 DEF KernelOK, KernelType
    <3>3. QED
      BY <2>1, <2>2, <3>1, <3>2
  <2>4. QED
    BY <2>3 DEF NoWildSearch
<1>4. wild' = wild \/ \E s \in Sem : InterruptWild(s)
  BY DEF Next, WaitStep, SignalStep, NextProcess, Run, Kill, Terminate,
         ReschedStep, InterruptSignal, vars, history
<1>5. QED
  BY <1>2, <1>3, <1>4

(* However processes terminate and whatever interrupts signal meanwhile,   *)
(* no search runs off the end of the list unless a waiter was killed and   *)
(* its signal is still owed (signal, sched.fr:140-148).                    *)
THEOREM SchedNoWildSearch == Spec => []NoWildSearch
<1>1. Init => NoWildSearch
  BY DEF Init, NoWildSearch
<1>2. QED
  BY <1>1, InitInvariant, StepInvariant, StepWild, PTL DEF Spec
-----------------------------------------------------------------------------
(* Preemption and wakeups. *)

\* The claim of PreemptUpwards about a step.
Upwards ==
  k'.cproc # k.cproc /\ k.cproc \in Listed(k) /\ k'.pstate[k.cproc] = Runnable
    => Above(k', k'.cproc, k.cproc)

(* A signal that switches does so to a process above the running one. *)
LEMMA SignalUpwards ==
  ASSUME KernelOK(k), NEW s \in Sem, k' = Signal(k, s)
  PROVE  Upwards
<1> SUFFICES ASSUME k'.cproc # k.cproc, k.cproc \in Listed(k)
             PROVE  Above(k', k'.cproc, k.cproc)
  BY DEF Upwards
<1>1. /\ k'.list = k.list
      /\ \/ k'.cproc = k.cproc
         \/ \E w \in Waiters(k, s) : Wakes(k, k', w)
  BY SignalEffect
<1>2. PICK w \in Waiters(k, s) : Wakes(k, k', w)
  BY <1>1
<1>3. k'.cproc = w /\ ~Above(k, k.cproc, w) /\ w \in Listed(k)
  BY <1>2 DEF Wakes, Waiters
<1>4. Above(k, w, k.cproc)
  BY <1>3, AboveOrder
<1>5. QED
  BY <1>1, <1>3, <1>4 DEF Above

(* Each step that changes the running process takes it from one that       *)
(* waits or has left the list, or gives it to a process above.             *)
LEMMA StepUpwards == IInv /\ [Next]_vars => Upwards
<1> SUFFICES ASSUME IInv, [Next]_vars PROVE Upwards
  OBVIOUS
<1>1. /\ KernelOK(k)
      /\ Listed(k) \subseteq Proc /\ k.list \in Seq(Proc)
      /\ k.pstate \in [Proc -> Sem \cup {Runnable}] /\ k.cproc \in Proc
      /\ k.pstate[k.cproc] = Runnable
  BY TypeOKParts DEF IInv, KernelOK, KernelType, Listed
<1>2. ASSUME NEW p \in Proc, NEW s \in Sem, WaitStep(p, s) PROVE Upwards
  <2>1. \/ k'.cproc = k.cproc
        \/ k'.pstate = [k.pstate EXCEPT ![k.cproc] = s]
    BY <1>1, <1>2, WaitEffect DEF WaitStep, Running
  <2>2. QED
    BY <1>1, <2>1, SemAssumption DEF Upwards
<1>3. ASSUME NEW p \in Proc, NEW s \in Sem, SignalStep(p, s) PROVE Upwards
  BY <1>1, <1>3, SignalUpwards DEF SignalStep
<1>4. ASSUME NEW self \in Proc, NEW p \in Proc, NEW n,
             NextProcess(self, n, p) \/ Run(self, p) \/ Kill(self, p) \/ Terminate(self)
      PROVE  Upwards
  <2>1. k'.cproc = k.cproc
    BY <1>1, <1>4 DEF NextProcess, Run, Kill, Terminate, Insert, Remove, KernelOK, KernelType
  <2>2. QED
    BY <2>1 DEF Upwards
<1>5. ASSUME ReschedStep PROVE Upwards
  <2> SUFFICES ASSUME k'.cproc # k.cproc, k.cproc \in Listed(k)
               PROVE  Above(k', k'.cproc, k.cproc)
    BY DEF Upwards
  <2>1. k'.list = k.list
    BY <1>1, <1>5, ReschedEffect DEF ReschedStep
  <2>2. PICK f \in DOMAIN k.list :
             /\ k'.cproc = k.list[f]
             /\ \A j \in DOMAIN k.list : j < f => k.pstate[k.list[j]] # Runnable
    BY <1>1, <1>5, ReschedEffect DEF ReschedStep
  <2>3. PICK q \in DOMAIN k.list : k.list[q] = k.cproc
    BY DEF Listed
  <2>4. ~(q < f) /\ q # f
    BY <1>1, <2>2, <2>3
  <2>5. f < q
    BY <1>1, <2>2, <2>3, <2>4
  <2>6. QED
    BY <2>1, <2>2, <2>3, <2>5 DEF Above
<1>6. ASSUME NEW s \in Sem, InterruptSignal(s) PROVE Upwards
  BY <1>1, <1>6, SignalUpwards DEF InterruptSignal
<1>7. CASE (\E s \in Sem : InterruptWild(s)) \/ UNCHANGED vars
  BY <1>7 DEF InterruptWild, vars, Upwards
<1>8. CASE Next
  BY <1>2, <1>3, <1>4, <1>5, <1>6, <1>7, <1>8 DEF Next
<1>9. QED
  BY <1>7, <1>8

(* A listed process that can still run loses the processor only to one     *)
(* above it, for any list and any interrupts (signal, sched.fr:133-150).   *)
THEOREM SchedPreemptUpwards == Spec => PreemptUpwards
<1>1. IInv /\ [Next]_vars =>
        [k'.cproc # k.cproc /\ k.cproc \in Listed(k) /\ k'.pstate[k.cproc] = Runnable
           => Above(k', k'.cproc, k.cproc)]_vars
  BY StepUpwards DEF Upwards
<1>2. QED
  BY <1>1, InitInvariant, StepInvariant, PTL DEF Spec, PreemptUpwards

\* The claim of WakeInOrder about a step and one process.
Ordered(p, s) ==
  k.pstate[p] = s /\ p \in Listed(k') /\ k'.pstate[p] = Runnable =>
    /\ k'.count[s] = k.count[s] + 1
    /\ \A q \in Waiters(k, s) \ {p} : Above(k, p, q) /\ q \in Waiters(k', s)

(* A signal wakes the highest waiter of its own semaphore and no other. *)
LEMMA SignalOrdered ==
  ASSUME KernelOK(k), NEW t \in Sem, k' = Signal(k, t), NEW p \in Listed(k), NEW s \in Sem
  PROVE  Ordered(p, s)
<1> SUFFICES ASSUME k.pstate[p] = s, k'.pstate[p] = Runnable
             PROVE  /\ k'.count[s] = k.count[s] + 1
                    /\ \A q \in Waiters(k, s) \ {p} : Above(k, p, q) /\ q \in Waiters(k', s)
  BY DEF Ordered
<1>1. /\ k.list \in Seq(Proc) /\ k.pstate \in [Proc -> Sem \cup {Runnable}]
      /\ k.count \in [Sem -> Int] /\ Runnable \notin Sem /\ p \in Proc
  BY SemAssumption DEF KernelOK, KernelType, Listed
<1>2. /\ k'.list = k.list /\ k'.count = [k.count EXCEPT ![t] = @ + 1]
      /\ \/ k'.pstate = k.pstate
         \/ \E w \in Waiters(k, t) : Wakes(k, k', w)
  BY SignalEffect
<1>3. PICK w \in Waiters(k, t) : Wakes(k, k', w)
  BY <1>1, <1>2
<1>4. w = p /\ k.pstate[w] = t
  BY <1>1, <1>3 DEF Wakes, Waiters
<1>5. s = t /\ p \in Waiters(k, s)
  BY <1>3, <1>4
<1>6. \A q \in Waiters(k, s) \ {p} : Above(k, p, q) /\ k'.pstate[q] = s
  BY <1>5, SignalInOrder
<1>7. \A q \in Waiters(k, s) : q \in Listed(k') /\ q \in Proc
  BY <1>1, <1>2 DEF Waiters, Listed
<1>8. QED
  BY <1>1, <1>2, <1>5, <1>6, <1>7 DEF Waiters

(* No other step makes a waiter of the list runnable. *)
LEMMA StepOrdered ==
  ASSUME IInv, [Next]_vars, NEW p \in Listed(k), NEW s \in Sem
  PROVE  Ordered(p, s)
<1>1. /\ KernelOK(k)
      /\ Listed(k) \subseteq Proc /\ k.list \in Seq(Proc) /\ Len(k.list) >= 1
      /\ k.pstate \in [Proc -> Sem \cup {Runnable}] /\ k.cproc \in Proc
      /\ k.pstate[k.cproc] = Runnable /\ Runnable \notin Sem
  BY TypeOKParts, SemAssumption DEF IInv, KernelOK, KernelType, Listed
<1>2. ASSUME NEW self \in Proc, NEW t \in Sem, WaitStep(self, t) PROVE Ordered(p, s)
  <2>1. \/ k'.pstate = k.pstate
        \/ k'.pstate = [k.pstate EXCEPT ![k.cproc] = t]
    BY <1>1, <1>2, WaitEffect DEF WaitStep, Running
  <2>2. QED
    BY <1>1, <2>1 DEF Ordered
<1>3. ASSUME NEW self \in Proc, NEW t \in Sem, SignalStep(self, t) PROVE Ordered(p, s)
  BY <1>1, <1>3, SignalOrdered DEF SignalStep
<1>4. ASSUME NEW self \in Proc, NEW q \in Proc, NEW n,
             NextProcess(self, n, q) \/ Run(self, q)
      PROVE  Ordered(p, s)
  <2>1. q \notin Listed(k) /\ k'.pstate = [k.pstate EXCEPT ![q] = Runnable]
    BY <1>1, <1>4 DEF NextProcess, Run, Insert, KernelOK, KernelType
  <2>2. QED
    BY <1>1, <2>1 DEF Ordered
<1>5. ASSUME NEW self \in Proc, NEW q \in Proc, Kill(self, q) \/ Terminate(self)
      PROVE  Ordered(p, s)
  <2>1. k'.pstate = k.pstate
    BY <1>1, <1>5 DEF Kill, Terminate, Remove, KernelOK, KernelType
  <2>2. QED
    BY <1>1, <2>1 DEF Ordered
<1>6. ASSUME ReschedStep PROVE Ordered(p, s)
  <2>1. k'.pstate = k.pstate
    BY <1>1, <1>6, ReschedEffect DEF ReschedStep
  <2>2. QED
    BY <1>1, <2>1 DEF Ordered
<1>7. ASSUME NEW t \in Sem, InterruptSignal(t) PROVE Ordered(p, s)
  BY <1>1, <1>7, SignalOrdered DEF InterruptSignal
<1>8. CASE (\E t \in Sem : InterruptWild(t)) \/ UNCHANGED vars
  BY <1>1, <1>8 DEF InterruptWild, vars, Ordered
<1>9. CASE Next
  BY <1>2, <1>3, <1>4, <1>5, <1>6, <1>7, <1>8, <1>9 DEF Next
<1>10. QED
  BY <1>8, <1>9

(* Wakeups are in priority order and one per signal, in every interleaving *)
(* of processes and interrupts (signal, sched.fr:122-152).                 *)
THEOREM SchedWakeInOrder == Spec => WakeInOrder
<1>1. IInv /\ [Next]_vars =>
        [\A p \in Listed(k) : \A s \in Sem :
           k.pstate[p] = s /\ p \in Listed(k') /\ k'.pstate[p] = Runnable =>
             /\ k'.count[s] = k.count[s] + 1
             /\ \A q \in Waiters(k, s) \ {p} : Above(k, p, q) /\ q \in Waiters(k', s)]_vars
  BY StepOrdered DEF Ordered
<1>2. QED
  BY <1>1, InitInvariant, StepInvariant, PTL DEF Spec, WakeInOrder
=============================================================================
