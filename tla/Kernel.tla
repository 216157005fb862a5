------------------------------- MODULE Kernel -------------------------------
(***************************************************************************)
(* The multitasking primitives of the SCIP port (chips/scip/sched.fr) and  *)
(* the process list they search (chips/procprim.fr), as operators on one   *)
(* record, so that every component that waits and signals is composed with *)
(* the scheduler the code really has: a strict priority list, a running    *)
(* process that is only replaced inside wait, signal and resched, and      *)
(* interrupt routines that signal in the context of whatever process they  *)
(* interrupted.                                                            *)
(*                                                                         *)
(* A kernel record k has                                                   *)
(*   k.list    the process list from head on, highest priority first       *)
(*   k.cproc   the running process                                         *)
(*   k.pstate  the .pstate cell of each descriptor: Runnable (0 in the     *)
(*             code) or the semaphore the process waits for                *)
(*   k.count   the value of each semaphore                                 *)
(* Each operator stands for a stretch of code that runs with interrupts    *)
(* disabled, so one operator is one atomic step.                           *)
(***************************************************************************)
EXTENDS Integers, Sequences, FiniteSets

CONSTANTS Proc,       \* process descriptors
          NullProc,   \* the null process, which does nothing
          Sem         \* semaphores (addresses of cells)

Runnable == "run"

ASSUME NullAssumption == NullProc \in Proc
ASSUME SemAssumption == Runnable \notin Sem
ASSUME FiniteAssumption == IsFiniteSet(Proc)

KernelType ==
  [list : Seq(Proc), cproc : Proc,
   pstate : [Proc -> Sem \cup {Runnable}], count : [Sem -> Int]]
-----------------------------------------------------------------------------
(* The list. *)

Listed(k) == {k.list[i] : i \in DOMAIN k.list}

\* Position of a listed process; a smaller position is a higher priority.
Pos(k, p) == CHOOSE i \in DOMAIN k.list : k.list[i] = p

Above(k, p, q) ==
  \E i, j \in DOMAIN k.list : i < j /\ k.list[i] = p /\ k.list[j] = q

\* The first position from "from" on whose process satisfies membership in S.
FirstFrom(k, from, S) ==
  CHOOSE i \in DOMAIN k.list :
    /\ i >= from /\ k.list[i] \in S
    /\ \A j \in DOMAIN k.list : from <= j /\ j < i => k.list[j] \notin S

RunnableProcs(k) == {p \in Proc : k.pstate[p] = Runnable}

\* The processes in the list that a signal of s can find.
Waiters(k, s) == {p \in Listed(k) : k.pstate[p] = s}

InsertAfter(l, n, p) == SubSeq(l, 1, n) \o <<p>> \o SubSeq(l, n + 1, Len(l))
Without(l, n) == SubSeq(l, 1, n - 1) \o SubSeq(l, n + 1, Len(l))
-----------------------------------------------------------------------------
\* Mutants of Wait: the process is not marked as waiting; the processor is
\* not switched.
WaitUnmarked(k, s) ==
  LET n == k.count[s] - 1
      i == FirstFrom(k, Pos(k, k.cproc) + 1, RunnableProcs(k))
  IN  [k EXCEPT !.count[s] = n, !.cproc = IF n >= 0 THEN @ ELSE k.list[i]]
WaitUnswitched(k, s) ==
  [k EXCEPT !.count[s] = @ - 1,
            !.pstate[k.cproc] = IF k.count[s] > 0 THEN @ ELSE s]

(* wait, by the running process.  The search for a successor starts after  *)
(* the running process: whatever is above it is taken to be waiting.       *)
Wait(k, s) ==
  LET n  == k.count[s] - 1
      k1 == [k EXCEPT !.count[s] = n, !.pstate[k.cproc] = s]
  IN  IF n >= 0
      THEN [k EXCEPT !.count[s] = n]
      ELSE [k1 EXCEPT !.cproc =
              k.list[FirstFrom(k1, Pos(k, k.cproc) + 1, RunnableProcs(k1))]]

\* Mutants of Signal: it always switches to the process it wakes; it wakes
\* the last waiter of the list.
SignalSwitches(k, s) ==
  LET k1 == [k EXCEPT !.count[s] = @ + 1]
      w  == k.list[FirstFrom(k, 1, Waiters(k, s))]
  IN  IF k.count[s] >= 0 \/ Waiters(k, s) = {} THEN k1
      ELSE [k1 EXCEPT !.pstate[w] = Runnable, !.cproc = w]
SignalLast(k, s) ==
  LET k1 == [k EXCEPT !.count[s] = @ + 1]
      w  == CHOOSE p \in Waiters(k, s) : \A q \in Waiters(k, s) : ~Above(k, p, q)
      k2 == [k1 EXCEPT !.pstate[w] = Runnable]
  IN  IF k.count[s] >= 0 \/ Waiters(k, s) = {} THEN k1
      ELSE IF Above(k, k.cproc, w) THEN k2 ELSE [k2 EXCEPT !.cproc = w]

(* signal, by the running process or by an interrupt routine that runs in  *)
(* its context.  The highest waiter is made runnable; the processor is     *)
(* switched to it at once when the search meets it before the running      *)
(* process.                                                                *)
Signal(k, s) ==
  LET k1 == [k EXCEPT !.count[s] = @ + 1]
      w  == k.list[FirstFrom(k, 1, Waiters(k, s))]
      k2 == [k1 EXCEPT !.pstate[w] = Runnable]
  IN  IF k.count[s] >= 0 \/ Waiters(k, s) = {}
      THEN k1
      ELSE IF Above(k, k.cproc, w) THEN k2 ELSE [k2 EXCEPT !.cproc = w]

\* The search of a signal meets a waiter, or the running process, before it
\* runs off the end of the list.
SearchEnds(k, s) ==
  k.count[s] >= 0 \/ Waiters(k, s) # {} \/ k.cproc \in Listed(k)

\* Mutant of Resched: the search starts after the running process.
ReschedBelow(k) ==
  [k EXCEPT !.cproc =
     k.list[FirstFrom(k, IF k.cproc \in Listed(k) THEN Pos(k, k.cproc) ELSE 1,
                      RunnableProcs(k))]]

(* resched: the first runnable process of the whole list. *)
Resched(k) ==
  [k EXCEPT !.cproc = k.list[FirstFrom(k, 1, RunnableProcs(k))]]

(* insertprocess and the head case of nextprocess: initprocess makes the   *)
(* descriptor runnable, then the list is relinked.  n is the position      *)
(* after which p goes, 0 for the head.                                     *)
Insert(k, n, p) ==
  [k EXCEPT !.pstate[p] = Runnable, !.list = InsertAfter(k.list, n, p)]

(* removeprocess: unlink p; its state and any semaphore keep their values. *)
Remove(k, p) == [k EXCEPT !.list = Without(k.list, Pos(k, p))]
=============================================================================
