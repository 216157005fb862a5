-------------------------------- MODULE Sched --------------------------------
(***************************************************************************)
(* The multitasker on its own: processes that wait, signal, start, kill    *)
(* and terminate in every order, and interrupt routines that signal at any *)
(* point.  The state is the kernel record of module Kernel plus history    *)
(* variables, which no guard reads except to bound the model.              *)
(***************************************************************************)
EXTENDS Kernel

CONSTANTS DefProc,      \* the default process, which runs at boot
          Restartable,  \* processes the application may start
          Killable,     \* processes that may be killed while they wait
          Suicidal,     \* processes that may call terminate
          MaxCount,     \* bound on semaphore values
          MaxOrphan     \* bound on waiters killed per semaphore

ASSUME DefAssumption == DefProc \in Proc /\ DefProc # NullProc
ASSUME SetsAssumption ==
  /\ Restartable \subseteq Proc \ {DefProc, NullProc}
  /\ Killable \subseteq Proc \ {NullProc}
  /\ Suicidal \subseteq Proc \ {NullProc}
ASSUME BoundsAssumption == MaxCount \in Nat /\ MaxOrphan \in Nat

VARIABLES k,            \* the kernel record: head, cproc, .pstate, semaphores
          orphaned,     \* history: signals still owed to killed waiters
          inserted,     \* history: put above the running process, no resched yet
          overtaken,    \* history: passed over by a signal inside a terminate
          wild          \* history: a search has run off the end of the list

history == <<orphaned, inserted, overtaken, wild>>
vars == <<k, history>>

\* The running process may execute code of its own.
Running(p) == ~wild /\ k.cproc = p /\ p # NullProc /\ p \in Listed(k)

\* The processor was given to k'.cproc, which nobody passes over any more.
Switched(more) ==
  /\ inserted' = inserted \ {k'.cproc}
  /\ overtaken' = (overtaken \cup more) \ {k'.cproc}

Init ==
  /\ k \in [list : {<<DefProc, NullProc>>}, cproc : {DefProc},
            pstate : {[p \in Proc |-> Runnable]}, count : [Sem -> 0..MaxCount]]
  /\ orphaned = [s \in Sem |-> 0]
  /\ inserted = {}
  /\ overtaken = {}
  /\ wild = FALSE
-----------------------------------------------------------------------------
(* Calls of the running process. *)

WaitStep(p, s) ==
  /\ Running(p)
  /\ k' = Wait(k, s)
  /\ Switched({})
  /\ UNCHANGED <<orphaned, wild>>

SignalStep(p, s) ==
  /\ Running(p)
  /\ k.count[s] < MaxCount
  /\ k' = Signal(k, s)
  /\ orphaned' = [orphaned EXCEPT ![s] =
                    IF k.count[s] < 0 /\ Waiters(k, s) = {} THEN @ - 1 ELSE @]
  /\ Switched({})
  /\ UNCHANGED wild

(* nextprocess p q, with q = 0 when n = 0: nothing is rescheduled, so a    *)
(* process put above the running one is passed over until a resched.       *)
NextProcess(self, n, p) ==
  /\ Running(self)
  /\ p \in Restartable \ Listed(k)
  /\ n \in 0..Len(k.list) - 1
  /\ k' = Insert(k, n, p)
  /\ inserted' = IF n < Pos(k, self) THEN inserted \cup {p} ELSE inserted
  /\ UNCHANGED <<orphaned, overtaken, wild>>

(* run: insert after the running process. *)
Run(self, p) ==
  /\ Running(self)
  /\ p \in Restartable \ Listed(k)
  /\ k' = Insert(k, Pos(k, self), p)
  /\ UNCHANGED history

(* kill of another process. *)
Kill(self, p) ==
  /\ Running(self)
  /\ p \in Listed(k) \ {self, NullProc}
  /\ k.pstate[p] # Runnable => /\ p \in Killable
                               /\ orphaned[k.pstate[p]] < MaxOrphan
  /\ k' = Remove(k, p)
  /\ orphaned' = IF k.pstate[p] = Runnable THEN orphaned
                 ELSE [orphaned EXCEPT ![k.pstate[p]] = @ + 1]
  /\ inserted' = inserted \ {p}
  /\ overtaken' = overtaken \ {p}
  /\ UNCHANGED wild

(* terminate, first half: the running process leaves the list but goes on  *)
(* running, with interrupts enabled again, until its resched.              *)
Terminate(self) ==
  /\ Running(self)
  /\ self \in Suicidal
  /\ k' = Remove(k, self)
  /\ UNCHANGED history

(* resched, called for its own sake or as the second half of terminate. *)
ReschedStep ==
  /\ ~wild
  /\ k.cproc # NullProc
  /\ k' = Resched(k)
  /\ inserted' = {}
  /\ overtaken' = {}
  /\ UNCHANGED <<orphaned, wild>>
-----------------------------------------------------------------------------
(* An interrupt routine signals in the context of the running process. *)

InterruptSignal(s) ==
  /\ ~wild
  /\ k.count[s] < MaxCount
  /\ SearchEnds(k, s)
  /\ k' = Signal(k, s)
  /\ orphaned' = [orphaned EXCEPT ![s] =
                    IF k.count[s] < 0 /\ Waiters(k, s) = {} THEN @ - 1 ELSE @]
  /\ Switched(IF k.cproc \in Listed(k) THEN {}
              ELSE {p \in RunnableProcs(k') : Above(k', p, k'.cproc)})
  /\ UNCHANGED wild

(* The process was removed from the list by terminate and nobody waits for *)
(* s although its value is negative: the search follows the null link at   *)
(* the end of the list, and what it finds there is undefined.              *)
InterruptWild(s) ==
  /\ ~wild
  /\ ~SearchEnds(k, s)
  /\ wild' = TRUE
  /\ UNCHANGED <<k, orphaned, inserted, overtaken>>

Next ==
  \/ \E p \in Proc :
       \/ \E s \in Sem : WaitStep(p, s) \/ SignalStep(p, s)
       \/ \E q \in Proc :
            \/ Run(p, q)
            \/ Kill(p, q)
            \/ \E n \in 0..Len(k.list) - 1 : NextProcess(p, n, q)
       \/ Terminate(p)
  \/ ReschedStep
  \/ \E s \in Sem : InterruptSignal(s) \/ InterruptWild(s)

Spec == Init /\ [][Next]_vars
-----------------------------------------------------------------------------
(* Properties. *)

(* The scheduler's data are of their types: the list has no process twice, *)
(* the null process ends it and never waits.                               *)
TypeOK ==
  /\ k \in KernelType
  /\ Len(k.list) >= 1
  /\ \A i, j \in DOMAIN k.list : k.list[i] = k.list[j] => i = j
  /\ k.list[Len(k.list)] = NullProc
  /\ k.pstate[NullProc] = Runnable
  /\ k.pstate[k.cproc] = Runnable
  /\ orphaned \in [Sem -> Nat]
  /\ inserted \subseteq Proc
  /\ overtaken \subseteq Proc
  /\ wild \in BOOLEAN

(* A negative semaphore counts exactly the listed processes that wait for  *)
(* it and the killed ones whose signal is still owed; at zero or above     *)
(* nobody waits.  So no wakeup is lost: while somebody waits, the value is *)
(* negative, and the next signal takes the path that searches for a waiter *)
(* (wait and signal, sched.fr:106-152).                                    *)
Accounting ==
  \A s \in Sem :
    Cardinality(Waiters(k, s)) + orphaned[s] =
      IF k.count[s] < 0 THEN -k.count[s] ELSE 0

(* No listed process above the running one is runnable, except those the   *)
(* scheduler passed over: put there by nextprocess without a resched, or   *)
(* overtaken by a signal that arrived in the middle of a terminate.  The   *)
(* search in wait, which starts after the running process, relies on it.   *)
HighestRuns ==
  \A p \in Proc :
    Above(k, p, k.cproc) /\ k.pstate[p] = Runnable => p \in inserted \cup overtaken

(* A search runs off the end of the list only where a waiter was killed   *)
(* and its signal is still owed (signal, sched.fr:140-148): wait leaves    *)
(* every process that it counts in a semaphore where signal will find it,  *)
(* so a terminate alone, however it is interrupted, is safe.               *)
NoWildSearch == wild => \E s \in Sem : orphaned[s] > 0

(* The processor is only taken from a listed process that still could run  *)
(* in favour of a process above it: an interrupt or a signal never switches*)
(* downwards, and only a process that waits, or calls resched, gives way   *)
(* to a lower one.                                                         *)
PreemptUpwards ==
  [][k'.cproc # k.cproc /\ k.cproc \in Listed(k) /\ k'.pstate[k.cproc] = Runnable
       => Above(k', k'.cproc, k.cproc)]_vars

(* A process that waits stays waiting, for the same semaphore, until the   *)
(* semaphore's value goes up by one and no listed process above it waits   *)
(* for it too: wakeups are in priority order and one per signal.           *)
WakeInOrder ==
  [][\A p \in Listed(k) : \A s \in Sem :
       k.pstate[p] = s /\ p \in Listed(k') /\ k'.pstate[p] = Runnable =>
         /\ k'.count[s] = k.count[s] + 1
         /\ \A q \in Waiters(k, s) \ {p} : Above(k, p, q) /\ q \in Waiters(k', s)]_vars
=============================================================================
