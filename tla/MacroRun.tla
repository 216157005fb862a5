------------------------------- MODULE MacroRun -------------------------------
(***************************************************************************)
(* The macro run-time (chips/instr/lib16/macro1.fr) on the multitasker.    *)
(* The command process executes macros and uplinked commands; any process  *)
(* may fork a macro at any time.  A process is preempted by a higher one   *)
(* whenever an interrupt signals it, and the run-time copies contexts word *)
(* by word, so the steps below are as small as what another process can    *)
(* see in between.                                                         *)
(***************************************************************************)
EXTENDS MacroCode, Kernel

CONSTANTS Priority,       \* the process list, highest priority first
          Commander,      \* the command process
          Forkers,        \* other processes, which fork macros
          Requests,       \* the forks asked for: [id, echo] records
          NContexts       \* number of run-time contexts (64 in the code)

ContextAccess == "context-access"
Pulse == "pulse"          \* what the forkers wait for, signalled by interrupts
Message == "message"      \* what the command process waits for

ASSUME SemaphoresAssumption == Sem = {ContextAccess, Pulse, Message}

Context == 1..NContexts
None == 0                 \* null pointer to a context

ASSUME ContextsAssumption == NContexts \in Nat \ {0}
ASSUME RequestsAssumption == Requests \subseteq [id : MacroId, echo : BOOLEAN]
ASSUME ProcessAssumption ==
  /\ Commander \in Proc \ {NullProc} /\ Forkers \subseteq Proc \ {NullProc, Commander}
  /\ Priority \in Seq(Proc) /\ Len(Priority) >= 1
  /\ Priority[Len(Priority)] = NullProc
  /\ \A i, j \in DOMAIN Priority : Priority[i] = Priority[j] => i = j

VARIABLES k,        \* the kernel
          at,       \* where each process is in its code
          fork,     \* the fork-macro call each process is making
          context,  \* the contexts in remote memory
          buffer,   \* run-context, the local copy of the running one
          running,  \* macro-running
          halting,  \* a halt-macro in progress: the macro that it looks for,
                    \* and the context that it looks at
          fresh,    \* history: contexts forked and not yet loaded
          wanted    \* history: the echo flag asked for by each fork

history == <<fresh, wanted>>
runtime == <<context, buffer, running, halting, history>>
vars == <<k, at, fork, runtime>>

Process == {Commander} \cup Forkers
Home(p) == IF p = Commander THEN "loop" ELSE "idle"
NoFork == [id |-> NoMacro, echo |-> FALSE, to |-> None]
NoHalt == [id |-> NoMacro, at |-> None]
NoContext == [id |-> NoMacro, state |-> Unused, echo |-> FALSE,
              pc |-> Astray, stack |-> <<>>]

(* init-macro, and the processes started. *)
Init ==
  /\ k = [list |-> Priority, cproc |-> Priority[1],
          pstate |-> [p \in Proc |-> Runnable],
          count |-> [s \in Sem |->
                       IF s = ContextAccess THEN 1 ELSE 0]]
  /\ at = [p \in Process |-> Home(p)]
  /\ fork = [p \in Process |-> NoFork]
  /\ context = [c \in Context |-> NoContext]
  /\ buffer = NoContext
  /\ running = None
  /\ halting = NoHalt
  /\ fresh = {}
  /\ wanted = [c \in Context |-> FALSE]

At(p, l) == k.cproc = p /\ at[p] = l
Goto(p, l) == at' = [at EXCEPT ![p] = l]

\* The first context of the array that is in S.
First(S) == CHOOSE c \in S : \A d \in S : c <= d
InState(f, s) == {c \in Context : f[c].state = s}
-----------------------------------------------------------------------------
(* fork-macro, by any process. *)

(* run-prog-macro and run-cmd-macro: nothing happens unless macro-ok?. *)
RequestFork(p, m, e) ==
  IF m \in Defined
  THEN Goto(p, "get") /\ fork' = [fork EXCEPT ![p] = [id |-> m, echo |-> e, to |-> None]]
  ELSE Goto(p, Home(p)) /\ UNCHANGED fork

\* Mutant of GetAccess: no wait.
AccessUnguarded(p) ==
  /\ At(p, "get")
  /\ Goto(p, "scan")
  /\ UNCHANGED <<k, fork, runtime>>

(* get-context: wait for access ... *)
GetAccess(p) ==
  /\ At(p, "get")
  /\ k' = Wait(k, ContextAccess)
  /\ Goto(p, "scan")
  /\ UNCHANGED <<fork, runtime>>

\* Mutants of ScanContexts: with no unused context the end of the array is
\* returned; the stack is not emptied.
ScanPastEnd(p) ==
  /\ At(p, "scan")
  /\ LET free == InState(context, Unused) IN
     IF free = {}
     THEN fork' = [fork EXCEPT ![p].to = NContexts + 1] /\ Goto(p, "give")
                                                      /\ UNCHANGED context
     ELSE /\ context' = [context EXCEPT ![First(free)] =
               [@ EXCEPT !.id = fork[p].id, !.echo = TRUE,
                         !.pc = MacroStart(fork[p].id), !.stack = <<>>]]
          /\ fork' = [fork EXCEPT ![p].to = First(free)]
          /\ Goto(p, "start")
  /\ UNCHANGED <<k, buffer, running, halting, history>>
ScanKeepsStack(p) ==
  /\ At(p, "scan")
  /\ LET free == InState(context, Unused) IN
     IF free = {} THEN Goto(p, "give") /\ UNCHANGED <<fork, context>>
     ELSE /\ context' = [context EXCEPT ![First(free)] =
               [@ EXCEPT !.id = fork[p].id, !.echo = TRUE, !.pc = MacroStart(fork[p].id)]]
          /\ fork' = [fork EXCEPT ![p].to = First(free)]
          /\ Goto(p, "start")
  /\ UNCHANGED <<k, buffer, running, halting, history>>

(* ... find the first unused context and fill it in ... *)
ScanContexts(p) ==
  /\ At(p, "scan")
  /\ LET free == InState(context, Unused) IN
     IF free = {} THEN Goto(p, "give") /\ UNCHANGED <<fork, context>>
     ELSE /\ context' = [context EXCEPT ![First(free)] =
               [@ EXCEPT !.id = fork[p].id, !.echo = TRUE,
                         !.pc = MacroStart(fork[p].id), !.stack = <<>>]]
          /\ fork' = [fork EXCEPT ![p].to = First(free)]
          /\ Goto(p, "start")
  /\ UNCHANGED <<k, buffer, running, halting, history>>

(* ... its state last ... *)
StartContext(p) ==
  /\ At(p, "start")
  /\ context' = [context EXCEPT ![fork[p].to].state = Run]
  /\ Goto(p, "give")
  /\ fresh' = fresh \cup {fork[p].to}
  /\ wanted' = [wanted EXCEPT ![fork[p].to] = fork[p].echo]
  /\ UNCHANGED <<k, fork, buffer, running, halting>>

\* Mutant of GiveAccess: no signal.
GiveSilent(p) ==
  /\ At(p, "give")
  /\ Goto(p, "echo")
  /\ UNCHANGED <<k, fork, runtime>>

(* ... and signal. *)
GiveAccess(p) ==
  /\ At(p, "give")
  /\ k' = Signal(k, ContextAccess)
  /\ Goto(p, "echo")
  /\ UNCHANGED <<fork, runtime>>

(* fork-macro records the echo flag once it has the context. *)
RecordEcho(p) ==
  /\ At(p, "echo")
  /\ context' = IF fork[p].to = None THEN context
                ELSE [context EXCEPT ![fork[p].to].echo = fork[p].echo]
  /\ fork' = [fork EXCEPT ![p] = NoFork]
  /\ Goto(p, Home(p))
  /\ UNCHANGED <<k, buffer, running, halting, history>>

ForkStep(p) ==
  GetAccess(p) \/ ScanContexts(p) \/ StartContext(p) \/ GiveAccess(p) \/ RecordEcho(p)
-----------------------------------------------------------------------------
(* Other processes, such as the telemetry process and its doers. *)

ForkerWaits(p) ==
  /\ At(p, "idle") /\ p \in Forkers
  /\ k' = Wait(k, Pulse)
  /\ Goto(p, "ready")
  /\ UNCHANGED <<fork, runtime>>

(* run-macro and run-macro-silent *)
ForkerForks(p) ==
  /\ At(p, "ready")
  /\ \E r \in Requests : RequestFork(p, r.id, r.echo)
  /\ UNCHANGED <<k, runtime>>
-----------------------------------------------------------------------------
(* The command process. *)

(* macro-ready? with no macro in run-context: check-contexts wakes the     *)
(* sleepers whose time has come, whichever they are, and load-context      *)
(* takes the first runnable context.  A context that another process starts*)
(* during the scan is as good as one started before or after it.           *)
MacroReady ==
  /\ At(Commander, "loop") /\ running = None
  /\ \E due \in SUBSET InState(context, Sleep) :
       LET woken == [c \in Context |-> IF c \in due THEN [context[c] EXCEPT !.state = Run]
                                       ELSE context[c]]
           ready == InState(woken, Run)
       IN  /\ context' = woken
           /\ IF ready = {} THEN UNCHANGED <<buffer, running, fresh>>
              ELSE /\ buffer' = woken[First(ready)]
                   /\ running' = First(ready)
                   /\ fresh' = fresh \ {First(ready)}
  /\ UNCHANGED <<k, at, fork, halting, wanted>>

(* With no macro to run, the command process waits for a message. *)
WaitMessage ==
  /\ At(Commander, "loop") /\ running = None /\ InState(context, Run) = {}
  /\ k' = Wait(k, Message)
  /\ UNCHANGED <<at, fork, runtime>>

(* halt-macro flushes run-context first if a macro is in it. *)
StartHalt(m) ==
  /\ halting' = [id |-> m, at |-> 1]
  /\ Goto(Commander, IF running = None THEN "match" ELSE "flush")

(* get-mac-cmd and handle-mac-cmd: the next command of the running macro.  *)
(* delay-macro and the last end-macro go on to flush the context.          *)
MacroCommand ==
  /\ At(Commander, "loop") /\ running # None
  /\ LET o == CommandAt(buffer.pc)
         b == AfterCommand(buffer)
     IN  /\ buffer' = b
         /\ \/ /\ o.op = "run"
               /\ RequestFork(Commander, o.id, o.echo)
               /\ UNCHANGED halting
            \/ /\ o.op = "halt" /\ o.id \in Defined
               /\ StartHalt(o.id)
               /\ UNCHANGED fork
            \/ /\ o.op # "run" /\ ~(o.op = "halt" /\ o.id \in Defined)
               /\ Goto(Commander, IF b.state = Run THEN "loop" ELSE "flush")
               /\ UNCHANGED <<fork, halting>>
  /\ UNCHANGED <<k, context, running, history>>

(* c-mac-run and c-mac-run-silent, uplinked *)
UplinkRun ==
  /\ At(Commander, "loop")
  /\ \E r \in Requests : RequestFork(Commander, r.id, r.echo)
  /\ UNCHANGED <<k, runtime>>

(* c-mac-halt, uplinked *)
UplinkHalt ==
  /\ At(Commander, "loop")
  /\ \E m \in Defined : StartHalt(m)
  /\ UNCHANGED <<k, fork, context, buffer, running, history>>

(* flush-context: words-out copies the cell of .m-id and .m-state first ... *)
FlushFirst ==
  /\ At(Commander, "flush")
  /\ context' = [context EXCEPT ![running].id = buffer.id, ![running].state = buffer.state]
  /\ Goto(Commander, "rest")
  /\ UNCHANGED <<k, fork, buffer, running, halting, history>>

\* Mutants of FlushRest: macro-running is not cleared; nothing is copied.
FlushKeepsRunning ==
  /\ At(Commander, "rest")
  /\ context' = [context EXCEPT ![running] =
                   [buffer EXCEPT !.id = context[running].id,
                                  !.state = context[running].state]]
  /\ Goto(Commander, IF halting = NoHalt THEN "loop" ELSE "match")
  /\ UNCHANGED <<k, fork, buffer, running, halting, history>>
FlushDropped ==
  /\ At(Commander, "rest")
  /\ running' = None
  /\ Goto(Commander, IF halting = NoHalt THEN "loop" ELSE "match")
  /\ UNCHANGED <<k, fork, context, buffer, halting, history>>

(* ... then the rest of the context; then no macro is running. *)
FlushRest ==
  /\ At(Commander, "rest")
  /\ context' = [context EXCEPT ![running] =
                   [buffer EXCEPT !.id = context[running].id,
                                  !.state = context[running].state]]
  /\ running' = None
  /\ Goto(Commander, IF halting = NoHalt THEN "loop" ELSE "match")
  /\ UNCHANGED <<k, fork, buffer, halting, history>>

\* The next context of the array, or null after the last.
NextContext ==
  IF halting.at < NContexts
  THEN halting' = [halting EXCEPT !.at = @ + 1] /\ Goto(Commander, "match")
  ELSE halting' = NoHalt /\ Goto(Commander, "loop")

(* match-context reads .m-id of a context ... *)
HaltMatch ==
  /\ At(Commander, "match")
  /\ IF context[halting.at].id = halting.id
     THEN Goto(Commander, "state") /\ UNCHANGED halting
     ELSE NextContext
  /\ UNCHANGED <<k, fork, context, buffer, running, history>>

(* ... then its .m-state ... *)
HaltState ==
  /\ At(Commander, "state")
  /\ IF context[halting.at].state # Unused
     THEN Goto(Commander, "kill") /\ UNCHANGED halting
     ELSE NextContext
  /\ UNCHANGED <<k, fork, context, buffer, running, history>>

(* ... and kill-context of the first one found writes .m-state. *)
HaltKill ==
  /\ At(Commander, "kill")
  /\ context' = [context EXCEPT ![halting.at].state = Unused]
  /\ fresh' = fresh \ {halting.at}
  /\ halting' = NoHalt
  /\ Goto(Commander, "loop")
  /\ UNCHANGED <<k, fork, buffer, running, wanted>>

CommandStep ==
  \/ MacroReady \/ WaitMessage \/ MacroCommand
  \/ UplinkRun \/ UplinkHalt
  \/ FlushFirst \/ FlushRest \/ HaltMatch \/ HaltState \/ HaltKill
-----------------------------------------------------------------------------
(* An interrupt routine signals; at most one signal is pending. *)
Interrupt(s) ==
  /\ k.count[s] < 1
  /\ k' = Signal(k, s)
  /\ UNCHANGED <<at, fork, runtime>>

ProcessStep ==
  \/ CommandStep
  \/ \E p \in Process : ForkStep(p) \/ ForkerWaits(p) \/ ForkerForks(p)

Next == ProcessStep \/ Interrupt(Pulse) \/ Interrupt(Message)

Spec == Init /\ [][Next]_vars

(* The running process goes on running. *)
FairSpec == Spec /\ WF_vars(ProcessStep)
-----------------------------------------------------------------------------
(* Properties. *)

ContextType ==
  [id : MacroId \cup {NoMacro}, state : {Unused, Run, Sleep}, echo : BOOLEAN,
   pc : Pc, stack : Seq(Cell)]

TypeOK ==
  /\ k \in KernelType
  /\ at \in [Process -> {"loop", "idle", "ready", "get", "scan", "start", "give", "echo",
                         "flush", "rest", "match", "state", "kill"}]
  /\ fork \in [Process -> [id : MacroId \cup {NoMacro}, echo : BOOLEAN,
                           to : Context \cup {None}]]
  /\ context \in [Context -> ContextType]
  /\ buffer \in ContextType
  /\ running \in Context \cup {None}
  /\ halting \in {NoHalt} \cup [id : Defined, at : Context]
  /\ fresh \subseteq Context
  /\ wanted \in [Context -> BOOLEAN]

(* "macro-running non-null indicates runnable macro in run-context"        *)
(* (macro1.fr:98), whenever the command process looks: the buffer holds    *)
(* a runnable macro whose context is marked runnable and has the same id.  *)
RunningValid ==
  at[Commander] = "loop" /\ running # None =>
    /\ buffer.state = Run
    /\ context[running].state = Run
    /\ context[running].id = buffer.id

(* No two forks fill the same context at the same time, and the context a  *)
(* fork fills stays unused until that fork starts it (context-access).     *)
ForksApart ==
  \A p, q \in Process :
    at[p] = "start" =>
      /\ context[fork[p].to].state = Unused
      /\ p # q /\ at[q] \in {"start", "give"} => fork[q].to # fork[p].to

\* The command process stands above those that fork macros.
CommanderAbove ==
  \E i \in DOMAIN Priority :
    /\ Priority[i] = Commander
    /\ \A j \in DOMAIN Priority : Priority[j] \in Forkers => i < j

\* No other process fills in a context while the command process is between
\* the two parts of flush-context or between the two reads of match-context.
\* The next two properties need it: run MacroHigh shows what happens without.
\* So it is if the command process stands above those that fork.
Undisturbed ==
  \A p \in Forkers : At(p, "scan") => at[Commander] \notin {"rest", "state"}

(* A macro that is started begins at its first command with an empty stack,*)
(* "in its own thread" (macro1.fr:329), whichever process forked it.       *)
StartsAtBeginning ==
  \A c \in fresh :
    /\ context[c].pc = MacroStart(context[c].id)
    /\ context[c].stack = <<>>

(* The commands of a macro are echoed if and only if the fork asked for it *)
(* (macro1.fr:332-333).                                                    *)
EchoAsForked ==
  at[Commander] = "loop" /\ running # None => buffer.echo = wanted[running]

(* No macro leaves the code it was compiled to: a thread's next command is *)
(* always a command of a defined macro.                                    *)
StaysInCode ==
  at[Commander] = "loop" /\ running # None => InCode(buffer.pc)

(* The run-time implements threads of their own: the thread of a context is*)
(* the local copy while the macro runs and the remote one otherwise; what  *)
(* halt-macro kills is a thread of the macro that it was asked for.        *)
View(c) == IF running = c THEN buffer ELSE context[c]
ThreadOf(c) ==
  IF View(c).state = Unused THEN [state |-> Unused]
  ELSE [id |-> View(c).id, state |-> View(c).state, pc |-> View(c).pc,
        stack |-> View(c).stack]
Threads == INSTANCE MacroThreads WITH thread <- [c \in Context |-> ThreadOf(c)],
                                      asked <- halting.id
OwnThreads == Threads!Spec

(* A command process that must wait for access to the contexts gets on     *)
(* with its work: the process that has access, though of lower priority,   *)
(* runs until it gives it up.                                              *)
CommandGoesOn == at[Commander] = "get" ~> at[Commander] = "loop"
=============================================================================
