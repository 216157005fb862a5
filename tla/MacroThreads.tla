---------------------------- MODULE MacroThreads ----------------------------
(***************************************************************************)
(* What the macro run-time promises: macros run in threads of their own.   *)
(* A fork takes a free slot and starts its macro at the first command, a   *)
(* thread executes its commands one after the other, sleeps when it delays,*)
(* and gives its slot back when it ends or is halted.  Every step is       *)
(* atomic and changes the threads it is about and no other.  A halt is     *)
(* asked for by a command of a thread or from outside; then it is carried  *)
(* out, on a thread of the macro asked for, before another command.        *)
(***************************************************************************)
EXTENDS MacroCode

CONSTANT Context      \* slots: the run-time contexts

VARIABLES thread,     \* the thread in each slot
          asked       \* the macro that is to be halted

NoThread == [state |-> Unused]

Init == thread = [c \in Context |-> NoThread] /\ asked = NoMacro

(* A macro is started in a free slot. *)
ForkThread(c, m) ==
  /\ thread[c] = NoThread
  /\ thread' = [thread EXCEPT ![c] = NewThread(m)]
  /\ UNCHANGED asked

\* What a command asks to halt.
Asks(o) == IF o.op = "halt" /\ o.id \in Defined THEN o.id ELSE NoMacro

(* A thread executes its next command. *)
ExecuteThread(c) ==
  /\ asked = NoMacro /\ thread[c].state = Run
  /\ LET t == AfterCommand(thread[c])
     IN  thread' = [thread EXCEPT ![c] = IF t.state = Unused THEN NoThread ELSE t]
  /\ asked' = Asks(CommandAt(thread[c].pc))

(* Sleeping threads wake up. *)
WakeThreads(S) ==
  /\ \A c \in S : thread[c].state = Sleep
  /\ thread' = [c \in Context |->
                  IF c \in S THEN [thread[c] EXCEPT !.state = Run] ELSE thread[c]]
  /\ UNCHANGED asked

(* A halt from outside. *)
AskHalt(m) ==
  /\ asked = NoMacro
  /\ asked' = m
  /\ UNCHANGED thread

(* A thread of the macro asked for is halted, or none is found. *)
HaltThread(c) ==
  /\ thread[c] # NoThread /\ thread[c].id = asked
  /\ thread' = [thread EXCEPT ![c] = NoThread]
  /\ asked' = NoMacro
HaltNone ==
  /\ asked # NoMacro
  /\ asked' = NoMacro
  /\ UNCHANGED thread

Next ==
  \/ \E c \in Context :
       ExecuteThread(c) \/ HaltThread(c) \/ \E m \in Defined : ForkThread(c, m)
  \/ \E S \in SUBSET Context : WakeThreads(S)
  \/ \E m \in Defined : AskHalt(m)
  \/ HaltNone

Spec == Init /\ [][Next]_<<thread, asked>>
=============================================================================
