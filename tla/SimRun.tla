------------------------------- MODULE SimRun --------------------------------
(***************************************************************************)
(* The commands of the simulator that run a program for a while, on the    *)
(* study simpipe.c, which alone may count two cycles at once: phase,       *)
(* cycle, sim <addr>, sim <addr> <num> times and sim <num> cycles.  The    *)
(* user may break in.                                                      *)
(***************************************************************************)
EXTENDS SimPipe

CONSTANTS
  Boot,          \* the machine at the first command
  Counts,        \* numbers of cycles that the user asks for
  Addresses,     \* where the user lets the simulation stop
  Times,         \* how often it has to come there
  Maxcycles      \* bound on the cycles that are simulated

VARIABLES
  m,             \* the machine
  running,       \* the command at work: "none", "sim" or "simcycles"
  last,          \* lastcycle of Simcycles, addr of Sim
  times          \* of Sim, those that are left

vars == <<m, running, last, times>>

Phased(x) == IF x.phase = 1 THEN Phia(x) ELSE Phib(x)
Completed(x) == IF x.phase = 2 THEN Phib(x) ELSE x

Init == m = Boot /\ running = "none" /\ last = 0 /\ times = 0

Phase == running = "none" /\ m' = Phased(m) /\ UNCHANGED <<running, last, times>>
Cycle == running = "none" /\ m.phase = 1 /\ m' = Phib(Phia(m)) /\ UNCHANGED <<running, last, times>>

Sim(addr, n) ==
  /\ running = "none"
  /\ m' = Completed(m)
  /\ running' = "sim"
  /\ last' = addr
  /\ times' = n

Simcycles(n) ==
  /\ running = "none"
  /\ m' = Completed(m)
  /\ running' = "simcycles"
  /\ last' = n + m'.stats.cycle
  /\ UNCHANGED times

(* A turn of the loops: one looks at the next address, one at the cycles.  *)
Simturn ==
  /\ running = "sim"
  /\ IF times # 0
     THEN /\ m' = Phib(Phia(m))
          /\ times' = times - Bit(m'.pca = last)
          /\ UNCHANGED running
     ELSE running' = "none" /\ UNCHANGED <<m, times>>
  /\ UNCHANGED last

Simcyclesturn ==
  /\ running = "simcycles"
  /\ IF m.stats.cycle # last THEN m' = Phib(Phia(m)) /\ UNCHANGED running
                             ELSE running' = "none" /\ UNCHANGED m
  /\ UNCHANGED <<last, times>>

Quit == running # "none" /\ running' = "none" /\ UNCHANGED <<m, last, times>>

Next ==
  /\ m.stats.cycle < Maxcycles
  /\ \/ Phase
     \/ Cycle
     \/ \E a \in Addresses, n \in Times : Sim(a, n)
     \/ \E n \in Counts : Simcycles(n)
     \/ Simturn
     \/ Simcyclesturn
     \/ Quit

Spec == Init /\ [][Next]_vars

-----------------------------------------------------------------------------
(* sim <num> cycles simulates that many cycles: it never goes past the     *)
(* last one, and so the loop that waits for it ends.                       *)
StopsAtLast == running = "simcycles" => m.stats.cycle <= last

=============================================================================
