# A TLA+ verification of the flight software and simulators in this tree

`src/` holds a family of Forth systems and, under `src/chips/instr/lib16/`,
the flight software that runs on them in spacecraft instruments: a prioritised
multitasker, an interrupt-driven character driver, and a library of processes
that take commands, run macros, watch limits and send telemetry. Under
`src/chips/sim/` it holds the simulators, in C, of the FRISC processors that the
first of these systems were designed for. The modules here model the core of
the flight software and the simulated processors, and TLC checks them on small
instances. For the flight software, that is the multitasker, the character
driver, the macro run-time and the macro compiler, TLAPS proves the safety
properties for every instance, and that the run-time implements its abstract
specification. For the processors it proves that their arithmetic (multiplication,
division, comparison, normalisation) is that of the integers, for cells of every
even number of bits, and that the cache of the FRISC 4c agrees with memory.

Contents: 1 the system, 2 the modules, 3 the runs, 4 fairness, 5 what the code
does against its own comments, 6 the proofs, 7 abstractions and what is left
out, 8 the plan.

## 1. The system

### 1.1 Components

Paths are relative to `src/chips/instr/lib16/` unless they begin with another
directory of `src/`.

| Component | Source | State it keeps | Operations | Correct when |
|---|---|---|---|---|
| multitasker | `chips/scip/sched.fr`, `chips/procprim.fr`, `chips/scip/nullproc.fr` | the process list in order of priority, `cproc`, `.pstate` of each process (runnable, or the semaphore it waits for), semaphores | `wait`, `signal`, `resched`, `nextprocess`, `run`, `kill`, `terminate` | no wakeup is lost, the highest runnable process runs, waiters wake in order of priority |
| character driver | `chips/devices/intttyws2.fr` | two FIFOs with a semaphore each, `.state` (QUIET, OUTPUT, THROTTLED) | `tty-putc`, `tty-putc-i`, `tty-getc`, `tty-transint`, `tty-rcvint`, `tty-rcvrawint` | characters are neither lost, doubled nor reordered, the UART is never written while busy, output never stalls |
| macro run-time | `macro1.fr` lines 85-345 | an array of contexts in remote memory, `run-context` (the local copy of one), `macro-running` | fork, halt, delay, nest, loops, end, the pick of the next macro | each macro runs in a thread of its own, from its beginning, whoever forks it |
| macro compiler | `macro1.fr` lines 346-550 | pool of linked blocks, `mac-free-list`, `comp-macro`, `comp-pc`, `macro-learn` | start a definition, append a command, end it, release blocks | blocks are neither lost nor shared, a macro is exactly what it was taught |
| macro archive | `macro-arch1.fr` | a copy of all that in EEPROM with a checksum | save, restore | what is restored is what was saved |
| queues of far memory | `farqueue.fr`, `farqueue2.fr` | head and tail of a linked list | put, get, append, empty, peek | the tail is the last element |
| command processor | `cmd-proc1.fr`, `cmd-dict1.fr`, `cmd-echo1.fr` | current command, table of names, counters, echo buffer | the loop that takes a macro command or an uplinked one, look-up, execution, echo | every command executed once, counted once, echoed if asked |
| monitor, safing | `monitor1.fr`, `safing1.fr` | limits, persistence counts, missed all-is-well calls | check a point, run a response macro, safe | a response runs once per excursion, safing once |
| alarms and events | `alarm1.fr`, `events1.fr` | a buffer behind an access semaphore | report, collect | none lost without being counted, none twice |
| packets and frames | `packet1.fr` | one frame buffer and its fill, semaphores for access and space | start, fill and send a packet, get a frame | packets do not mix, order and length right |
| dumps | `dump1.fr`, `dump2.fr`, `macro-dump1.fr` | cursor of the dump in progress | start, continue, abort | the dump ends, and shows one version of what it dumps |
| telemetry and status | `telemetry1.fr`, `stat-proc1.fr` | rates and counters | the telemetry loop, periodic status | |
| timers and doers | `loclib/timers.fr`, `loclib/timers2.fr` | a delta list of timers | start, cancel, tick | a timer expires exactly at its time |
| time | `time1.fr` | two cells of time | set, read, step | never read half-changed |
| memory stream, EEPROM | `memory3.fr`, `eeprom-wait-*.fr` | one write-back buffer, ready semaphore | read, write, flush | equal to a flat memory |
| memory commands | `mem-cmd3.fr` | addresses and structure table | load, copy, check | loads stay in their structure |
| I2C and SPI | `i2c1.fr` ... `spi-user1.fr` | transaction in progress | start, complete | one transaction at a time |
| boot | `boot*.fr` | chosen image | load, jump | |
| FRISC simulators | `chips/sim/fsim3.c`, `fsim4.c`, `fsim4a.c`, `fsim4b.c`, `fsim4c.c` | the registers of a processor, its stack caches, pipeline, memory cache, bus, interrupt controller, and the memory | phase a and phase b of a cycle, interrupts on and off, DMA, reset, start | each version executes the instruction set as if its stacks had no end and each instruction were atomic |
| FRISC studies | `chips/sim/basement/*.c` | a FRISC 3 and counters | the same, and `sim <num> cycles` | what is counted is what was executed |
| others | Forth kernels and cross compilers, `chips/rtx`, `ans`, `chips/measure`, instrument boards, test scripts | | | listed with the reason in `PROJECT.json` |

The first six rows and the two of the FRISC are modelled here. The command
processor is in the model only as the loop that executes macros, and the
telemetry process only as a process of another priority that forks them.

### 1.2 Interactions

* Processes share memory and call each other's words. They meet through
  semaphores: `wait` takes one or suspends, `signal` gives one and switches at
  once to the waiter it wakes if that is higher in the list. Interrupt routines
  call `signal` too, in the context of the process that they interrupted.
* The driver's `tty-putc` and `tty-getc` run in the calling process. Receive and
  transmit interrupts signal the same two semaphores, whose values also count
  slots.
* The command process executes macro commands and uplinked commands in one
  loop. Macros are forked by commands, by other macros, by the monitor, by
  safing and by the doers of the telemetry process, so `fork-macro` runs in
  processes above and below the command process; in
  `messtest/main-epu.fr:23-25` `telemetry-process` and `1hz-process` come before
  `command-process`.
* The compiler is fed by the command process when a command carries the append
  flag, and its blocks are the code that the run-time executes. The archive
  copies the blocks, the free list and the table of macros.
* Packets of all processes go through one frame buffer.
* A simulator advances its processor phase by phase; between any two phases the
  user, in the role of the devices, raises and lowers interrupts and takes the
  bus. On FRISC 4c every cycle goes through a decoder that asks the cache and
  the bus interface, either of which may stall the data path.

### 1.3 What is hard to test

Preemption between any two instructions; signals sent by an interrupt in the
context of any process; the two halves of `terminate`, between which the
running process is not in the list; kills of waiting processes; semaphores used
as counts and therefore negative at times; contexts copied cell by cell while
another process scans them; a pool that runs out in the middle of a command;
commands given in unexpected orders, such as a restore during a definition;
resets in the middle of a save; a spill of a stack that comes between an
interrupt and the instruction it displaces; a result that is needed before it
is written back; a store that is in the cache and not yet in memory; carries
that show for a few operands only. `PROJECT.json` lists each hazard at its line,
with the properties that would catch it or the reason why none does yet.

## 2. The modules

| Module | Models | Role |
|---|---|---|
| `Kernel` | `sched.fr`, `procprim.fr` | `wait`, `signal`, `resched` and the list words as operators on one record |
| `Sched` | the multitasker by itself | state machine, properties |
| `KernelProofs` | | lemmas: what each operation of `Kernel` does, for all that use it |
| `SchedProofs` | | theorems about `Sched` |
| `TtyDriver` | `intttyws2.fr` | state machine on the kernel (`INSTANCE Kernel`) |
| `TtyProofs` | | theorems about `TtyDriver` |
| `MacroCode` | `macro1.fr` lines 85-320 | what one macro command does to one context, as operators |
| `MacroThreads` | the promise of `macro1.fr` | abstract specification: atomic threads |
| `MacroRun` | `macro1.fr`, `cmd-proc1.fr` | detailed state machine on the kernel; implements `MacroThreads` |
| `MacroProofs` | | lemmas: a command on a context, the discipline of its stack; theorems about `MacroRun`; the refinement |
| `FarQueue` | `farqueue.fr`, `farqueue2.fr` | operators on chains of blocks |
| `MacroComp` | `macro1.fr`, `macro-arch1.fr` | state machine of compiler and archive |
| `MacroCompProofs` | | theorems about the pool of blocks and about what the blocks hold |
| `FriscWord` | `aluopsc.c`, parts of all `fsim*.c` | cells of W bits, adder, conditions, stack caches, as operators |
| `FriscAlu`, `FriscAlu4c` | `fsim4.c`, `fsim4c.c` | ALU, steps of multiplication and division, shifter |
| `Frisc3`, `Frisc4`, `Frisc4a`, `Frisc4b` | `fsim3.c` ... `fsim4b.c` | one operator for each function of the simulator, from a machine to the next |
| `Bus4c`, `Frisc4c` | `fsim4c.c` | decoder, cache and bus; data path |
| `SimCount`, `SimReg`, `SimPipe`, `SimQbr`, `SimLdst` | `basement/*.c` | what the studies add to `Frisc3` |
| `FriscCache` | `Bus4c`, `Frisc4c` | what the 4c asks of a program for its cache to be invisible |
| `CacheProofs` | | lemmas: a cycle of the 4c, its cache and its bus |
| `FriscSim` | `parser.y` and all the above | state machine: phases, interrupts, DMA; properties of the machine |
| `FriscSimProofs` | | the theorem about the cache in `FriscSim` |
| `FriscIsa` | the promise to a program | abstract specification that `FriscSim` implements |
| `FriscView` | | what a program sees of `FriscSim`; `Refines` and `Answered` |
| `FriscNum` | `FriscAlu`, `FriscAlu4c`, `Frisc3`, `SimQbr` | sequences of instructions against integer arithmetic |
| `FriscNumProofs` | | theorems about `FriscNum` |
| `SimRun` | `basement/simpipe.c` lines 188-235 | the commands that run a program for a while |
| `MCSched`, `MCTtyDriver`, `MCMacroRun`, `MCMacroComp`, `MCFrisc`, `MCSimRun` | | instances for TLC |

### 2.1 `Kernel` and `Sched`

The kernel's state is one record: `list` (the process list, highest priority
first, the null process last), `cproc` (the running process, `cproc` in the
code), `pstate` (`Runnable` for zero, otherwise the semaphore waited for) and
`count` (the values of the semaphores). `Wait(k, s)`, `Signal(k, s)`,
`Resched(k)`, `Insert`, `Remove` are the words of those names; each
runs with interrupts disabled, so each is one step. `wait` looks for its
successor only below the running process, `signal` searches the whole list for
the first waiter and switches only if that waiter is above the running process,
exactly as the code does; the switch of stacks and registers is part of the
step.

In `Sched` the processes do anything they may: `WaitStep`, `SignalStep`,
`NextProcess`, `Run`, `Kill`, `Terminate` (first half), `ReschedStep` (a call of
its own or the second half of `terminate`, which runs with interrupts enabled),
and `InterruptSignal` in the context of whoever runs. `InterruptWild` is a
`signal` whose search finds nobody while the running process is not in the
list: it follows the null link at the end of the list, and the model stops
there. `orphaned`, `inserted`, `overtaken` and `wild` are history variables that
only the properties and the bounds read.

Properties: `Accounting` relates the value of each semaphore to the processes
that wait for it, so that no signal can be lost or wake nobody while somebody
waits; `HighestRuns` says that nobody above the running process can run, save
those that were put in above it without a resched (`nextprocess`) or were woken
by an interrupt between the halves of a `terminate`; `NoWildSearch` says that
only a kill of a waiting process, never a `terminate` alone, can make a search
run off the list; `PreemptUpwards` and `WakeInOrder` are action properties.

The exceptions in `HighestRuns` are what the code does: a process woken inside
a `terminate` does not preempt at once, because `signal` does not find the
running process while it searches for one that is higher; the `resched` at the
end of `terminate` puts that right.

### 2.2 `TtyDriver`

State: the kernel, where each process is (`pc`), `state`, `out`, `in`, the
character the UART is sending (`uart`) and its request for an interrupt
(`txreq`). A character is a label, the number modulo `Labels` of its entry into
the FIFO, so that loss, doubling and reordering show. `tty-putc` is two steps,
its `wait` and its disabled section; so is `tty-getc`. `TransInt`, `RcvChar`,
`RcvXoff`, `RcvXon`, `RcvKill` are the interrupt routines, whole. A disabled
section that signals switches process in the same step. The UART is outside
`src/`: writing it replaces the character it holds and withdraws its request;
when it has finished it asks for an interrupt.

`Modes` is the set of uses that a run makes of the driver and `use` the one of
this behaviour, which never changes: the processes that write and that echo,
the control characters that the receive interrupt acts on (none on a raw
channel), and whether an interrupt routine calls `tty-putc-i`. `Raw` in a
property confines it to a channel without flow control.

Properties: the output FIFO holds exactly the characters put and not yet given
(`OutputInOrder`), the same of the input (`InputInOrder`), each slot is free,
occupied or promised (`SlotsAccounted`), the driver does not fall quiet with
characters in the FIFO (`NoStall`), the UART of a raw channel is never
overwritten (`RawQuietMeansIdle`, `NoOverrun`), and under fairness everything put goes out
(`OutputProgress`) and the highest process gets its slot (`EmitCompletes`).

### 2.3 `MacroCode`, `MacroThreads`, `MacroRun`

`MacroCode` has the commands (delay, nest, loops, end, run, halt and any other)
and `AfterCommand`, which advances a context over one of them. Commands are
values, not bytes; the return stack keeps, as the code does, program counters
and loop counters in one stack, in the code's cells.

`MacroThreads` is the promise: each slot holds a thread or nothing; fork,
execute, wake and halt are atomic and touch only the threads they are about.

`MacroRun` is the code. `GetAccess`, `ScanContexts`, `StartContext`,
`GiveAccess`, `RecordEcho` are the parts of `fork-macro` that another process
can see apart: the wait, the fill of the context, the cell that makes it
runnable, the signal, the echo flag written afterwards. `MacroReady` is
`check-contexts` and `load-context`; `MacroCommand` fetches and executes;
`FlushFirst` and `FlushRest` are the cell-by-cell copy of `flush-context`, the
state cell first. The search of `halt-macro` goes from context to context:
`HaltMatch` reads the id of one and `HaltState` its state, and `HaltKill` writes
the state of the one found; `halting` keeps what is searched for and where the
search is, so another process may fork between any two of these steps. Uplinked
commands come in between (`UplinkRun`, `UplinkHalt`). `Priority` says whether the
forking process is above or below the command process.

`OwnThreads` is the refinement `Threads!Spec`, where the thread of a context is
the local copy while the macro runs and the remote one otherwise, and a halt that
was asked for (`asked`) is carried out on a thread of that macro, or on none,
before another command. `Undisturbed` is what the refinement and the next two
properties need of the order of processes: no fork fills a context while the
command process is between the two parts of `flush-context` or between the two
reads of `match-context`. The other
properties are facts the refinement cannot see or rests on: `RunningValid`
(the comment at `macro1.fr:98`), `ForksApart` (what `context-access` is for),
`StartsAtBeginning`, `StaysInCode`, and, under fairness, `CommandGoesOn`.

### 2.4 `FarQueue`, `MacroComp`

A queue is a record of head and tail and a link per block; `PutLinks`,
`PutHeader`, `GetHeader`, `AppendLinks`, `AppendHeader`, `EmptyQueue` translate
the words, old tails of emptied queues included. `MacroComp` has one action per
command: `StartDef`, `Append1`, `EndDef`, `SaveMacros`, `RestoreMacros`, and
`Reset`, also in the middle of a save. `AllocMacro` is `alloc-macro?` with its
allocation of as many blocks as there are before it fails; the count of free
blocks is a variable of its own, which `AllocBlock` lowers by one, `Release`
raises by the blocks it walks over, and the archive saves and restores, as the
code does; `StoreByte` is `m!+`
with its step to the next block. A byte is a pair of the command it belongs to
and its position there; `learned` and `taught` are the bytes that a definition was
given, kept for the properties only.

Properties: `OneOwner` (each block in exactly one place), `FreeCounted` (the
number in telemetry is the length of the free list, what
`chips/instr/tests/macro-audit.fr` compares), `TailsLast`, `MacrosAsTaught`
(reading the chain of a macro gives the commands it was taught, whatever was
refused on the way), `ReusedLast` (released blocks go to the end of the free
list, as a macro may still be running in them).

### 2.5 The FRISC processors

The machine of a simulator is one record, and each C function an operator from
the record to the next. A cycle is a phase a and a phase b. In `Frisc3` and
`Frisc4` the cycle is named by `state`: EXEC for every instruction, a second
cycle for LOAD and STORE, two cycles to spill the oldest slot of a full stack
cache to memory and two to fill a low one, INT and GRANT (DMA). `Nextstate`
chooses, and looks at interrupts last. `Frisc4` adds an interrupt controller
with a line for each bit of a cell, mask, mode and edges, coprocessor registers
and Y.
`Frisc4a` and `Frisc4b` are a pipeline: the result waits in `aluout`,
`barrelout` or `dhold`, is written back in phase a of the next cycle, and
`torptr` names who has the top of the return stack till then. The code of 4a is
that of 4b with addresses that count cells, and so are the modules (`Unit`).
`Frisc4c` decides the next state in phase a, takes a branch before it knows the
condition and undoes it with SQUASH, and goes through `Bus4c`: the decoder
`Iodecode` with the states of a cache access, and the bus interface `Biu`,
which counts wait states and writes while the data path goes on.

`FriscSim` puts a processor to work on a program. Its actions are `Phia`, `Phib`
(for 4c a whole cycle, which is all that `Singlestep` knows), `Inton`,
`Intoff`, `Dmastart` and `Dmaend`, in any order. `FriscIsa` is what all the
processors promise: stacks without end, a memory, instructions that each take
effect at once. `View`, in `FriscView`, is the refinement mapping. It completes the instruction
in progress, its second cycle and any spill, writes back what waits, and joins
the slots of each stack cache with what has been spilled; `Refines` then says
that each phase of the machine is an instruction, an interrupt or nothing to
the program. The enable of interrupts is a short queue in `FriscIsa`, since an
enable that is written decides some stages later; how much later depends on
the cycles between, and is left open there.

Two differences between versions are part of the promise because programs see
them: after an interrupt FRISC 3 leaves the link behind the displaced
instruction (its handler subtracts one), FRISC 4, 4a and 4b at it, and 4c
calls; and 4b fetches the handler from its vector number as a byte address.

The other properties: `CacheCoherent` relates the cells of the 4c's cache that
are present to memory with the write that the bus still holds; `Answered` says
that a latched interrupt is taken in the end if the program keeps enabling
interrupts; `CyclesAccounted`, `UsesAccounted` and `TakenCounted` relate the
counters of the studies, which are counted at different places of different
cycles, to one another and to the branch that was taken. `Wellused` is what the
4c asks of a program: nothing but instructions, and no store that goes around
the cache to a cell that the cache has. The run checks it of its programs,
`CacheCoherent` is proved from it.

`FriscNum` checks the computing parts by themselves on all operands:
`Multiplied` (Booth steps on FRISC 4, with sign; bit by bit on FRISC 3),
`Divided` (without restoring on FRISC 4), `Compared` (each condition after a
subtraction, with overflow) and `Normalised` (count of leading zeros, then the
shift by it).

## 3. The runs

State counts are distinct states.

| Run | Instance and bounds | States | Shows |
|---|---|---|---|
| `SchedKill` | 5 processes (default, null, 3 started by the application, of which two may be killed while waiting and two may terminate), 2 interchangeable semaphores, values up to 1, one killed waiter owed per semaphore | 55 k | all properties of `Sched` |
| `Tty` | FIFOs of 2, 4 labels, `FairSpec`; three uses: an echoing process above a writing one on a raw channel; the same with XOFF, XON and KILL at any time; interrupt routines only, with `tty-putc-i` | 185 k | all properties of `TtyDriver`, with progress on the raw channel |
| `MacroLow` | forker below the command process, 2 contexts, m1 delays, m2 forks, halts and nests m1, one request for an undefined macro, `FairSpec` | 694 k | safety, the refinement `OwnThreads` and `CommandGoesOn` |
| `MacroComp` | 2 interchangeable macros, 3 blocks of 3 bytes, commands of 1, 4 and 9 bytes, 9 being too big, archive commands outside a definition | 110 k | all properties of `MacroComp` |
| `Frisc` | cells of 16 bits, stack caches of 8 slots, 4c: cache of 2 blocks of 2 cells, 2 assignments of wait states; 4 programs on the 5 processors with an interrupt and DMA, one with two interrupts and the end of one, on the 4 studies with an interrupt; all pairs of 15 to 22 instructions on 4b and 4c with an interrupt | 505 k | `Refines`, `CacheCoherent` with the condition `Wellused` that it is proved from, `Answered` and the counts of the studies |
| `FriscNum` | cells of 4 bits; 4 arithmetic units, all operands | 75 k | arithmetic |
| `SimRun` | a program of calls with full and empty slots, 1 to 3 cycles asked for, 12 cycles at most | | see section 5 |
| `TtyXon`, `TtyPutI`, `MacroHigh`, `MacroEcho`, `MacroLearn` | the instances above with one thing added | | see section 5 |

Why the bounds are enough for the cases of interest. Five processes give a
running one with waiters above and below it, and a third to be started, killed
or terminated meanwhile; two semaphores let a process wait for the wrong one.
A FIFO of two is empty, in between, full and wrapped, and `Labels >
FIFOSIZE + 1` tells every content apart. Two contexts let a fork find a free
one, a busy one or none, and let one macro sleep while the other runs. Three
blocks of three bytes let a macro take one block, cross into a second, end
exactly at the end of a block, and leave too few for the next command.

The programs of `Frisc` recurse deeper than a stack cache, push more than one
holds, keep interrupts out of a critical section, and write, load and move
return addresses just before they are used; memory begins with the stack
caches almost full, so that one call spills and two returns fill. The pairs
give every instruction every other as its neighbour where results are
forwarded. Two blocks of two cells hold code and data that evict one another.
Four bits hold every sign, carry and overflow, and the steps treat all middle
bits alike.

`MaxCount`, `MaxOrphan` (`Sched`), one pending signal per semaphore
(`MacroRun`), `NContexts`, `NBlocks`, `MaxLen`, and in `FriscSim` the inputs
of a scenario (`left`) and `Maxcycles`, after which a study stops because its
counters grow, are the named bounds. Each of
the signals that the first of them hold back would only add to a semaphore that is above zero, or
repeat a kill.
Deadlock is checked except in `SchedKill`, where the null process may be all
that is left, with every semaphore at its bound; in `Frisc` and `SimRun`, where
a study ends after `Maxcycles`; and in `FriscNum`, whose sequences end.

`MacroComp` gives archive commands only when no definition is in progress
(`ArchiveWhen = {FALSE}`); `MacroLearn` gives them at any time and shows why.

Every property of a passing run has at least one mutant in `PROJECT.json`: a
plausible fault of a modelled word (a dropped guard, a missing signal, an index
one too far, a field not restored) under which TLC finds the property violated.
The mutated forms stand beside the definitions they change, marked as mutants.

## 4. Fairness

* `TtyDriver`: the UART finishes each character and its interrupt is taken
  (`WF_vars(UartDone)`, `WF_vars(TransInt)`), as interrupts are disabled only for
  short stretches; the running process goes on (`WF_vars(ProcessStep(p))`, which
  is enabled only while `p` is the running process). No fairness for received
  characters, which may never come, nor among processes: the multitasker has
  strict priorities, and `EmitCompletes` is stated of the highest process only.
* `MacroRun`: `WF_vars(ProcessStep)`, some process goes on. No fairness for
  interrupts or for uplinked commands, and none among macros: the code takes
  the first runnable context each time and promises no more.

* `FriscSim`: the simulator is stepped again and again, except that a study ends
  after `Maxcycles`, and a device that took the bus gives it back. `Fairness`
  writes this as "the clock ticks infinitely often" and "the bus is free
  infinitely often", which for steps that are always enabled is the same as
  weak fairness; it spares TLC a second computation of each step. Programs are
  deterministic, so nothing is assumed of them.

## 5. Where the code and its comments differ

Each is a run that TLC refutes, with the comment it contradicts in
`PROJECT.json`.

* `TtyXon`: XOFF sets THROTTLED while a character is being sent; XON with an
  empty FIFO then sets QUIET, which the comment at `intttyws2.fr:44` describes
  as "nothing being transmitted", and the next `tty-putc` writes to a UART that
  may still be busy.
* `TtyPutI`: `tty-putc-i` tests the count of free slots for non-zero. With
  processes waiting for a slot the count is negative, and the character is
  stored in a full FIFO, over the oldest one.
* `MacroHigh`: `flush-context` writes the state cell of a context first and the
  rest after it, without the access semaphore. A process above the command
  process that forks in between takes the context just marked unused, and the
  rest of the old macro is copied over the new one.
* `MacroEcho`: `fork-macro` writes the echo flag after the context has been made
  runnable. If the command process is above the forking one, it may already
  have loaded the context, and a silent macro is echoed.
* `MacroLearn`: a restore in the middle of a definition restores the free list
  but leaves `comp-macro`, so the blocks being filled are free as well.
* `SimRun`: in the study `simpipe.c` the loop of `sim <num> cycles` waits until
  the count of cycles equals the last one, but a call with an empty slot and a
  load that is used at once count two cycles; the count may step over the last
  cycle and the command goes on until the user breaks in.

Smaller ones, met while modelling and not given runs: the study `simqbr.c`
counts a branch target as fillable "if it is not a branch and not a return" but
leaves out micro instructions; resets of the studies clear the count of cycles
but not the counts by type; in `fsim4a.c` a DMA cycle repeats the write back of
the cycle before it, which is harmless for registers but not for the latch of
interrupt edges, which programs here do not write.

## 6. The proofs

Every theorem holds for all values of the constants that satisfy the named
assumptions: every finite set of processes, every order of priorities, every
size of FIFO, pool and block, all macros and commands, every even number of
bits in a cell and all operands.

### 6.1 What is proved

| Theorem | Says | Hypothesis |
|---|---|---|
| `SchedTypeOK`, `SchedAccounting`, `SchedHighestRuns`, `SchedNoWildSearch` | `Spec => []TypeOK` and so on, each for the property of that name | |
| `SchedPreemptUpwards`, `SchedWakeInOrder` | the two action properties | |
| `TtyTypeOK`, `TtySlotsAccounted`, `TtyInputInOrder`, `TtyNoStall`, `TtyRawQuietMeansIdle` | the invariants of `TtyDriver` | |
| `TtyNoOverrun` | the action property | |
| `TtyOutputInOrder` | the invariant | `Separate` |
| `MacroForksApart`, `MacroRunningValid` | the invariants of `MacroRun` | |
| `MacroStartsAtBeginning` | the invariant | `[]Undisturbed` |
| `MacroOwnThreads` | `OwnThreads`: `MacroRun` implements `MacroThreads` | `[]Undisturbed` |
| `MacroUndisturbed` | `Spec => []Undisturbed` | `CommanderAbove` |
| `MacroTypeOK` | the type invariant | `LoopsNest(depth)` |
| `MacroStaysInCode` | the invariant | `[]Undisturbed`, `LoopsNest(depth)` |
| `PoolOwners`, `PoolCount`, `PoolTails` | `OneOwner`, `FreeCounted`, `TailsLast` of `MacroComp` | `TRUE \notin ArchiveWhen` |
| `PoolLearnedNotFree` | `LearnedNotFree`, which `MacroLearn` refutes without the hypothesis | `TRUE \notin ArchiveWhen` |
| `CompTypeOK`, `CompMacrosAsTaught` | the invariants of `MacroComp` | `TRUE \notin ArchiveWhen` |
| `CompReusedLast` | the action property | and `BlockSize > 1` |
| `NumMultiplied`, `NumDivided`, `NumCompared`, `NumNormalised` | the invariants of `FriscNum` | |
| `SimCacheCoherent` | the invariant `CacheCoherent` of `FriscSim` | `Boots` of each scenario, `[]Wellused` |

The hypotheses, each of which is true of an instance that TLC runs:

* `Separate`: an interrupt routine calls `tty-putc-i` only on a channel that no
  process writes to. `TtyPutI` is the counterexample without it.
* `Undisturbed`: no other process fills in a context between the two parts of
  `flush-context` or between the two reads of `match-context`. `MacroHigh` is the
  counterexample without it. The theorems that assume it hold of every order of
  processes and of every behaviour that is undisturbed; `MacroUndisturbed` shows
  that all behaviours are if `CommanderAbove`, that is, if the command process
  comes before all that fork. The repository's main program has another order
  (`messtest/main-epu.fr:23-25`: `telemetry-process` and `1hz-process` come
  first), so there nothing but timing keeps their forks out of these places.
  What needs no such condition: forks never collide, the running macro is always
  the one its context says, and every variable has its type.
* `LoopsNest(depth)`: there is a number of open loops for each place of the
  code, zero at the beginning and the end of a macro, one more behind a loop
  command, one less behind its end, never negative. Nothing in the compiler
  checks this; a macro that violates it pops a loop counter as half of a program
  counter. `NestsAssumption` and `AboveAssumption` in `MCMacroRun` have TLC
  evaluate this and `CommanderAbove` for the instance of `MacroLow`.
* `TRUE \notin ArchiveWhen`: macros are archived and restored outside a
  definition only. `MacroLearn` is the counterexample.
* `BlockSize > 1`: a block holds the two bytes of an end command (`#block-size`
  is 32). With blocks of one byte, an end that finds one free block and needs
  two takes the first in vain, and the release puts it behind the others.
* `Boots(f, n)`: a scenario of the 4c begins with a machine that was reset,
  started at an address and stepped `n` times, `f` being the machines on the way,
  all of them well used. `Booted` in `MCFrisc` makes the machines of the run this
  way and evaluates `Wellbehaved` of each of them.
* `Wellused`: see 2.5. The code keeps neither part of it: a word that is no
  instruction has no defined effect, and a program may turn the cache off, store
  to a cell that is in the cache, and turn it on again. TLC checks that the
  programs of the run do nothing of the kind.

The assumptions, which TLC evaluates in the passing runs: `NullAssumption`,
`SemAssumption`, `FiniteAssumption` (`Kernel`); `DefAssumption`,
`SetsAssumption`, `BoundsAssumption` (`Sched`: who may be started, killed,
terminated; never the null process); `SemaphoresAssumption`, `UsesAssumption`,
`SizesAssumption`, `PriorityAssumption` (`TtyDriver`); `CodeAssumption`
(`MacroCode`); `SemaphoresAssumption`, `ContextsAssumption`,
`RequestsAssumption`, `ProcessAssumption` (`MacroRun`); `SizesAssumption`,
`ArchiveAssumption`, `CommandsAssumption` (`MacroComp`: a command has at least
one byte); `SizeAssumption` (`FriscWord`), `EvenAssumption` (`FriscNum`: the
number of bits is even, since FRISC 4 multiplies two bits at a time),
`CacheAssumption` (`FriscCache`: the cache has blocks and cells, and the regions
of the address map come in their order).

### 6.2 The multitasker

`TypeOK` alone is not inductive: that a search in `wait`, `signal` or `resched`
ends at a listed process depends on the null process being last and always
runnable, and on no process being listed twice, so these belong to the
invariant; and that the number of waiters fits the semaphore needs, for the
step of `signal` that finds nobody, the count of killed waiters. The inductive
invariant `IInv` is therefore `TypeOK /\ Accounting`, with those facts among the
conjuncts of `TypeOK`; `HighestRuns` and `NoWildSearch` are inductive relative to
it, and the action properties follow from it step by step.

`KernelProofs` holds what all users of the kernel share:

1. Facts about lists: where `FirstFrom` finds what it looks for (from the
   well-founded order of the naturals), what `InsertAfter` and `Without` keep
   (`FirstFromProperties`, `InsertProperties`, `WithoutProperties`).
2. What each operation does to the record, without its definition
   (`WaitEffect`, `SignalEffect`, `SignalInOrder`, `ReschedEffect`,
   `InsertEffect`, `RemoveEffect`).
3. What it does to the waiters of each semaphore, by cardinalities
   (`WaitAccounting`, `SignalAccounting`, ...), and for a system in which nobody
   is killed: a semaphore is negative by exactly the number of its waiters
   (`WaitBalanced`, `SignalBalanced`).
4. "Above" is a strict order that insertion and removal respect (`AboveOrder`);
   `signal` switches to a waiter only if it is higher (`SignalPriority`), `wait`
   to the next below (`WaitPriority`).

`SchedProofs` then has one step per action.

### 6.3 The character driver

The invariant is in parts: `Types`, `Slots` (slots free, occupied and promised
add up to the FIFO), `KernelPart` (the process list never changes, and whoever
waits stands at the place of its semaphore), `UsePart` (only the processes of
this use are in the driver), `UartPart` (a request means an idle UART; OUTPUT
means that it sends or asks; QUIET means an empty FIFO) and `InPart`. `Holds`
says of either FIFO that its indices are apart by the number of its characters,
modulo its size, and that each cell between them holds the label that is due.

`SlotsAccounted` does not bound the FIFO by itself, since a semaphore may be
negative. That a process which has passed its `wait` finds room follows because
a negative semaphore counts its waiters exactly (`Balanced`), and they are other
processes at the same place, fewer than all that are there (`RoomForOne`).
`tty-putc-i` breaks just this: it takes a semaphore below zero for free slots
and lowers it although nobody waits for more. Hence `OutPart`, with the output,
is an invariant under `Separate` only, while all others hold of every use.

### 6.4 The macro run-time

`MacroProofs` has the invariant that needs no order of priorities: `AccessPart`
(one process at a time is between the wait for `context-access` and its signal,
through the hand-over to a waiter by `signal`), `ForkPart` (the context that a
fork has found is still unused when it starts it, since the command process
never takes an unused one) and `RunPart` (the running macro's context is marked
runnable and has its id, also while `flush-context` is half done).

`HaltPart` adds what a search for a macro to halt knows: which macro it looks for
and which context it is at, and that the context it is about to kill is in use,
since a fork fills only unused ones.

`Undisturbed`, as a hypothesis of behaviours, gives `StartPart`: while
`flush-context` copies, no fork fills a context; and the id that `match-context`
has read of a context is still there when it kills it. With `CommanderAbove` the list
adds `TopRuns` (nobody above the running process can run), from which
`MacroUndisturbed` follows: inside the two places the command process can run,
and the forking process is below it. From these each step is a step
of `MacroThreads` or changes no thread (`StepThreads`, one lemma for forks and
one for commands):
`MacroCommand` is `AfterCommand` of the thread, because commands act alike on
contexts that agree in what a thread has (`CommandOnContext`), both halves
of `flush-context` leave the thread as it is, and `HaltKill` ends a thread of the
macro asked for.

The stack of a context mixes program counters of two cells and loop counters of
one. `Framed` says that there is a set of heights, with a macro and a number of
open loops at each, such that what is between two heights is what a nest or a
loop pushed there; the heights are a witness, as the code keeps no frame
pointers. Each command adds or removes the topmost (`PushReturn`, `PopReturn`,
`PushLoop`, `PopLoop`), and `LoopsNest` gives that the end of a macro or of a
loop finds the frame it needs. Program counters are never copied without
their stacks (`StepPlaces`), whoever forks.

### 6.5 The macro compiler and archive

`MacroCompProofs` states the pool by a function `P` from holders (free list,
definition, each macro) to lists of blocks, which the links and headers
represent: every block is in one list, once (`Apart`), and the links of each
list are its order (`Chained`). Each word moves the first blocks of one list
behind another (`Moves`); `MoveApart` and `MoveChained` say once that this keeps
both. `AllocBlocks`, `SaveMacro` and `Chain` repeat a step; where the repetition
is a recursive function, its sequence of values is shown to exist and a fact
about all of them follows by the least counterexample (`WalkRuns`, `AllocRuns`,
`SaveRuns`). The archive satisfies the same of itself when its checksum is good,
which makes a restore a step from one good pool to another. The count of free
blocks is not derived from the list: that it equals the length of the list is
part of the invariant, since each `alloc-block` and each release changes both.

To this come the bytes. `Content` says that offset `i` of block `j` of
a macro holds byte `(j - 1) * BlockSize + i` of what it was taught, and zero
behind the end; `Placed` that `comp-pc` is the position behind the last byte,
which at the end of a block may be no block at all. `AppendTold` carries both
through the allocation that may fail half way, the loop that stores, and the
step from block to block.

### 6.6 The arithmetic of the FRISC processors

`FriscNumProofs` proves what `FriscNum` checks for cells of 4 bits. Neither the
number of steps nor the number of bits is fixed, so each sequence of
instructions has an invariant that holds between any two of them. With `P` the
power of two of the steps done and `low` the part of an operand that they have
used up:

| Part | Says, after some steps |
|---|---|
| `BoothPart` | `sum * P + done = x * (low - flag * P)`: the signed sum and the product bits already in Y are what the used bits of the multiplier, with the borrow in the flag, contribute |
| `BitPart` | the same without signs, between the shift of the multiplier and the step that adds |
| `DividePart`, `RestoringPart` | `n = (q * d + r) * P + low`: the digits decided, the remainder they leave and the bits still to come make up the dividend; FRISC 4 may hold `r - d`, of which the flag tells (`Borrowed`), FRISC 3 adds the divisor back at once |
| `ComparePart`, `NormalPart` | one instruction and two: the flag is the condition's meaning; the count of zeros bounds the operand from both sides (`Counted`) |

`IInv` is the type of the registers and the part of the task in hand. Its proof
has three layers:

1. Powers and cells. The library has no facts about exponentiation, so
   `2^(n+1) = 2 * 2^n` is derived from the number of subsets of a set of n and of
   n + 1 elements, and `2^(m+n) = 2^m * 2^n` by the least counterexample
   (`PowerNext`, `PowerSum`). A remainder is known by its bounds
   (`DivisionUnique`, `CellOf`), and the adder's carry, sign, overflow and zero
   follow for operands of any width (`AdderFlags`).
2. One instruction. For each of the four arithmetic units and each instruction of
   `FriscNum`, a lemma says what it leaves in result, flag and Y
   (`BoothOutcome`, `DivideOutcome`, `SubtractOutcome`, `ZerosOutcome`, ...),
   from the selection of operands, condition and shift-in that the instruction's
   fields make in that unit's code. The sum that overflows in a Booth step is
   repaired by the condition LESS on its way into the shifter (`BoothSum`).
3. One step of the invariant. The arithmetic is in lemmas over integers
   (`BoothAlgebra`, `DigitStep`, `SumAlgebra`), and products are behind named
   definitions (`Accumulated`, `Remains`, `Product`), so that the steps about the
   machine have nothing nonlinear in them.

### 6.7 The cache of FRISC 4c

`CacheCoherent` is about the machine between two accesses. What a cycle may find
in between is much more: a cycle may stall in the decoder, with a block just
given to a new tag, a cell to be fetched, or a byte store half done; the bus
counts wait states of a write that the data path has left behind, and of a read
that it waits for. `Settled` is the memory as it will be when the bus has done its
pending write. The invariant `Sound` has four parts:

| Part | Says |
|---|---|
| `Coherence` | every cell that the cache has is that of the settled memory, except those that the access in progress is about to bring up to date (`Unsure`), and what that access relies on still holds (`Pending`); with the shape of tags and data (`Shape`) and the state of the bus (`Bus`) |
| `Control` | the pipeline's states, a register to load or write back is one, also while a stall holds the data path |
| `InPlace` | a byte that is stored is at its place in the cell |
| | an access in progress stalls the data path, so the data path asks for it again |

The proof follows a cycle. The data path changes neither cache nor bus
(`WriteregKeeps` ... `DpphibEffect`), so it only determines the access. The bus
unit ends an access, begins one or counts on, and `Settled` changes only where a
write begins (`EndEffect`, `SettledIs`, `StoreEffect`). Then come the kinds of
access: a hit, a miss or a store to memory (`MemoryEffect`), an internal register
(`InternalEffect`), and each state of an access that goes on (`RetagEffect`,
`FillEffect`, `NonlocalEffect`). A stored cell is the one that the cache has and
no other, because index, part and tag determine a cell (`Elsewhere`, `CachedIs`).
`CycleSound` puts them together, `ResetSound`, `StartSound` and `BootSound` give
the beginning, and `FriscSimProofs` adds interrupts and DMA, which touch nothing
of it. `Wellbehaved` is used in three places: what is fetched is an instruction, an
address is a number, and a store around the cache (the cache off, or the region
not cachable) is to a cell that the cache does not have.

### 6.8 What is only model-checked

* Liveness under fairness and anything with `ENABLED`, for which the prover has
  no support: `OutputProgress`, `EmitCompletes`, `CommandGoesOn`, `Answered`.
* The processors at work on a program, apart from the cache: `TypeOK`,
  `CyclesAccounted`, `UsesAccounted` and `TakenCounted` of `FriscSim`, and
  `Refines` of `FriscView`, whose view completes the instruction in progress by a
  recursive operator (`Finished`), which the prover cannot reason about. `Wellused`, from which
  `CacheCoherent` is proved, depends on the program and is checked of those that
  TLC runs; so does `TakenCounted`, which tells a taken branch by its destination,
  and so not one to the next instruction.

## 7. Abstractions

* Time: which sleepers `check-contexts` finds due is a free choice; the
  comparison of times is left out.
* Data: characters are labels, bytes are (command, position) pairs, commands
  that are not macro commands are one `Other`.
* External: the UART, the handling of a message, the pulse that wakes forking
  processes. They are modelled from how the code uses them.
* Steps: what runs with interrupts disabled is one step. The rest of an
  interrupt routine after its signal is not split from it; a board whose
  receive and transmit routines share a vector is therefore not covered.
* `MacroRun`: macros of the instances are balanced (each loop ends before its
  macro does), what the theorems name `LoopsNest`, and the return stack is
  unbounded; in the code it holds 32 cells. Macros do not change while they
  run; the interplay with redefinition is covered on the compiler's side by
  `ReusedLast`.
* `MacroRun` with the forking process above the command process is covered by
  `MacroHigh`, which stops at the first divergence, by the theorems without a
  hypothesis, and by those under `Undisturbed`, for the behaviours that are.
* `MacroThreads` lets a halt find no thread (`HaltNone`) even if there is one,
  since a macro may be forked behind the search of `halt-macro`.
* `MacroComp`: the contexts that a restore kills belong to `MacroRun`; the macros
  installed at start-up go through the same words. The additive checksum is taken to
  be wrong after an interrupted save.
* FRISC: W bits to a cell and N slots to a stack cache stand for 32 and 16;
  addresses keep the order of the regions but not their size. Instructions are
  records of their fields, not encoded words; a program does not write its own
  code. Memory above the low one, and the trap space through which simulated
  programs do terminal input and output, are left out; so are screen, traces,
  test vectors, and the statistics of the five simulators, which only their
  summaries read. `portvalue` is kept only where a later cycle reads it. The
  simulators index memory by `addr <= lowtop`; the programs stay below it.
  What an instruction asks for and the code leaves uninitialised (`Defined` in
  `FriscAlu`) no program here uses. Byte order is that of a big-endian host.
  Divisors on FRISC 3 have the high bit clear, since its step has no place for
  the bit that the shift loses.
* The simulators' `reset` and `startat` are given before the first instruction
  only. With no stall at that moment the first `Singlestep` of FRISC 4c executes
  the instruction of zeros that reset leaves, as the code does.
* The command `wait`, which only adds one to the count of cycles, and a number
  typed by itself, which is pushed on the stack cache, are not actions. `CyclesAccounted` is therefore about
  cycles that are simulated: `wait` counts a cycle without a type, and a reset in
  the middle of a run clears the cycles but not their types.
* `SimRun` has the commands `phase`, `cycle`, `sim` with and without `times`, and
  `sim <num> cycles`, with the user breaking in at any time.
* `MacroComp` runs in one process only, the command process, so there is no
  interleaving in it.

## 8. Plan

In this order; runs are merged with existing ones where they ask the same
question.

0. Done: the core (multitasker, driver, macros) and the FRISC processors.
1. Done: the proofs of section 6 about the multitasker, the driver and the
   macros, with the step of `OwnThreads` and the pool of `MacroComp`, about
   the arithmetic of the FRISC processors and about the cache of FRISC 4c.
2. `Packets` with `Alarms`: the frame buffer, its semaphores and the processes
   that send; the comment that a send never blocks against the telemetry
   process that takes frames.
3. `Timers`: the delta list, shown to implement absolute times of expiry; a
   timer that is started twice.
4. `Memory`: the one-block write-back buffer, shown to implement a flat memory,
   with the semaphore of the EEPROM.
5. `Monitor` and `Safing`: persistence, responses, safing once.
6. `CommandProc`: look-up, counters, echoes, around the loop of `MacroRun`;
   dumps that follow a macro as it is redefined.
7. `Bus`: I2C and SPI slots; the shared vector of the 8252; cell width and the
   bounded stack of macro contexts.
8. Proofs: an abstract specification of semaphores (counts and a set of waiters
   in order of priority) that `Sched` implements; `CyclesAccounted`,
   `UsesAccounted` and `TakenCounted`, whose definitions have no recursive
   operators; in the end `Refines`, once the view completes an instruction
   without one. `MacroRun` and `MacroComp` in one module, so that a macro may be
   redefined while it runs.
