------------------------------ MODULE TtyDriver ------------------------------
(***************************************************************************)
(* The interrupt-driven character driver (chips/devices/intttyws2.fr) on   *)
(* the multitasker: processes that call tty-putc and tty-getc, the UART,   *)
(* and the transmit and receive interrupt routines, which signal in the    *)
(* context of the process they interrupt.                                  *)
(*                                                                         *)
(* Characters are labels: the n-th character that enters a FIFO (or goes   *)
(* straight to the UART) carries n modulo Labels, so that order and loss   *)
(* show, whatever the characters are.                                      *)
(***************************************************************************)
EXTENDS Kernel

CONSTANTS Priority,       \* the process list, highest priority first
          FIFOSIZE,       \* slots of each FIFO
          Labels,         \* number of character labels
          Modes           \* uses of the driver, see UsesAssumption

OutFree == "outfifo.charsout"   \* semaphore: free slots of the output FIFO
InChars == "infifo.charsin"     \* semaphore: characters in the input FIFO

ASSUME SemaphoresAssumption == Sem = {OutFree, InChars}

XOFF == "XOFF"
XON == "XON"
KILL == "KILL"

(* A use of the driver: the processes that emit characters of their own,   *)
(* those that read a character and emit one, the control characters that   *)
(* the receive interrupt acts on (none on a raw channel), and whether an   *)
(* interrupt routine calls tty-putc-i.                                     *)
ASSUME UsesAssumption ==
  Modes \subseteq [writers : SUBSET (Proc \ {NullProc}), echoers : SUBSET (Proc \ {NullProc}),
                   controls : SUBSET {XOFF, XON, KILL}, interruptput : BOOLEAN]

Users == UNION {mode.writers \cup mode.echoers : mode \in Modes}

ASSUME SizesAssumption ==
  FIFOSIZE \in Nat \ {0} /\ Labels \in Nat /\ Labels > FIFOSIZE + 1
ASSUME PriorityAssumption ==
  /\ Priority \in Seq(Proc) /\ Len(Priority) >= 1
  /\ Priority[Len(Priority)] = NullProc
  /\ \A i, j \in DOMAIN Priority : Priority[i] = Priority[j] => i = j

Label == 0..Labels - 1
Idle == -1             \* the UART has nothing to transmit
QUIET == "QUIET"
OUTPUT == "OUTPUT"
THROTTLED == "THROTTLED"

VARIABLES use,      \* the use that is made of the driver; it never changes
          k,        \* the kernel; its semaphores are the two cells named above
          pc,       \* where each process is: "think", "slot", "char" or "got"
          state,    \* .state of the channel
          out,      \* output FIFO: charsin, inptr, outptr, buffer
          in,       \* input FIFO: charsout, inptr, outptr, buffer
          uart,     \* the character being transmitted
          txreq,    \* the UART asks for a transmit interrupt
          outSeq,   \* history: labels of the next character put and given
          inSeq     \* history: labels of the next character received and read

tty == <<state, out, in, uart, txreq, outSeq, inSeq>>
moving == <<k, pc, tty>>
vars == <<use, moving>>

Succ(n) == (n + 1) % Labels

InitState ==
  [kernel |-> [list |-> Priority, cproc |-> Priority[1],
               pstate |-> [p \in Proc |-> Runnable],
               count |-> [s \in Sem |->
                            IF s = OutFree THEN FIFOSIZE ELSE 0]],
   pc |-> [p \in Users |-> "think"],
   outfifo |-> [charsin |-> 0, inptr |-> 0, outptr |-> 0,
                buffer |-> [i \in 0..FIFOSIZE - 1 |-> 0]],
   infifo |-> [charsout |-> FIFOSIZE, inptr |-> 0, outptr |-> 0,
               buffer |-> [i \in 0..FIFOSIZE - 1 |-> 0]]]

(* tty-init, and the processes started. *)
Init ==
  /\ use \in Modes
  /\ k = InitState.kernel
  /\ pc = InitState.pc
  /\ state = QUIET
  /\ out = InitState.outfifo
  /\ in = InitState.infifo
  /\ uart = Idle
  /\ txreq = FALSE
  /\ outSeq = [put |-> 0, given |-> 0]
  /\ inSeq = [put |-> 0, given |-> 0]
-----------------------------------------------------------------------------
(* FIFOs. *)

\* Mutant of Wrap: one slot late.
WrapLate(i) == IF i = FIFOSIZE THEN 0 ELSE i + 1
Wrap(i) == IF i + 1 = FIFOSIZE THEN 0 ELSE i + 1

\* !fifo and @fifo: neither checks for space or for a character.
\* (The first is a mutant: the index is not stepped.)
StoreUnstepped(f, c) == [f EXCEPT !.buffer[f.inptr] = c]
StoreFifo(f, c) == [f EXCEPT !.inptr = Wrap(@), !.buffer[f.inptr] = c]
FetchFifo(f) == [f EXCEPT !.outptr = Wrap(@)]
FetchedFrom(f) == f.buffer[f.outptr]

\* uart! and uart-first!: the character replaces whatever the UART holds,
\* and the UART withdraws its request for an interrupt.
GiveUart(c) ==
  /\ uart' = c
  /\ txreq' = FALSE
  /\ outSeq' = [outSeq EXCEPT !.given = Succ(c)]

StopTransints == txreq' = FALSE

\* Mutant of PutFirst: the state stays QUIET.
PutFirstQuiet ==
  /\ uart' = outSeq.put
  /\ txreq' = FALSE
  /\ outSeq' = [put |-> Succ(outSeq.put), given |-> Succ(outSeq.put)]
  /\ UNCHANGED <<state, out>>

\* The next character, straight to the UART.
PutFirst ==
  /\ uart' = outSeq.put
  /\ txreq' = FALSE
  /\ outSeq' = [put |-> Succ(outSeq.put), given |-> Succ(outSeq.put)]
  /\ state' = OUTPUT
  /\ UNCHANGED out

\* The next character into the output FIFO.
PutFifo ==
  /\ out' = [StoreFifo(out, outSeq.put) EXCEPT !.charsin = @ + 1]
  /\ outSeq' = [outSeq EXCEPT !.put = Succ(@)]
  /\ UNCHANGED <<state, uart, txreq>>
-----------------------------------------------------------------------------
(* Processes.  Only the running process acts. *)

Goto(p, l) == pc' = [pc EXCEPT ![p] = l]
At(p, l) == k.cproc = p /\ pc[p] = l

(* tty-putc up to its wait ... *)
PutcWait(p) ==
  /\ At(p, "got") \/ (At(p, "think") /\ p \in use.writers)
  /\ k' = Wait(k, OutFree)
  /\ Goto(p, "slot")
  /\ UNCHANGED tty

(* ... and its rest, with interrupts disabled, once it has a slot. *)
PutcStore(p) ==
  /\ At(p, "slot")
  /\ Goto(p, "think")
  /\ \/ state = QUIET /\ PutFirst /\ k' = Signal(k, OutFree)
     \/ state # QUIET /\ PutFifo /\ UNCHANGED k
  /\ UNCHANGED <<in, inSeq>>

(* tty-getc up to its wait ... *)
GetcWait(p) ==
  /\ At(p, "think") /\ p \in use.echoers
  /\ k' = Wait(k, InChars)
  /\ Goto(p, "char")
  /\ UNCHANGED tty

(* ... and its rest, with interrupts disabled, once it has a character. *)
GetcTake(p) ==
  /\ At(p, "char")
  /\ in' = [FetchFifo(in) EXCEPT !.charsout = @ + 1]
  /\ inSeq' = [inSeq EXCEPT !.given = Succ(FetchedFrom(in))]
  /\ Goto(p, "got")
  /\ UNCHANGED <<k, state, out, uart, txreq, outSeq>>
-----------------------------------------------------------------------------
(* The UART and the interrupt routines. *)

(* The UART has sent its character and asks for the next. *)
UartDone ==
  /\ uart # Idle
  /\ uart' = Idle
  /\ txreq' = TRUE
  /\ UNCHANGED <<k, pc, state, out, in, outSeq, inSeq>>

\* Mutants of TransInt: the slot is not signalled free; the state stays OUTPUT
\* when the FIFO is empty.
TransIntSilent ==
  /\ txreq
  /\ IF state = OUTPUT /\ out.charsin # 0
     THEN /\ GiveUart(FetchedFrom(out))
          /\ out' = [FetchFifo(out) EXCEPT !.charsin = @ - 1]
          /\ UNCHANGED state
     ELSE /\ StopTransints
          /\ state' = IF state = OUTPUT THEN QUIET ELSE state
          /\ UNCHANGED <<out, uart, outSeq>>
  /\ UNCHANGED <<k, pc, in, inSeq>>
TransIntStaysOutput ==
  /\ txreq
  /\ IF state = OUTPUT /\ out.charsin # 0
     THEN /\ GiveUart(FetchedFrom(out))
          /\ out' = [FetchFifo(out) EXCEPT !.charsin = @ - 1]
          /\ k' = Signal(k, OutFree)
     ELSE StopTransints /\ UNCHANGED <<k, out, uart, outSeq>>
  /\ UNCHANGED <<state, pc, in, inSeq>>

(* tty-transint *)
TransInt ==
  /\ txreq
  /\ \/ /\ state = OUTPUT /\ out.charsin # 0
        /\ GiveUart(FetchedFrom(out))
        /\ out' = [FetchFifo(out) EXCEPT !.charsin = @ - 1]
        /\ k' = Signal(k, OutFree)
        /\ UNCHANGED state
     \/ /\ state = OUTPUT /\ out.charsin = 0
        /\ StopTransints
        /\ state' = QUIET
        /\ UNCHANGED <<k, out, uart, outSeq>>
     \/ /\ state # OUTPUT
        /\ StopTransints
        /\ UNCHANGED <<k, state, out, uart, outSeq>>
  /\ UNCHANGED <<pc, in, inSeq>>

\* Mutant of RcvChar: no test for a free slot.
RcvCharUnchecked ==
  /\ in' = [StoreFifo(in, inSeq.put) EXCEPT !.charsout = @ - 1]
  /\ inSeq' = [inSeq EXCEPT !.put = Succ(@)]
  /\ k' = Signal(k, InChars)
  /\ UNCHANGED <<pc, state, out, uart, txreq, outSeq>>

(* tty-rcvint and tty-rcvrawint: an ordinary character; thrown away when   *)
(* the input FIFO is full.                                                 *)
RcvChar ==
  /\ IF in.charsout # 0
     THEN /\ in' = [StoreFifo(in, inSeq.put) EXCEPT !.charsout = @ - 1]
          /\ inSeq' = [inSeq EXCEPT !.put = Succ(@)]
          /\ k' = Signal(k, InChars)
     ELSE UNCHANGED <<k, in, inSeq>>
  /\ UNCHANGED <<pc, state, out, uart, txreq, outSeq>>

(* tty-rcvint: XOFF *)
RcvXoff ==
  /\ XOFF \in use.controls
  /\ state' = THROTTLED
  /\ UNCHANGED <<k, pc, out, in, uart, txreq, outSeq, inSeq>>

\* Mutants of RcvXon: the slot is not signalled free; output is not started.
RcvXonSilent ==
  /\ XON \in use.controls /\ state = THROTTLED /\ out.charsin # 0
  /\ GiveUart(FetchedFrom(out))
  /\ out' = [FetchFifo(out) EXCEPT !.charsin = @ - 1]
  /\ state' = OUTPUT
  /\ UNCHANGED <<k, pc, in, inSeq>>
RcvXonUnstarted ==
  /\ XON \in use.controls /\ state = THROTTLED
  /\ state' = OUTPUT
  /\ UNCHANGED <<k, pc, out, in, uart, txreq, outSeq, inSeq>>

(* tty-rcvint: XON *)
RcvXon ==
  /\ XON \in use.controls
  /\ \/ /\ state = THROTTLED /\ out.charsin # 0
        /\ GiveUart(FetchedFrom(out))
        /\ out' = [FetchFifo(out) EXCEPT !.charsin = @ - 1]
        /\ state' = OUTPUT
        /\ k' = Signal(k, OutFree)
     \/ /\ state = THROTTLED /\ out.charsin = 0
        /\ state' = QUIET
        /\ UNCHANGED <<k, out, uart, txreq, outSeq>>
     \/ state # THROTTLED /\ UNCHANGED <<k, state, out, uart, txreq, outSeq>>
  /\ UNCHANGED <<pc, in, inSeq>>

(* tty-rcvint: KILL reboots, which starts the driver and the processes     *)
(* afresh; the UART goes on with the character it has.                     *)
RcvKill ==
  /\ KILL \in use.controls
  /\ k' = InitState.kernel
  /\ pc' = InitState.pc
  /\ state' = QUIET
  /\ out' = InitState.outfifo
  /\ in' = InitState.infifo
  /\ outSeq' = [put |-> 0, given |-> 0]
  /\ inSeq' = [put |-> 0, given |-> 0]
  /\ UNCHANGED <<uart, txreq>>

(* tty-putc-i, called by an interrupt routine.  It tests charsout, which   *)
(* is negative when processes wait for a slot, for zero.                   *)
PutcI ==
  /\ use.interruptput
  /\ IF k.count[OutFree] # 0
     THEN \/ state = QUIET /\ PutFirst /\ UNCHANGED k
          \/ /\ state # QUIET /\ PutFifo
             /\ k' = [k EXCEPT !.count[OutFree] = @ - 1]
     ELSE UNCHANGED <<k, state, out, uart, txreq, outSeq>>
  /\ UNCHANGED <<pc, in, inSeq>>

ProcessStep(p) == PutcWait(p) \/ PutcStore(p) \/ GetcWait(p) \/ GetcTake(p)

Next ==
  /\ \/ \E p \in Users : ProcessStep(p)
     \/ UartDone
     \/ TransInt
     \/ RcvChar \/ RcvXoff \/ RcvXon \/ RcvKill
     \/ PutcI
  /\ UNCHANGED use

Spec == Init /\ [][Next]_vars

(* The hardware finishes each character and its interrupt is taken, since  *)
(* interrupts are disabled only for short stretches; the running process   *)
(* goes on running.                                                        *)
Fairness ==
  /\ WF_moving(UartDone) /\ WF_moving(TransInt)
  /\ \A p \in Users : WF_moving(ProcessStep(p))

FairSpec == Spec /\ Fairness
-----------------------------------------------------------------------------
(* Properties. *)

TypeOK ==
  /\ k \in KernelType
  /\ pc \in [Users -> {"think", "slot", "char", "got"}]
  /\ state \in {QUIET, OUTPUT, THROTTLED}
  /\ out \in [charsin : Nat, inptr : 0..FIFOSIZE - 1, outptr : 0..FIFOSIZE - 1,
              buffer : [0..FIFOSIZE - 1 -> Label]]
  /\ in \in [charsout : Nat, inptr : 0..FIFOSIZE - 1, outptr : 0..FIFOSIZE - 1,
             buffer : [0..FIFOSIZE - 1 -> Label]]
  /\ uart \in Label \cup {Idle}
  /\ txreq \in BOOLEAN
  /\ outSeq \in [put : Label, given : Label]
  /\ inSeq \in [put : Label, given : Label]

(* The output FIFO holds exactly the characters put and not yet given to   *)
(* the UART, in the order they were put: none is lost, doubled, reordered  *)
(* or overwritten on its way to the UART, and the FIFO never holds more    *)
(* than its slots (tty-putc, tty-transint, tty-rcvint).                    *)
OutputInOrder ==
  /\ out.charsin <= FIFOSIZE
  /\ (outSeq.given + out.charsin) % Labels = outSeq.put
  /\ \A i \in 0..out.charsin - 1 :
       out.buffer[(out.outptr + i) % FIFOSIZE] = (outSeq.given + i) % Labels

(* The same for the type-ahead buffer, whatever is thrown away when it is  *)
(* full (tty-rcvint, tty-getc).                                            *)
InputInOrder ==
  LET n == FIFOSIZE - in.charsout IN
  /\ n >= 0
  /\ (inSeq.given + n) % Labels = inSeq.put
  /\ \A i \in 0..n - 1 :
       in.buffer[(in.outptr + i) % FIFOSIZE] = (inSeq.given + i) % Labels

(* Every slot of both FIFOs is free, occupied, or promised to a process    *)
(* that is between its wait and its disabled section.                      *)
SlotsAccounted ==
  /\ k.count[OutFree] + out.charsin + Cardinality({p \in Users : pc[p] = "slot"})
       = FIFOSIZE
  /\ k.count[InChars] + in.charsout + Cardinality({p \in Users : pc[p] = "char"})
       = FIFOSIZE

(* Output never stalls: when characters are in the output FIFO and the     *)
(* other end has not sent XOFF, the UART is busy or asks for an interrupt. *)
NoStall ==
  out.charsin > 0 /\ state # THROTTLED => state = OUTPUT /\ (uart # Idle \/ txreq)

Raw == use.controls = {}

(* "nothing being transmitted" (intttyws2.fr:44) *)
QuietMeansIdle == state = QUIET => uart = Idle

(* On a raw channel that is so: tty-transint alone sets QUIET, when the    *)
(* UART has asked for a character and there is none.                       *)
RawQuietMeansIdle == Raw => QuietMeansIdle

(* A raw channel gives the UART a character only when it has none.         *)
NoOverrun == [][Raw /\ uart # Idle => uart' \in {uart, Idle}]_vars

(* A character is placed in the FIFO only "if there is a free output slot" *)
(* (intttyws2.fr:94): the FIFO never holds more characters than slots.     *)
PutOnlyInFreeSlot == out.charsin <= FIFOSIZE

(* Every character put on a raw channel is given to the UART in the end.   *)
OutputProgress ==
  \A l \in Label :
    (Raw /\ out.charsin > 0 /\ outSeq.given = l) ~> (outSeq.given # l)

(* A process that asked for an output slot of a raw channel gets its       *)
(* character out of its hands, if it is the one of the highest priority.   *)
EmitCompletes ==
  \A p \in Users : p = Priority[1] => (Raw /\ pc[p] = "slot" ~> pc[p] = "think")
=============================================================================
