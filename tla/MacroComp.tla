------------------------------ MODULE MacroComp ------------------------------
(***************************************************************************)
(* The macro compiler (chips/instr/lib16/macro1.fr) and the EEPROM archive *)
(* of macros (macro-arch1.fr).  The command process learns a macro command *)
(* by command into blocks of a pool; macros, the macro being learned and   *)
(* the free list are chains of blocks.  Only the command process runs this *)
(* code; what can go wrong is the order of the commands uplinked to it,    *)
(* the pool running out at any point, and resets.                          *)
(*                                                                         *)
(* A command of length n takes a length byte and n bytes of its own.  A    *)
(* byte is a pair: the command's label and its position in the command.    *)
(***************************************************************************)
EXTENDS Integers, Sequences, FiniteSets, SequencesExt

CONSTANTS MacroId,       \* identifiers of macros
          NBlocks,       \* number of macro blocks
          BlockSize,     \* #block-size: bytes of macro per block
          Commands,      \* commands to learn, [label, len] records
          MaxLen,        \* length at which a command is too big (256)
          ArchiveWhen    \* values of macro-learn at which the archive commands
                         \* are given

Block == 1..NBlocks
Null == 0

INSTANCE FarQueue

EndCommand == [label |-> "end", len |-> 1]
Zero == <<"zero", 0>>

ASSUME SizesAssumption == NBlocks \in Nat \ {0} /\ BlockSize \in Nat \ {0}
ASSUME ArchiveAssumption == ArchiveWhen \subseteq BOOLEAN
ASSUME CommandsAssumption == \A c \in Commands : c.len \in Nat \ {0} /\ c.label # "end"

VARIABLES next,       \* .next of each block
          data,       \* .m-data of each block
          free,       \* mac-free-list
          freeCount,  \* mac-free-blocks, the count reported in telemetry
          macros,     \* first block of each macro
          comp,       \* comp-macro, the blocks of the macro being learned
          compPc,     \* comp-pc: block and offset
          compId,     \* comp-id
          learning,   \* macro-learn
          archive,    \* what the EEPROM holds
          taught,     \* history: the bytes of the commands each macro was taught
          learned     \* history: the bytes learned so far

pool == <<next, data, free, freeCount, macros>>
compiler == <<comp, compPc, compId, learning>>
history == <<taught, learned>>
vars == <<pool, compiler, archive, history>>

Undefined == <<>>
NoArchive == [good |-> FALSE]

\* init-macro-comp puts every block on the free list, the first one first.
InitPool ==
  [next |-> [b \in Block |-> IF b = NBlocks THEN Null ELSE b + 1],
   data |-> [b \in Block |-> [i \in 0..BlockSize - 1 |-> Zero]],
   free |-> [head |-> 1, tail |-> NBlocks]]

Init ==
  /\ next = InitPool.next /\ data = InitPool.data /\ free = InitPool.free
  /\ freeCount = NBlocks
  /\ macros = [m \in MacroId |-> Null]
  /\ comp = [head |-> Null, tail |-> Null]
  /\ compPc = <<Null, 0>>
  /\ compId \in MacroId
  /\ learning = FALSE
  /\ archive = NoArchive
  /\ taught = [m \in MacroId |-> Undefined]
  /\ learned = <<>>
-----------------------------------------------------------------------------
(* Helpers on a record s of the fields next, data, free, count (that is,   *)
(* mac-free-blocks), comp and pc.                                          *)

\* alloc-block and farq-put on comp-macro; the block is erased.
\* (The first is a mutant: the block is not counted.)
AllocUncounted(s) ==
  LET b == s.free.head
  IN  [s EXCEPT !.free = GetHeader(s.next, s.free),
                !.data[b] = [i \in 0..BlockSize - 1 |-> Zero],
                !.next = PutLinks(s.next, s.comp, b),
                !.comp = PutHeader(s.comp, b)]
AllocBlock(s) ==
  LET b == s.free.head
      rest == GetHeader(s.next, s.free)
  IN  [s EXCEPT !.free = rest,
                !.count = @ - 1,
                !.data[b] = [i \in 0..BlockSize - 1 |-> Zero],
                !.next = PutLinks(s.next, s.comp, b),
                !.comp = PutHeader(s.comp, b)]

\* alloc-blocks: n blocks, or as many as there are.
AllocBlocks(s, n) ==
  LET a[i \in 0..n] ==
        IF i = 0 THEN s
        ELSE IF a[i - 1].free.head = Null THEN a[i - 1] ELSE AllocBlock(a[i - 1])
  IN  a[n]

FreeLength(s) == Len(Chain(s.next, s.free.head, NBlocks))

\* alloc-macro?: space for n bytes, from a new block if there is no current
\* one.  The blocks allocated before the pool ran out stay with the macro.
CeilDiv(a, b) == (a + b - 1) \div b
AllocMacro(s, n) ==
  LET s1 == IF s.pc[1] # Null \/ s.free.head = Null THEN s
            ELSE [AllocBlock(s) EXCEPT !.pc = <<s.free.head, 0>>]
      room == BlockSize - s1.pc[2]
      more == IF n > room THEN CeilDiv(n - room, BlockSize) ELSE 0
      s2 == AllocBlocks(s1, more)
  IN  IF s1.pc[1] = Null THEN [ok |-> FALSE, s |-> s]
      ELSE [ok |-> FreeLength(s1) >= more, s |-> s2]

\* m!+: store a byte and step; the next block, or none, follows the last byte.
\* (The first is a mutant: one byte too many for the block.)
StorePast(s, x) ==
  LET b == s.pc[1]
      i == s.pc[2]
  IN  [s EXCEPT !.data = IF b = Null \/ i = BlockSize THEN @ ELSE [@ EXCEPT ![b][i] = x],
                !.pc = IF b # Null /\ i = BlockSize THEN <<s.next[b], 0>> ELSE <<b, i + 1>>]
StoreByte(s, x) ==
  LET b == s.pc[1]
      i == s.pc[2]
  IN  [s EXCEPT !.data = IF b = Null THEN @ ELSE [@ EXCEPT ![b][i] = x],
                !.pc = IF b # Null /\ i + 1 = BlockSize THEN <<s.next[b], 0>>
                       ELSE <<b, i + 1>>]

Bytes(c) == [i \in 1..c.len + 1 |-> <<c.label, i - 1>>]
SaveMacro(s, c) ==
  LET a[i \in 0..c.len + 1] ==
        IF i = 0 THEN s ELSE StoreByte(a[i - 1], Bytes(c)[i])
  IN  a[c.len + 1]

State == [next |-> next, data |-> data, free |-> free, count |-> freeCount,
          comp |-> comp, pc |-> compPc]

\* Mutant of AppendCmd: the result of alloc-macro? is ignored.
AppendUnchecked(c) ==
  IF c.len >= MaxLen \/ ~learning THEN [ok |-> FALSE, s |-> State]
  ELSE [ok |-> TRUE, s |-> SaveMacro(AllocMacro(State, c.len + 1).s, c)]

\* append-cmd: whether it succeeds, and what it does to the memory.
AppendCmd(c) ==
  IF c.len >= MaxLen \/ ~learning THEN [ok |-> FALSE, s |-> State]
  ELSE LET a == AllocMacro(State, c.len + 1)
       IN  IF a.ok THEN [ok |-> TRUE, s |-> SaveMacro(a.s, c)] ELSE a

\* Mutant of Release: the blocks are put on the front of the free list.
ReleaseFirst(s, b) ==
  IF b = Null THEN s
  ELSE [s EXCEPT !.next[Last(Chain(s.next, b, NBlocks))] = s.free.head,
                 !.count = @ + Len(Chain(s.next, b, NBlocks)),
                 !.free = [head |-> b,
                           tail |-> IF s.free.head = Null
                                    THEN Last(Chain(s.next, b, NBlocks)) ELSE s.free.tail]]

\* release-mac-blocks of the chain at b, put on the end of the free list: the
\* walk to the last block counts the blocks.
Release(s, b) ==
  IF b = Null THEN s
  ELSE LET ch == Chain(s.next, b, NBlocks)
       IN  [s EXCEPT !.next = AppendLinks(s.next, s.free, b),
                     !.free = AppendHeader(s.free, b, Last(ch)),
                     !.count = @ + Len(ch)]
-----------------------------------------------------------------------------
(* Commands. *)

(* c-mac-def; refused while a macro is being learned. *)
StartDef(m) ==
  /\ IF learning THEN UNCHANGED <<compPc, compId, learning, learned>>
     ELSE /\ compPc' = <<Null, 0>>
          /\ compId' = m
          /\ learning' = TRUE
          /\ learned' = <<>>
  /\ UNCHANGED <<pool, comp, archive, taught>>

(* An uplinked command with the append flag (learn-macro). *)
Append1(c) ==
  /\ LET a == AppendCmd(c) IN
     /\ next' = a.s.next /\ data' = a.s.data /\ free' = a.s.free
     /\ comp' = a.s.comp /\ compPc' = a.s.pc
     /\ freeCount' = a.s.count
     /\ learned' = IF a.ok THEN learned \o Bytes(c) ELSE learned
  /\ UNCHANGED <<macros, compId, learning, archive, taught>>

(* c-mac-enddef: append the end command and install the macro; the old one *)
(* of that name, or the incomplete new one, is released.                   *)
EndDef ==
  /\ LET a == AppendCmd(EndCommand)
         old == IF a.ok THEN macros[compId] ELSE a.s.comp.head
         s == Release(a.s, old)
     IN
     /\ next' = s.next /\ data' = s.data /\ free' = s.free /\ compPc' = s.pc
     /\ freeCount' = s.count
     /\ macros' = IF a.ok THEN [macros EXCEPT ![compId] = a.s.comp.head] ELSE macros
     /\ taught' = IF a.ok THEN [taught EXCEPT ![compId] = learned \o Bytes(EndCommand)]
                  ELSE taught
     /\ comp' = EmptyQueue(s.comp)
  /\ learning' = FALSE
  /\ learned' = <<>>
  /\ UNCHANGED <<compId, archive>>

\* Mutant of SaveMacros: the free list is not saved.
SaveNoFreeList ==
  /\ learning \in ArchiveWhen
  /\ archive' = [good |-> TRUE, next |-> next, data |-> data, free |-> InitPool.free,
                 freeCount |-> freeCount, macros |-> macros, taught |-> taught]
  /\ UNCHANGED <<pool, compiler, history>>

(* c-mac-save *)
SaveMacros ==
  /\ learning \in ArchiveWhen
  /\ archive' = [good |-> TRUE, next |-> next, data |-> data, free |-> free,
                 freeCount |-> freeCount, macros |-> macros, taught |-> taught]
  /\ UNCHANGED <<pool, compiler, history>>

(* c-mac-restore; refused if the checksum is wrong. *)
RestoreMacros ==
  /\ learning \in ArchiveWhen
  /\ IF archive.good
     THEN /\ next' = archive.next /\ data' = archive.data /\ free' = archive.free
          /\ freeCount' = archive.freeCount /\ macros' = archive.macros
          /\ taught' = archive.taught
     ELSE UNCHANGED <<pool, taught>>
  /\ UNCHANGED <<compiler, archive, learned>>

(* A reset: init-macro.  In the middle of a save it leaves an archive whose*)
(* checksum is wrong.                                                      *)
Reset(midSave) ==
  /\ next' = InitPool.next /\ data' = InitPool.data /\ free' = InitPool.free
  /\ freeCount' = NBlocks
  /\ macros' = [m \in MacroId |-> Null]
  /\ comp' = [head |-> Null, tail |-> Null]
  /\ compPc' = <<Null, 0>>
  /\ learning' = FALSE
  /\ archive' = IF midSave THEN NoArchive ELSE archive
  /\ taught' = [m \in MacroId |-> Undefined]
  /\ learned' = <<>>
  /\ UNCHANGED compId

Next ==
  \/ \E m \in MacroId : StartDef(m)
  \/ \E c \in Commands : Append1(c)
  \/ EndDef
  \/ SaveMacros
  \/ RestoreMacros
  \/ \E midSave \in BOOLEAN : Reset(midSave)

Spec == Init /\ [][Next]_vars
-----------------------------------------------------------------------------
(* Properties. *)

Blocks(b) == Chain(next, b, NBlocks)
FreeBlocks == Blocks(free.head)
CompBlocks == Blocks(comp.head)

Byte == ({c.label : c \in Commands} \cup {"end", "zero"}) \X Nat
Header == [head : Block \cup {Null}, tail : Block \cup {Null}]

TypeOK ==
  /\ next \in [Block -> Block \cup {Null}]
  /\ data \in [Block -> [0..BlockSize - 1 -> Byte]]
  /\ free \in Header /\ comp \in Header
  /\ freeCount \in Nat
  /\ macros \in [MacroId -> Block \cup {Null}]
  /\ compPc \in (Block \cup {Null}) \X (0..BlockSize - 1)
  /\ compId \in MacroId
  /\ learning \in BOOLEAN
  /\ archive.good \in BOOLEAN
  /\ taught \in [MacroId -> Seq(Byte)]
  /\ learned \in Seq(Byte)

(* Every block is in exactly one place: on the free list, in the macro     *)
(* being learned, or in one macro, and there once; none is lost or shared, *)
(* even when a command is refused half-way for want of blocks.             *)
Holder == {<<"free">>, <<"comp">>} \cup ({"macro"} \X MacroId)
Held ==
  [o \in Holder |-> CASE o = <<"free">> -> FreeBlocks
                      [] o = <<"comp">> -> CompBlocks
                      [] OTHER -> Blocks(macros[o[2]])]
Occurrences(held, b) ==
  {x \in Holder \X (1..NBlocks) : x[2] \in DOMAIN held[x[1]] /\ held[x[1]][x[2]] = b}
OneOwner ==
  LET held == Held
  IN  \A b \in Block : Cardinality(Occurrences(held, b)) = 1

(* The count of free blocks in telemetry (mac-free-blocks), kept by adding *)
(* and subtracting at every allocation and release, is the length of the   *)
(* free list, through commands refused half-way, restores and resets.      *)
FreeCounted == freeCount = Len(FreeBlocks)

(* The tail of a queue that is not empty is its last element, so that the  *)
(* next farq-put or farq-append links onto the end.                        *)
TailsLast ==
  /\ free.head # Null => free.tail = Last(FreeBlocks)
  /\ comp.head # Null => comp.tail = Last(CompBlocks)

(* Reading a chain from its start gives exactly the bytes it was taught,   *)
(* then zeros to the end of its last block.                                *)
Stream(b) ==
  LET ch == Blocks(b)
  IN  [i \in 1..Len(ch) * BlockSize |->
         data[ch[(i - 1) \div BlockSize + 1]][(i - 1) % BlockSize]]
Reads(b, code) ==
  LET s == Stream(b)
  IN  /\ Len(code) <= Len(s)
      /\ \A i \in DOMAIN s : s[i] = IF i <= Len(code) THEN code[i] ELSE Zero

(* A macro is what it was taught, and the one being learned is what it has *)
(* been taught so far, whatever was refused on the way.                    *)
MacrosAsTaught ==
  /\ \A m \in MacroId : macros[m] # Null => Reads(macros[m], taught[m])
  /\ learning => Reads(comp.head, learned)

(* Released blocks are reused last, "since it is possible that the macro is*)
(* still running" (macro1.fr:375): the blocks that leave the free list are *)
(* its first ones, and those that join it go behind all that stay.         *)
ReusedLast ==
  [][ (\E c \in Commands : Append1(c)) \/ EndDef =>
        LET was == FreeBlocks
            is == FreeBlocks'
        IN  \E n \in 0..Len(was) :
              /\ IsPrefix(SubSeq(was, n + 1, Len(was)), is)
              /\ \A i \in 1..n : ~Contains(is, was[i]) ]_vars

(* A block of the macro being learned is not on the free list: comp-macro  *)
(* holds "blocks for macro being compiled" (macro1.fr:350) and             *)
(* mac-free-list is the "macro block free list" (macro1.fr:353).           *)
LearnedNotFree ==
  \A i \in DOMAIN CompBlocks, j \in DOMAIN FreeBlocks : CompBlocks[i] # FreeBlocks[j]
=============================================================================
