-------------------------------- MODULE Bus4c --------------------------------
(***************************************************************************)
(* What is between the data path of FRISC 4c and its memory, in            *)
(* src/chips/sim/fsim4c.c: the decoder of addresses with the internal      *)
(* registers and the cache, and the bus interface unit, which counts wait  *)
(* states and lets the data path go on while it writes.  Every phase a of  *)
(* the processor calls Iodecode once; while a stall lasts the data path    *)
(* stands still and keeps abus, dbus and read.                             *)
(*                                                                         *)
(* The cache has Nsets blocks of Nsub cells (256 and 4 in the code).  The  *)
(* address map keeps its order but not its size: memory to Lowtop, the     *)
(* boot ROM, the internal registers, the back door to the tags.            *)
(***************************************************************************)
EXTENDS FriscWord

CONSTANTS Lowtop, Rombase, Iobase, Tagbase, Region, Nsets, Nsub

F4 == INSTANCE Frisc4
B == INSTANCE Frisc4b WITH Unit <- 4

WaitSpecial == 63
Attrib(x, a) == x.attributes[a \div Region]
Waits(x, a) == Attrib(x, a) % 64
Cachable(x, a) == (Attrib(x, a) \div 64) % 2 = 1

-----------------------------------------------------------------------------
(* The cache: a tag and the cells that are present, for every block.       *)

Index(a) == (a \div (4 * Nsub)) % Nsets
Subindex(a) == (a \div 4) % Nsub
Tag(a) == a \div (4 * Nsub * Nsets)
Blockhit(x, a) == x.tagram[Index(a)].tag = Tag(a)
Present(x, a) == Blockhit(x, a) /\ Subindex(a) \in x.tagram[Index(a)].present
Allocblock(x) ==
  [x EXCEPT !.tagram[Index(x.abus)] = [tag |-> Tag(x.abus), present |-> {Subindex(x.abus)}]]
Addtoblock(x) == [x EXCEPT !.tagram[Index(x.abus)].present = @ \cup {Subindex(x.abus)}]
Deallocblock(x) == [x EXCEPT !.tagram[Index(x.abus)] = [tag |-> Tag(x.abus), present |-> {}]]
Datacell(a) == (a \div 4) % (Nsets * Nsub)
Cachedata(x) == x.dataram[Datacell(x.abus)]

(* A store of a byte has the byte in all four places of the bus.           *)
Byte == 2^(W \div 4)
Masked(x, old) ==
  IF x.bytemode THEN old + (B!Byteof(x.dbus, x.abus) - B!Byteof(old, x.abus)) * B!Weight(x.abus)
  ELSE x.dbus

-----------------------------------------------------------------------------
(* The bus interface unit.                                                 *)

Fetchexternal(x, a) == IF a <= Lowtop THEN x.mem[a \div 4] ELSE 0
Storeexternal(x, a, v) == IF a <= Lowtop THEN [x EXCEPT !.mem[a \div 4] = v] ELSE x
Storeexternalbyte(x, a, v) == IF a <= Lowtop THEN B!Storeexternalbyte(x, a, v) ELSE x

Startexternal(x) ==
  [x EXCEPT !.portaddr = x.abus,
            !.portio = IF x.read THEN "RD" ELSE IF x.bytemode THEN "WRBYTE" ELSE "WR",
            !.portvalue = IF x.read THEN @ ELSE x.dbus]

Endexternal(x) ==
  CASE x.portio = "WR" -> Storeexternal(x, x.portaddr, x.portvalue)
    [] x.portio = "WRBYTE" -> Storeexternalbyte(x, x.portaddr, x.portvalue)
    [] x.portio = "RD" -> [x EXCEPT !.portvalue = Fetchexternal(x, x.portaddr)]

Unit(x, state, stall) == [x EXCEPT !.biu = state, !.biustall = stall]

Biu(x, external) ==
  CASE x.biu = "idle" -> Unit(x, IF external THEN "first" ELSE "idle", external)
    [] x.biu = "first" ->
         LET y == Startexternal(x) IN
         IF ~external THEN Unit(y, "idle", FALSE)
         ELSE IF Waits(x, x.abus) = WaitSpecial THEN Unit(Endexternal(y), "first", FALSE)
         ELSE Unit([y EXCEPT !.count = Waits(x, x.abus) + 1],
                   IF x.read THEN "readcount" ELSE "writecount", x.read)
    [] x.biu = "readcount" ->
         IF x.count > 1 THEN Unit([x EXCEPT !.count = @ - 1], "readcount", TRUE)
         ELSE Unit(Endexternal([x EXCEPT !.count = 0]), "first", FALSE)
    [] x.biu = "writecount" ->
         IF x.count > 1 THEN Unit([x EXCEPT !.count = @ - 1], "writecount", external)
         ELSE Unit(Endexternal([x EXCEPT !.count = 0]), "first", external)

-----------------------------------------------------------------------------
(* The internal registers, at Iobase.                                      *)

IORSP == Iobase
IOPSP == Iobase + 4
IOSCC == Iobase + 8
IOMASK == Iobase + 16
IOMODE == Iobase + 20
IOEDGE == Iobase + 24
IOLEVL == Iobase + 28
IOATTR == Iobase + 64
Attribute(a) == (a - IOATTR) \div 4

Internaliofetch(x, a) ==
  CASE a >= IOATTR -> x.attributes[Attribute(a)]
    [] a = IORSP -> x.r.sp
    [] a = IOPSP -> x.p.sp
    [] a = IOSCC -> F4!Sswvalue(x)
    [] a = IOMASK -> F4!Wordof(x.mask)
    [] a = IOMODE -> F4!Wordof(x.mode)
    [] a = IOEDGE -> F4!Wordof(x.edge)
    [] a = IOLEVL -> F4!Wordof(x.level)

Internaliostore(x, a, v) ==
  CASE a >= IOATTR -> [x EXCEPT !.attributes[Attribute(a)] = v]
    [] a = IORSP -> [x EXCEPT !.r.sp = v]
    [] a = IOPSP -> [x EXCEPT !.p.sp = v]
    [] a = IOSCC -> [F4!Writereg([x EXCEPT !.cp = 1], "U2", v) EXCEPT !.cp = x.cp]
    [] a = IOMASK -> [x EXCEPT !.mask = F4!Linesof(v)]
    [] a = IOMODE -> [x EXCEPT !.mode = F4!Linesof(v)]
    [] a = IOEDGE -> [x EXCEPT !.edge = F4!Linesof(v)]
    [] a = IOLEVL -> [x EXCEPT !.level = F4!Linesof(v)]
    [] OTHER -> x

-----------------------------------------------------------------------------
(* The decoder, with the states of a cache access.                         *)

Cached(x) == x.cacheenabled /\ Cachable(x, x.abus)
Cachehit(x) == Cached(x) /\ x.read /\ Present(x, x.abus)

(* An access to memory, when the bus has taken it up as y.                 *)
Memoryaccess(x, y) ==
  CASE Cachehit(x) -> [y EXCEPT !.dbus = Cachedata(x)]
    [] Cached(x) /\ x.read /\ ~Present(x, x.abus) ->
         [y EXCEPT !.cachestall = TRUE, !.dbus = y.portvalue,
                   !.iostate = IF Blockhit(x, x.abus) THEN "newdata" ELSE "newblock"]
    [] Cached(x) /\ ~x.read /\ Present(x, x.abus) ->
         [y EXCEPT !.cachestall = TRUE, !.oldcachedata = Cachedata(x),
                   !.iostate = IF y.biustall THEN "replacedatawait" ELSE "replacedata"]
    [] OTHER -> IF x.read THEN [y EXCEPT !.dbus = y.portvalue] ELSE y

Internalaccess(x, y) ==
  LET a == x.abus IN
  CASE a >= Iobase /\ a < Tagbase ->
         IF x.read THEN [y EXCEPT !.dbus = Internaliofetch(y, a)] ELSE Internaliostore(y, a, x.dbus)
    [] a >= Tagbase ->
         [y EXCEPT !.cachestall = TRUE, !.iostate = "invalidate",
                   !.dbus = IF x.read THEN y.portvalue ELSE @]
    [] a >= Rombase /\ a < Iobase /\ x.ibrenable ->
         IF x.read THEN [y EXCEPT !.dbus = x.rom[(a - Rombase) \div 4]] ELSE y
    [] OTHER -> IF x.read THEN [y EXCEPT !.dbus = 1] ELSE y

Local(x) ==
  IF x.abus <= Lowtop THEN Memoryaccess(x, Biu(x, ~Cachehit(x)))
  ELSE Internalaccess(x, Biu(x, FALSE))

(* A block or a cell of it that is read, until the bus has it.             *)
Newcell(x, y) ==
  [y EXCEPT !.iostate = IF y.biustall THEN @ ELSE "local",
            !.dataram[Datacell(x.abus)] = y.portvalue, !.dbus = y.portvalue]

ReplacedNot(x, y) == y
Replaced(x, y) == [y EXCEPT !.dataram[Datacell(x.abus)] = Masked(x, x.oldcachedata)]

(* The tags change before the bus goes on.                                 *)
Retagged(x) ==
  CASE x.iostate = "newblock" -> Allocblock(x)
    [] x.iostate \in {"newdata", "replacedata", "replacedatawait"} -> Addtoblock(x)
    [] x.iostate = "invalidate" -> Deallocblock(x)

Nonlocal(x, y) ==
  CASE x.iostate \in {"newblock", "newdata"} -> Newcell(x, y)
    [] x.iostate = "replacedata" -> [Replaced(x, y) EXCEPT !.iostate = "local"]
    [] x.iostate = "replacedatawait" ->
         [Replaced(x, y) EXCEPT !.iostate = IF y.biustall THEN @ ELSE "local"]
    [] x.iostate = "invalidate" -> [y EXCEPT !.iostate = "local"]

Iodecode(x0) ==
  LET x == [x0 EXCEPT !.cachestall = FALSE]
  IN  IF x.iostate = "local" THEN Local(x)
      ELSE Nonlocal(x, Biu(Retagged(x), x.iostate \in {"newblock", "newdata", "replacedatawait"}))

Stalled(x) == x.biustall \/ x.cachestall

(* Memory with the write that the bus still has to do.                     *)
Settled(x) == IF x.biu = "writecount" THEN Endexternal(x).mem ELSE x.mem

=============================================================================
