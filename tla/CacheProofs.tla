----------------------------- MODULE CacheProofs -----------------------------
(***************************************************************************)
(* Proofs about the cache and the bus of FRISC 4c: for every size of the   *)
(* cache, number of wait states and order of accesses, a cycle keeps the   *)
(* cache in agreement with memory, as long as no store goes around it.     *)
(***************************************************************************)
EXTENDS FriscCache, FiniteSetTheorems, WellFoundedInduction, TLAPS

-----------------------------------------------------------------------------
(* What an operator of the simulator leaves alone.                         *)

Kept(x, y, S) == DOMAIN y = DOMAIN x /\ \A f \in S : y[f] = x[f]

CacheFields == {"mem", "tagram", "dataram", "iostate", "biu", "count", "biustall", "cachestall",
                "oldcachedata", "portaddr", "portio", "portvalue"}
AccessFields == {"abus", "dbus", "read", "bytemode"}
ControlFields == {"state", "nextstate", "ir", "oldir", "writeback", "phase"}
SwitchFields == {"attributes", "cacheenabled", "cp"}
BusFields == CacheFields \cup AccessFields
Fields == BusFields \cup ControlFields \cup SwitchFields \cup {"udr"}

LEMMA KeptTrans ==
  ASSUME NEW x, NEW y, NEW z, NEW S, NEW T, Kept(x, y, S), Kept(y, z, T)
  PROVE  Kept(x, z, S \cap T)
BY DEF Kept

LEMMA KeptLess ==
  ASSUME NEW x, NEW y, NEW S, NEW T, T \subseteq S, Kept(x, y, S)
  PROVE  Kept(x, y, T)
BY DEF Kept

-----------------------------------------------------------------------------
(* FRISC 4c: the data path does not touch the cache and the bus.           *)

States == {"INT", "EXEC", "LOAD", "STORE", "SQUASH", "ROVER1", "ROVER2", "RUNDER1", "RUNDER2",
           "POVER1", "POVER2", "PUNDER1", "PUNDER2"}
Registering == {"Aluwriteback", "Shiftwriteback", "Loadwriteback"}
Writebacks == Registering \cup {"Nop", "Aluwritebacktor", "Aluwritebacktos",
                                "Rsunderflowwriteback", "Psunderflowwriteback"}
LEMMA WriteregKeeps ==
  ASSUME NEW x, NEW reg \in Regs, NEW v, DOMAIN x.udr = Coprocessor, Fields \subseteq DOMAIN x
  PROVE  /\ Kept(x, F4c!Writereg(x, reg, v), BusFields \cup ControlFields)
         /\ DOMAIN F4c!Writereg(x, reg, v).udr = Coprocessor
<1> USE DEF Kept, Fields, BusFields, CacheFields, AccessFields, ControlFields, SwitchFields
<1>1. /\ DOMAIN F4c!StackRegs = {"S0", "S1", "S2", "S3"}
      /\ DOMAIN F4c!ReturnRegs = {"R0", "R1", "R2", "R3"}
  BY DEF F4c!StackRegs, F4c!ReturnRegs
<1>2. CASE reg \in DOMAIN F4c!StackRegs
  <2>1. F4c!Writereg(x, reg, v) = [x EXCEPT !.p = F4c!Put(@, F4c!StackRegs[reg], v)]
    BY <1>1, <1>2 DEF F4c!Writereg, Coprocessor
  <2> QED
    BY <2>1
<1>3. CASE reg \in DOMAIN F4c!ReturnRegs
  <2>1. F4c!Writereg(x, reg, v) = [x EXCEPT !.r = F4c!Put(@, F4c!ReturnRegs[reg], v)]
    BY <1>1, <1>3 DEF F4c!Writereg, Coprocessor
  <2> QED
    BY <2>1
<1>4. CASE reg \in {"IAR", "ZERO"}
  BY <1>1, <1>4 DEF F4c!Writereg, Coprocessor
<1>5. CASE reg = "PSW"
  <2>1. \E cp, cache, ie, ibr : F4c!Writereg(x, reg, v) =
          [x EXCEPT !.cp = cp, !.cacheenabled = cache, !.ie = ie, !.actualie = ie, !.ibrenable = ibr]
    BY <1>1, <1>5 DEF F4c!Writereg, Coprocessor
  <2> QED
    BY <2>1
<1>6. CASE reg = "Y"
  BY <1>1, <1>6 DEF F4c!Writereg, Coprocessor
<1>7. CASE reg \in Coprocessor
  <2>1. F4c!Writereg(x, reg, v) = [x EXCEPT !.udr[reg] = v]
    BY <1>1, <1>7 DEF F4c!Writereg, Coprocessor
  <2> QED
    BY <2>1
<1> QED
  BY <1>2, <1>3, <1>4, <1>5, <1>6, <1>7 DEF Regs

LEMMA WritebackKeeps ==
  ASSUME NEW x, DOMAIN x.udr = Coprocessor, Fields \subseteq DOMAIN x,
         x.writeback \in Writebacks, x.writeback \in Registering => x.oldir.reg2 \in Regs
  PROVE  /\ Kept(x, F4c!Writeback(x), BusFields \cup ControlFields)
         /\ DOMAIN F4c!Writeback(x).udr = Coprocessor
<1>1. CASE x.writeback \in Registering
  <2>1. \E v : F4c!Writeback(x) = F4c!Writereg(x, x.oldir.reg2, v)
    BY <1>1 DEF F4c!Writeback, F4c!Aluwriteback, F4c!Shiftwriteback, F4c!Loadwriteback, Registering
  <2> QED
    BY <1>1, <2>1, WriteregKeeps
<1>2. CASE x.writeback \notin Registering
  <2>1. \/ F4c!Writeback(x) = x
        \/ \E s : F4c!Writeback(x) = [x EXCEPT !.r = s]
        \/ \E s : F4c!Writeback(x) = [x EXCEPT !.p = s]
    BY <1>2 DEF F4c!Writeback, F4c!Aluwritebacktor, F4c!Aluwritebacktos, F4c!Rsunderflowwriteback,
                F4c!Psunderflowwriteback, Writebacks, Registering
  <2> QED
    BY <2>1 DEF Kept, Fields, BusFields, CacheFields, AccessFields, ControlFields, SwitchFields
<1> QED
  BY <1>1, <1>2

LEMMA PhiaKeeps ==
  ASSUME NEW x, Fields \subseteq DOMAIN x, x.state \in States, Legal4c(x.ir)
  PROVE  Kept(x, F4c!Cyclephia(x), CacheFields \cup ControlFields \cup {"udr"})
<1> DEFINE S == CacheFields \cup ControlFields \cup {"udr"}
<1>1. Kept(x, F4c!Intphia(x), S)
  BY DEF F4c!Intphia, F4c!Reading, F4c!Interruptvector, F4c!F4!Interruptvector,
         Kept, Fields, BusFields, CacheFields, AccessFields, ControlFields, SwitchFields
<1>2. Kept(x, F4c!Execphia(x), S)
  <2> DEFINE y == [F4c!Reading(x, F4c!Asrc(x)) EXCEPT !.bbus = F4c!Bsrc(x), !.tbus = F4c!Tsrc(x)]
  <2>1. Kept(x, y, S) /\ y.ir = x.ir
    BY DEF F4c!Reading, Kept, Fields, BusFields, CacheFields, AccessFields, ControlFields, SwitchFields
  <2>2. F4c!Execphia(x) = F4c!Stackop(y)
    BY DEF F4c!Execphia
  <2> HIDE DEF y
  <2>3. \/ F4c!Stackop(y) = y
        \/ \E s : F4c!Stackop(y) = [y EXCEPT !.r = s]
        \/ \E s : F4c!Stackop(y) = [y EXCEPT !.p = s]
        \/ \E s, t : F4c!Stackop(y) = [y EXCEPT !.p = s, !.r = t]
    BY <2>1 DEF F4c!Stackop, Legal4c, F4c!Flows, F4c!Operands, F4c!Loads, F4c!Stores
  <2>4. Kept(y, F4c!Stackop(y), S)
    BY <2>1, <2>3 DEF Kept, Fields, BusFields, CacheFields, AccessFields, ControlFields, SwitchFields
  <2> QED
    BY <2>1, <2>2, <2>4 DEF Kept
<1>3. Kept(x, F4c!Loadphia(x), S) /\ Kept(x, F4c!Squashphia(x), S)
  BY DEF F4c!Loadphia, F4c!Squashphia, F4c!Reading,
         Kept, Fields, BusFields, CacheFields, AccessFields, ControlFields, SwitchFields
<1>4. Kept(x, F4c!Storephia(x), S)
  <2>1. \E a, b, v : F4c!Storephia(x) =
          [x EXCEPT !.abus = a, !.read = FALSE, !.bytemode = b, !.dbus = v]
    BY DEF F4c!Storephia
  <2> QED
    BY <2>1 DEF Kept, Fields, BusFields, CacheFields, AccessFields, ControlFields, SwitchFields
<1>5. /\ Kept(x, F4c!Rsover1phia(x), S) /\ Kept(x, F4c!Rsunder1phia(x), S)
      /\ Kept(x, F4c!Psover1phia(x), S) /\ Kept(x, F4c!Psunder1phia(x), S)
  BY DEF F4c!Rsover1phia, F4c!Rsunder1phia, F4c!Psover1phia, F4c!Psunder1phia, F4c!Reading,
         Kept, Fields, BusFields, CacheFields, AccessFields, ControlFields, SwitchFields
<1>6. Kept(x, F4c!Rsover2phia(x), S) /\ Kept(x, F4c!Psover2phia(x), S)
  BY DEF F4c!Rsover2phia, F4c!Psover2phia, F4c!Writing,
         Kept, Fields, BusFields, CacheFields, AccessFields, ControlFields, SwitchFields
<1>7. Kept(x, F4c!Rsunder2phia(x), S) /\ Kept(x, F4c!Psunder2phia(x), S)
  BY DEF F4c!Rsunder2phia, F4c!Psunder2phia, F4c!Reading,
         Kept, Fields, BusFields, CacheFields, AccessFields, ControlFields, SwitchFields
<1> QED
  BY <1>1, <1>2, <1>3, <1>4, <1>5, <1>6, <1>7 DEF F4c!Cyclephia, States

LEMMA NextstateEffect ==
  ASSUME NEW x, Fields \subseteq DOMAIN x, x.state \in States
  PROVE  /\ Kept(x, F4c!Nextstate(x), Fields \ {"nextstate"})
         /\ F4c!Nextstate(x).nextstate \in States
         /\ F4c!Nextstate(x).nextstate = "LOAD" => x.state = "EXEC" /\ x.ir.type \in F4c!Loads
<1> USE DEF Kept, Fields, BusFields, CacheFields, AccessFields, ControlFields, SwitchFields
<1>1. /\ Kept(x, F4c!Attention(x), Fields \ {"nextstate"})
      /\ F4c!Attention(x).nextstate \in States \ {"LOAD"}
  <2>1. \/ \E s \in States \ {"LOAD"} : F4c!Attention(x) = [x EXCEPT !.nextstate = s]
        \/ \E v : F4c!Attention(x) = [[x EXCEPT !.nextstate = "INT"] EXCEPT !.vector = v]
    BY DEF F4c!Attention, States
  <2> QED
    BY <2>1 DEF States
<1>2. /\ DOMAIN F4c!Second = {"ROVER1", "RUNDER1", "POVER1", "PUNDER1"}
      /\ \A s \in DOMAIN F4c!Second : F4c!Second[s] \in States \ {"LOAD"}
  BY DEF F4c!Second, States
<1>3. CASE x.state = "EXEC" /\ x.ir.type \in F4c!Loads
  <2>1. F4c!Nextstate(x) = [x EXCEPT !.nextstate = "LOAD"]
    BY <1>2, <1>3 DEF F4c!Nextstate, F4c!Loads, F4c!Stores
  <2> QED
    BY <1>3, <2>1 DEF States
<1>4. CASE x.state = "EXEC" /\ x.ir.type \in F4c!Stores
  <2>1. F4c!Nextstate(x) = [x EXCEPT !.nextstate = "STORE"]
    BY <1>2, <1>4 DEF F4c!Nextstate, F4c!Loads, F4c!Stores
  <2> QED
    BY <1>4, <2>1 DEF States
<1>5. CASE x.state = "EXEC" /\ x.ir.type = "QBRANCH" /\ x.flag = 1
  <2>1. F4c!Nextstate(x) = [x EXCEPT !.nextstate = "SQUASH"]
    BY <1>2, <1>5 DEF F4c!Nextstate, F4c!Loads, F4c!Stores
  <2> QED
    BY <1>5, <2>1 DEF States
<1>6. CASE x.state \in DOMAIN F4c!Second
  <2>1. F4c!Nextstate(x) = [x EXCEPT !.nextstate = F4c!Second[x.state]]
    BY <1>2, <1>6 DEF F4c!Nextstate
  <2> QED
    BY <1>2, <1>6, <2>1
<1>7. CASE /\ ~(x.state = "EXEC" /\ x.ir.type \in F4c!Loads \cup F4c!Stores)
           /\ ~(x.state = "EXEC" /\ x.ir.type = "QBRANCH" /\ x.flag = 1)
           /\ x.state \notin DOMAIN F4c!Second
  <2>1. F4c!Nextstate(x) = F4c!Attention(x)
    BY <1>7 DEF F4c!Nextstate
  <2> QED
    BY <1>1, <2>1
<1> QED
  BY <1>3, <1>4, <1>5, <1>6, <1>7

(* What the data path keeps right about itself: a result that waits to be  *)
(* written back has a register, also when it comes from a load.            *)
Control(x) ==
  /\ Fields \subseteq DOMAIN x /\ x.phase = 1
  /\ x.state \in States /\ x.nextstate \in States /\ x.writeback \in Writebacks
  /\ DOMAIN x.udr = Coprocessor
  /\ x.writeback \in Registering => x.oldir.reg2 \in Regs
  /\ IF F4c!Stalled(x)
     THEN /\ x.nextstate = "LOAD" => x.state = "EXEC" /\ x.ir.type \in F4c!Loads
          /\ x.state = "LOAD" => x.oldir.reg2 \in Regs
     ELSE x.nextstate = "LOAD" => x.oldir.reg2 \in Regs

(* In the middle of a cycle, stalled or not.                               *)
Halfway(x) ==
  /\ Fields \subseteq DOMAIN x /\ x.phase = 1
  /\ x.state \in States /\ x.nextstate \in States /\ x.writeback \in Writebacks
  /\ DOMAIN x.udr = Coprocessor
  /\ x.writeback \in Registering => x.oldir.reg2 \in Regs
  /\ x.nextstate = "LOAD" => x.state = "EXEC" /\ x.ir.type \in F4c!Loads
  /\ x.state = "LOAD" => x.oldir.reg2 \in Regs

LEMMA DpphiaEffect ==
  ASSUME NEW x, Control(x), ~F4c!Stalled(x), Legal4c(x.ir)
  PROVE  /\ Kept(x, F4c!Dpphia(x), CacheFields \cup {"ir"})
         /\ Halfway(F4c!Dpphia(x))
<1> DEFINE a == [x EXCEPT !.state = x.nextstate]
           b == F4c!Writeback(a)
           c == F4c!Cyclephia(b)
           S == BusFields \cup ControlFields
           T == CacheFields \cup ControlFields \cup {"udr"}
           U == CacheFields \cup (ControlFields \ {"state", "nextstate"})
<1>1. F4c!Dpphia(x) = F4c!Nextstate(c)
  BY DEF F4c!Dpphia
<1>2. Kept(x, a, Fields \ {"state"}) /\ a.state = x.nextstate
  BY DEF Control, Kept, Fields, BusFields, CacheFields, AccessFields, ControlFields, SwitchFields
<1> HIDE DEF a
<1>3. /\ Fields \subseteq DOMAIN a /\ DOMAIN a.udr = Coprocessor
      /\ a.writeback = x.writeback /\ a.oldir = x.oldir
  BY <1>2 DEF Control, Kept, Fields, BusFields, CacheFields, AccessFields, ControlFields, SwitchFields
<1>4. Kept(a, b, S) /\ DOMAIN b.udr = Coprocessor
  BY <1>3, WritebackKeeps DEF Control
<1> HIDE DEF b
<1>5. Fields \subseteq DOMAIN b /\ b.state = x.nextstate /\ b.ir = x.ir
  BY <1>2, <1>3, <1>4 DEF Kept, Fields, BusFields, CacheFields, AccessFields, ControlFields, SwitchFields
<1>6. Kept(b, c, T)
  BY <1>5, PhiaKeeps DEF Control
<1> HIDE DEF c
<1>7. Fields \subseteq DOMAIN c /\ c.state = x.nextstate
  BY <1>5, <1>6 DEF Kept, ControlFields
<1>8. /\ Kept(c, F4c!Nextstate(c), Fields \ {"nextstate"})
      /\ F4c!Nextstate(c).nextstate \in States
      /\ F4c!Nextstate(c).nextstate = "LOAD" => c.state = "EXEC" /\ c.ir.type \in F4c!Loads
  BY <1>7, NextstateEffect DEF Control
<1>9. Kept(x, F4c!Dpphia(x), U) /\ F4c!Dpphia(x).state = x.nextstate
  BY <1>1, <1>2, <1>4, <1>5, <1>6, <1>7, <1>8
     DEF Kept, Fields, BusFields, CacheFields, AccessFields, ControlFields, SwitchFields
<1>10. DOMAIN F4c!Dpphia(x).udr = Coprocessor
  BY <1>1, <1>4, <1>6, <1>8 DEF Kept, Fields
<1>11. c.ir = x.ir
  BY <1>5, <1>6 DEF Kept, ControlFields
<1>12. Halfway(F4c!Dpphia(x))
  BY <1>1, <1>7, <1>8, <1>9, <1>10, <1>11
     DEF Halfway, Control, Kept, Fields, BusFields, CacheFields, AccessFields, ControlFields, SwitchFields
<1> QED
  BY <1>9, <1>12 DEF Kept, CacheFields, ControlFields

LEMMA PhibKeeps ==
  ASSUME NEW x, Fields \subseteq DOMAIN x, x.state \in States \ {"EXEC"},
         x.writeback \in Writebacks, x.state = "LOAD" => x.oldir.reg2 \in Regs
  PROVE  /\ Kept(x, F4c!Dpphib(x), BusFields \cup SwitchFields \cup {"state", "nextstate", "phase", "udr", "oldir"})
         /\ F4c!Dpphib(x).writeback \in Writebacks
         /\ F4c!Dpphib(x).writeback \in Registering => x.oldir.reg2 \in Regs
<1> DEFINE S == BusFields \cup SwitchFields \cup {"state", "nextstate", "phase", "udr", "oldir"}
           Good(y) == /\ Kept(x, y, S) /\ y.writeback \in Writebacks
                      /\ y.writeback \in Registering => x.oldir.reg2 \in Regs
<1>1. ASSUME NEW y, Kept(x, y, S), NEW t, NEW w \in Writebacks,
             w \in Registering => x.oldir.reg2 \in Regs
      PROVE  /\ Good(F4c!Holding(y, t, w)) /\ DOMAIN F4c!Holding(y, t, w) = DOMAIN x
  BY <1>1 DEF F4c!Holding, Kept, Fields, BusFields, CacheFields, AccessFields, ControlFields, SwitchFields
<1>2. Kept(x, x, S)
  BY DEF Kept
<1>3. /\ "Nop" \in Writebacks \ Registering /\ "Aluwritebacktor" \in Writebacks \ Registering
      /\ "Rsunderflowwriteback" \in Writebacks \ Registering
      /\ "Psunderflowwriteback" \in Writebacks \ Registering
      /\ "Loadwriteback" \in Writebacks
  BY DEF Writebacks, Registering
<1>4. \A v : Kept(x, [x EXCEPT !.dhold = v], S)
  BY DEF Kept, BusFields, CacheFields, AccessFields, SwitchFields
<1>5. CASE x.state = "INT"
  <2>1. \E a, b, c : F4c!Dpphib(x) =
          [F4c!Holding(x, "aluout", "Aluwritebacktor") EXCEPT !.pc = a, !.aluout = b, !.ir = c]
    BY <1>5 DEF F4c!Dpphib, F4c!Intphib
  <2>2. Good(F4c!Holding(x, "aluout", "Aluwritebacktor"))
    BY <1>1, <1>2, <1>3
  <2> QED
    BY <2>1, <2>2 DEF Kept, BusFields, CacheFields, AccessFields, SwitchFields
<1>6. CASE x.state = "LOAD"
  <2> DEFINE h == F4c!Holding(x, F4c!Forward(x.oldir, "dhold"), "Loadwriteback")
  <2>1. \E v : F4c!Dpphib(x) = [h EXCEPT !.dhold = v]
    BY <1>6 DEF F4c!Dpphib, F4c!Loadphib
  <2>2. Good(h)
    BY <1>1, <1>2, <1>3, <1>6
  <2> HIDE DEF h
  <2> QED
    BY <2>1, <2>2 DEF Kept, BusFields, CacheFields, AccessFields, SwitchFields
<1>7. CASE x.state = "SQUASH"
  <2>1. \E a, b : F4c!Dpphib(x) = [F4c!Holding(x, "hold", "Nop") EXCEPT !.pc = a, !.ir = b]
    BY <1>7 DEF F4c!Dpphib, F4c!Squashphib
  <2>2. Good(F4c!Holding(x, "hold", "Nop"))
    BY <1>1, <1>2, <1>3
  <2> QED
    BY <2>1, <2>2 DEF Kept, BusFields, CacheFields, AccessFields, SwitchFields
<1>8. CASE x.state \in {"STORE", "ROVER2", "RUNDER2", "POVER2", "PUNDER2"}
  <2>1. \E w \in Writebacks \ Registering :
          F4c!Dpphib(x) = F4c!Holding([x EXCEPT !.dhold = x.dbus], "hold", w)
    BY <1>3, <1>8 DEF F4c!Dpphib, F4c!Storephib, F4c!Rsover2phib, F4c!Rsunder2phib,
                      F4c!Psover2phib, F4c!Psunder2phib
  <2>2. \A w \in Writebacks \ Registering : Good(F4c!Holding([x EXCEPT !.dhold = x.dbus], "hold", w))
    BY <1>1, <1>4
  <2> QED
    BY <2>1, <2>2
<1>9. CASE x.state \in {"ROVER1", "POVER1"}
  <2> DEFINE h == F4c!Holding(x, "hold", "Nop")
  <2>1. Good(h)
    BY <1>1, <1>2, <1>3
  <2>2. CASE x.state = "ROVER1"
    <3>1. \E a, b, c : F4c!Dpphib(x) = [h EXCEPT !.r = a, !.aluout = b, !.dhold = c]
      BY <2>2 DEF F4c!Dpphib, F4c!Rsover1phib
    <3> HIDE DEF h
    <3> QED
      BY <2>1, <3>1 DEF Kept, BusFields, CacheFields, AccessFields, SwitchFields
  <2>3. CASE x.state = "POVER1"
    <3>1. \E a, b, c : F4c!Dpphib(x) = [h EXCEPT !.p = a, !.aluout = b, !.dhold = c]
      BY <2>3 DEF F4c!Dpphib, F4c!Psover1phib
    <3> HIDE DEF h
    <3> QED
      BY <2>1, <3>1 DEF Kept, BusFields, CacheFields, AccessFields, SwitchFields
  <2> QED
    BY <1>9, <2>2, <2>3
<1>10. CASE x.state \in {"RUNDER1", "PUNDER1"}
  <2>1. \/ \E s, h, a, b : F4c!Dpphib(x) =
              [x EXCEPT !.r = s, !.hold = h, !.torptr = "hold", !.writeback = "Nop",
                        !.aluout = a, !.dhold = b]
        \/ \E s, h, a, b : F4c!Dpphib(x) =
              [x EXCEPT !.p = s, !.hold = h, !.torptr = "hold", !.writeback = "Nop",
                        !.aluout = a, !.dhold = b]
    BY <1>10 DEF F4c!Dpphib, F4c!Rsunder1phib, F4c!Psunder1phib
  <2> QED
    BY <1>3, <2>1 DEF Kept, Fields, BusFields, CacheFields, AccessFields, ControlFields, SwitchFields
<1> QED
  BY <1>5, <1>6, <1>7, <1>8, <1>9, <1>10 DEF States

LEMMA ExecphibKeeps ==
  ASSUME NEW x, Fields \subseteq DOMAIN x, Legal4c(x.ir)
  PROVE  /\ Kept(x, F4c!Execphib(x), BusFields \cup SwitchFields \cup {"state", "nextstate", "phase", "udr"})
         /\ F4c!Execphib(x).oldir = x.ir
         /\ F4c!Execphib(x).writeback \in Writebacks
         /\ F4c!Execphib(x).writeback \in Registering => x.ir.type \in F4c!Operands
<1> DEFINE S == BusFields \cup SwitchFields \cup {"state", "nextstate", "phase", "udr"}
           h == F4c!Execcleanup(x)
<1>1. \E t, w : /\ h = F4c!Holding(x, t, w) /\ w \in Writebacks
                /\ w \in Registering => x.ir.type \in F4c!Operands
  BY DEF F4c!Execcleanup, Legal4c, F4c!Operands, F4c!Flows, F4c!Loads, F4c!Stores,
         Writebacks, Registering
<1>2. /\ Kept(x, h, S \cup {"oldir", "ir"}) /\ h.writeback \in Writebacks
      /\ h.writeback \in Registering => x.ir.type \in F4c!Operands
  BY <1>1 DEF F4c!Holding, Kept, Fields, BusFields, CacheFields, AccessFields, ControlFields, SwitchFields
<1>3. \E a, b, c, d, e : F4c!Execphib(x) =
        [h EXCEPT !.aluout = a, !.y = b, !.barrelout = c, !.flag = d, !.pc = e,
                  !.oldir = x.ir, !.ir = x.dbus]
  BY DEF F4c!Execphib, F4c!Executed
<1> HIDE DEF h
<1> QED
  BY <1>2, <1>3 DEF Kept, Fields, BusFields, CacheFields, AccessFields, ControlFields, SwitchFields

LEMMA DpphibEffect ==
  ASSUME NEW x, Halfway(x), ~F4c!Stalled(x), Legal4c(x.ir)
  PROVE  Kept(x, F4c!Dpphib(x), BusFields \cup SwitchFields) /\ Control(F4c!Dpphib(x))
<1>1. CASE x.state = "EXEC"
  <2> DEFINE y == F4c!Execphib(x)
  <2>1. F4c!Dpphib(x) = y
    BY <1>1 DEF F4c!Dpphib
  <2>2. /\ Kept(x, y, BusFields \cup SwitchFields \cup {"state", "nextstate", "phase", "udr"})
        /\ y.oldir = x.ir /\ y.writeback \in Writebacks
        /\ y.writeback \in Registering => x.ir.type \in F4c!Operands
    BY ExecphibKeeps DEF Halfway
  <2> HIDE DEF y
  <2>3. Kept(x, y, BusFields \cup SwitchFields) /\ ~F4c!Stalled(y)
    BY <2>2 DEF Kept, F4c!Stalled, BusFields, CacheFields
  <2>4. Control(y)
    BY <2>2, <2>3 DEF Control, Halfway, Kept, Legal4c, F4c!Operands
  <2> QED
    BY <2>1, <2>3, <2>4
<1>2. CASE x.state # "EXEC"
  <2> DEFINE y == F4c!Dpphib(x)
  <2>1. /\ Kept(x, y, BusFields \cup SwitchFields \cup {"state", "nextstate", "phase", "udr", "oldir"})
        /\ y.writeback \in Writebacks
        /\ y.writeback \in Registering => x.oldir.reg2 \in Regs
    BY <1>2, PhibKeeps DEF Halfway
  <2> HIDE DEF y
  <2>2. Kept(x, y, BusFields \cup SwitchFields) /\ ~F4c!Stalled(y)
    BY <2>1 DEF Kept, F4c!Stalled, BusFields, CacheFields
  <2>3. Control(y)
    BY <1>2, <2>1, <2>2 DEF Control, Halfway, Kept
  <2> QED
    BY <2>2, <2>3 DEF y
<1> QED
  BY <1>1, <1>2

LEMMA StalledControl ==
  ASSUME NEW x, F4c!Stalled(x)
  PROVE  Control(x) <=> Halfway(x)
BY DEF Control, Halfway

-----------------------------------------------------------------------------
(* FRISC 4c: the bus interface unit.                                       *)

Bius == {"idle", "first", "readcount", "writecount"}
Portios == {"RD", "WR", "WRBYTE"}

(* Only a read makes the unit count with the processor standing still.     *)
Bus(x) ==
  /\ x.biu \in Bius /\ x.portio \in Portios
  /\ 0 .. Lowtop \div 4 \subseteq DOMAIN x.mem
  /\ x.biu = "readcount" => x.biustall /\ x.read /\ x.portio = "RD" /\ x.portaddr = x.abus

(* Memory after an access of the given kind has ended.                     *)
Stored(mem, io, a, v) ==
  IF io = "WR" /\ a <= Lowtop THEN [mem EXCEPT ![a \div 4] = v]
  ELSE IF io = "WRBYTE" /\ a <= Lowtop /\ a \div 4 \in DOMAIN mem
  THEN [mem EXCEPT ![a \div 4] =
          @ + ((v % F4c!B!Byte) - F4c!B!Byteof(@, a)) * F4c!B!Weight(a)]
  ELSE mem

LEMMA EndEffect ==
  ASSUME NEW x, Fields \subseteq DOMAIN x, x.portio \in Portios
  PROVE  /\ Kept(x, F4c!Endexternal(x), Fields \ {"mem", "portvalue"})
         /\ F4c!Endexternal(x).mem = Stored(x.mem, x.portio, x.portaddr, x.portvalue)
         /\ x.portio = "RD" => F4c!Endexternal(x).portvalue = F4c!Fetchexternal(x, x.portaddr)
<1> USE DEF Kept, Fields, BusFields, CacheFields, AccessFields, ControlFields, SwitchFields
<1>1. CASE x.portio = "WR"
  <2>1. F4c!Endexternal(x) = F4c!Storeexternal(x, x.portaddr, x.portvalue)
    BY <1>1 DEF F4c!Endexternal
  <2> QED
    BY <1>1, <2>1 DEF F4c!Storeexternal, Stored
<1>2. CASE x.portio = "WRBYTE"
  <2>1. F4c!Endexternal(x) = F4c!Storeexternalbyte(x, x.portaddr, x.portvalue)
    BY <1>2 DEF F4c!Endexternal
  <2> QED
    BY <1>2, <2>1 DEF F4c!Storeexternalbyte, F4c!B!Storeexternalbyte, F4c!B!Within, Stored
<1>3. CASE x.portio = "RD"
  <2>1. F4c!Endexternal(x) = [x EXCEPT !.portvalue = F4c!Fetchexternal(x, x.portaddr)]
    BY <1>3 DEF F4c!Endexternal
  <2> QED
    BY <1>3, <2>1 DEF Stored
<1> QED
  BY <1>1, <1>2, <1>3 DEF Portios

LEMMA SettledIs ==
  ASSUME NEW x, Fields \subseteq DOMAIN x, x.portio \in Portios
  PROVE  F4c!Settled(x) = IF x.biu = "writecount"
                          THEN Stored(x.mem, x.portio, x.portaddr, x.portvalue) ELSE x.mem
BY EndEffect DEF F4c!Settled

LEMMA StoredDomain ==
  ASSUME NEW mem, NEW io, NEW a, NEW v
  PROVE  DOMAIN Stored(mem, io, a, v) = DOMAIN mem
BY DEF Stored

BusKeeps == AccessFields \cup ControlFields \cup SwitchFields
              \cup {"udr", "tagram", "dataram", "iostate", "cachestall", "oldcachedata"}
Kind(x) == IF x.bytemode THEN "WRBYTE" ELSE "WR"

(* A step of the unit from x to y, which leaves memory, with the write it  *)
(* has taken, as it is unless it takes up a write; what has been read is   *)
(* what is in memory.                                                      *)
Advances(x, y, external) ==
  /\ Kept(x, y, BusKeeps) /\ Bus(y)
  /\ ~(external /\ x.biu = "first" /\ ~x.read) => F4c!Settled(y) = F4c!Settled(x)
  /\ external /\ x.biu = "first" /\ ~x.read =>
       /\ ~y.biustall
       /\ F4c!Settled(y) = Stored(F4c!Settled(x), Kind(x), x.abus, x.dbus)
  /\ external /\ x.biu # "first" /\ ~x.read => y.biustall
  /\ external /\ x.read /\ ~y.biustall =>
       y.portvalue = IF x.abus <= Lowtop THEN F4c!Settled(x)[x.abus \div 4] ELSE 0

LEMMA BiuEffect ==
  ASSUME NEW x, Fields \subseteq DOMAIN x, Bus(x), NEW e
  PROVE  Advances(x, F4c!Biu(x, e), e)
<1> DEFINE y == F4c!Biu(x, e)
           S == IF x.biu = "writecount" THEN Stored(x.mem, x.portio, x.portaddr, x.portvalue)
                ELSE x.mem
<1> USE DEF Kept, Fields, BusFields, CacheFields, AccessFields, ControlFields, SwitchFields, BusKeeps
<1>1. F4c!Settled(x) = S
  BY SettledIs DEF Bus
<1>2. ASSUME NEW z, Kept(x, z, BusKeeps), z.biu \in Bius, z.portio \in Portios
      PROVE  F4c!Settled(z) = IF z.biu = "writecount"
                              THEN Stored(z.mem, z.portio, z.portaddr, z.portvalue) ELSE z.mem
  BY <1>2, SettledIs
<1>3. CASE x.biu = "idle"
  <2>1. y = F4c!Unit(x, IF e THEN "first" ELSE "idle", e)
    BY <1>3 DEF F4c!Biu
  <2>2. /\ Kept(x, y, BusKeeps) /\ y.biu \in {"first", "idle"} /\ (y.biustall <=> e)
        /\ y.mem = x.mem /\ y.portio = x.portio
    BY <2>1 DEF F4c!Unit
  <2> HIDE DEF y
  <2>3. F4c!Settled(y) = x.mem
    BY <1>2, <2>2 DEF Bus, Bius
  <2>4. Advances(x, y, e)
    BY <1>1, <1>3, <2>2, <2>3 DEF Advances, Bus, Bius
  <2> QED
    BY <2>4 DEF y
<1>4. CASE x.biu = "first"
  <2> DEFINE s == F4c!Startexternal(x)
             n == F4c!Endexternal(s)
  <2>1. /\ Kept(x, s, BusKeeps \cup {"mem"}) /\ s.portaddr = x.abus
        /\ s.portio = IF x.read THEN "RD" ELSE Kind(x)
        /\ ~x.read => s.portvalue = x.dbus
    BY DEF F4c!Startexternal, Kind
  <2>2. s.portio \in Portios
    BY <2>1 DEF Portios, Kind
  <2>3. CASE ~e
    <3>1. y = F4c!Unit(s, "idle", FALSE)
      BY <1>4, <2>3 DEF F4c!Biu
    <3> HIDE DEF s
    <3>2. Kept(x, y, BusKeeps \cup {"mem"}) /\ y.biu = "idle" /\ y.portio = s.portio
      BY <2>1, <3>1 DEF F4c!Unit
    <3> HIDE DEF y
    <3>3. F4c!Settled(y) = x.mem
      BY <1>2, <2>2, <3>2 DEF Bius
    <3>4. Advances(x, y, e)
      BY <1>1, <1>4, <2>2, <2>3, <3>2, <3>3 DEF Advances, Bus, Bius
    <3> QED
      BY <3>4 DEF y
  <2>4. CASE e /\ F4c!Waits(x, x.abus) = F4c!WaitSpecial
    <3>1. y = F4c!Unit(n, "first", FALSE)
      BY <1>4, <2>4 DEF F4c!Biu
    <3> HIDE DEF s
    <3>2. /\ Kept(s, n, Fields \ {"mem", "portvalue"})
          /\ n.mem = Stored(s.mem, s.portio, s.portaddr, s.portvalue)
          /\ s.portio = "RD" => n.portvalue = F4c!Fetchexternal(s, s.portaddr)
      BY <2>1, <2>2, EndEffect
    <3> HIDE DEF n
    <3>3. /\ Kept(x, y, BusKeeps) /\ y.biu = "first" /\ ~y.biustall
          /\ y.mem = n.mem /\ y.portio = s.portio /\ y.portvalue = n.portvalue
      BY <2>1, <3>1, <3>2 DEF F4c!Unit
    <3> HIDE DEF y
    <3>4. F4c!Settled(y) = n.mem
      BY <1>2, <2>2, <3>3 DEF Bius
    <3>5. DOMAIN y.mem = DOMAIN x.mem
      BY <2>1, <3>2, <3>3, StoredDomain
    <3>6. x.read => n.mem = x.mem
      BY <2>1, <3>2 DEF Stored
    <3>7. ~x.read => n.mem = Stored(x.mem, Kind(x), x.abus, x.dbus)
      BY <2>1, <3>2
    <3>8. x.read => y.portvalue = IF x.abus <= Lowtop THEN x.mem[x.abus \div 4] ELSE 0
      BY <2>1, <3>2, <3>3 DEF F4c!Fetchexternal
    <3>9. Advances(x, y, e)
      BY <1>1, <1>4, <2>2, <2>4, <3>3, <3>4, <3>5, <3>6, <3>7, <3>8 DEF Advances, Bus, Bius
    <3> QED
      BY <3>9 DEF y
  <2>5. CASE e /\ F4c!Waits(x, x.abus) # F4c!WaitSpecial
    <3>1. y = F4c!Unit([s EXCEPT !.count = F4c!Waits(x, x.abus) + 1],
                       IF x.read THEN "readcount" ELSE "writecount", x.read)
      BY <1>4, <2>5 DEF F4c!Biu
    <3> HIDE DEF s
    <3>2. /\ Kept(x, y, BusKeeps \cup {"mem"}) /\ (y.biustall <=> x.read)
          /\ y.biu = IF x.read THEN "readcount" ELSE "writecount"
          /\ y.portio = s.portio /\ y.portvalue = s.portvalue /\ y.portaddr = s.portaddr
      BY <2>1, <3>1 DEF F4c!Unit
    <3> HIDE DEF y
    <3>3. F4c!Settled(y) = IF x.read THEN x.mem ELSE Stored(x.mem, Kind(x), x.abus, x.dbus)
      BY <1>2, <2>1, <2>2, <3>2 DEF Bius
    <3>4. Advances(x, y, e)
      BY <1>1, <1>4, <2>1, <2>2, <2>5, <3>2, <3>3 DEF Advances, Bus, Bius
    <3> QED
      BY <3>4 DEF y
  <2> QED
    BY <2>3, <2>4, <2>5
<1>5. CASE x.biu \in {"readcount", "writecount"} /\ x.count > 1
  <2>1. y = F4c!Unit([x EXCEPT !.count = @ - 1], x.biu, IF x.biu = "readcount" THEN TRUE ELSE e)
    BY <1>5 DEF F4c!Biu
  <2>2. /\ Kept(x, y, BusKeeps \cup {"mem", "portio", "portaddr", "portvalue"})
        /\ y.biu = x.biu /\ (y.biustall <=> x.biu = "readcount" \/ e)
    BY <2>1 DEF F4c!Unit
  <2> HIDE DEF y
  <2>3. F4c!Settled(y) = S
    BY <1>2, <2>2 DEF Bus
  <2>4. Advances(x, y, e)
    BY <1>1, <1>5, <2>2, <2>3 DEF Advances, Bus, Bius
  <2> QED
    BY <2>4 DEF y
<1>6. CASE x.biu \in {"readcount", "writecount"} /\ ~(x.count > 1)
  <2> DEFINE s == [x EXCEPT !.count = 0]
             n == F4c!Endexternal(s)
  <2>1. y = F4c!Unit(n, "first", IF x.biu = "readcount" THEN FALSE ELSE e)
    BY <1>6 DEF F4c!Biu
  <2>2. Kept(x, s, Fields \ {"count"})
    OBVIOUS
  <2> HIDE DEF s
  <2>3. /\ Kept(s, n, Fields \ {"mem", "portvalue"})
        /\ n.mem = Stored(x.mem, x.portio, x.portaddr, x.portvalue)
        /\ x.portio = "RD" => n.portvalue = F4c!Fetchexternal(x, x.portaddr)
    <3>1. s.portio \in Portios
      BY <2>2 DEF Bus
    <3>2. /\ Kept(s, n, Fields \ {"mem", "portvalue"})
          /\ n.mem = Stored(s.mem, s.portio, s.portaddr, s.portvalue)
          /\ s.portio = "RD" => n.portvalue = F4c!Fetchexternal(s, s.portaddr)
      BY <2>2, <3>1, EndEffect
    <3> HIDE DEF n
    <3> QED
      BY <2>2, <3>2 DEF F4c!Fetchexternal
  <2> HIDE DEF n
  <2>4. /\ Kept(x, y, BusKeeps) /\ y.biu = "first" /\ (y.biustall <=> x.biu = "writecount" /\ e)
        /\ y.mem = n.mem /\ y.portio = x.portio /\ y.portvalue = n.portvalue
    BY <1>6, <2>1, <2>2, <2>3 DEF F4c!Unit
  <2> HIDE DEF y
  <2>5. F4c!Settled(y) = n.mem
    BY <1>2, <2>4 DEF Bus, Bius
  <2>6. DOMAIN y.mem = DOMAIN x.mem
    BY <2>3, <2>4, StoredDomain
  <2>7. x.biu = "readcount" => n.mem = x.mem
    BY <2>3 DEF Stored, Bus
  <2>8. x.biu = "readcount" =>
          y.portvalue = IF x.abus <= Lowtop THEN x.mem[x.abus \div 4] ELSE 0
    BY <2>3, <2>4 DEF F4c!Fetchexternal, Bus
  <2>9. Advances(x, y, e)
    BY <1>1, <1>6, <2>3, <2>4, <2>5, <2>6, <2>7, <2>8 DEF Advances, Bus, Bius
  <2> QED
    BY <2>9 DEF y
<1> QED
  BY <1>3, <1>4, <1>5, <1>6 DEF Bus, Bius

-----------------------------------------------------------------------------
(* FRISC 4c: where the cache keeps a cell.                                 *)

LEMMA DivisionUnique ==
  ASSUME NEW n \in Int, NEW d \in Nat, d > 0, NEW q \in Int, NEW r \in 0 .. d - 1, n = q * d + r
  PROVE  n \div d = q /\ n % d = r
<1>1. /\ n \div d \in Int /\ n % d \in 0 .. d - 1
      /\ n = d * (n \div d) + (n % d)
  OBVIOUS
<1> DEFINE p == n \div d
           s == n % d
<1>2. p \in Int /\ s \in 0 .. d - 1 /\ n = d * p + s
  BY <1>1
<1> HIDE DEF p, s
<1>3. d * (p - q) = r - s
  BY <1>2
<1>4. ~(p - q >= 1)
  <2>1. \A x \in Int : x >= 1 => d * x >= d
    OBVIOUS
  <2> QED
    BY <1>2, <1>3, <2>1
<1>5. ~(p - q <= -1)
  <2>1. \A x \in Int : x <= -1 => d * x <= -d
    OBVIOUS
  <2> QED
    BY <1>2, <1>3, <2>1
<1>6. p = q
  BY <1>2, <1>4, <1>5
<1>7. s = r
  BY <1>2, <1>3, <1>6
<1> QED
  BY <1>6, <1>7 DEF p, s

LEMMA Mixed ==
  ASSUME NEW b \in Nat \ {0}, NEW k \in Nat \ {0}, NEW i \in 0 .. k - 1, NEW j \in 0 .. b - 1
  PROVE  b * k \in Nat \ {0} /\ b * i + j \in 0 .. b * k - 1
<1>1. b * i \in Nat /\ b * k \in Nat /\ b * (k - 1) = b * k - b
  OBVIOUS
<1>2. b * i <= b * (k - 1)
  OBVIOUS
<1>3. b * k >= b
  OBVIOUS
<1> QED
  BY <1>1, <1>2, <1>3

(* The cell of an address, in the cache and in memory.                     *)
Place(i, j) == Nsub * i + j
Cellof(tag, i, j) == Nsub * (Nsets * tag + i) + j

LEMMA Addressing ==
  ASSUME NEW a \in Nat
  PROVE  /\ F4c!Index(a) \in 0 .. Nsets - 1 /\ F4c!Subindex(a) \in 0 .. Nsub - 1
         /\ F4c!Tag(a) \in Nat
         /\ Cellof(F4c!Tag(a), F4c!Index(a), F4c!Subindex(a)) = a \div 4
         /\ F4c!Datacell(a) = Place(F4c!Index(a), F4c!Subindex(a))
<1> DEFINE q == a \div 4
           e == a % 4
           u == q \div Nsub
           j == q % Nsub
           t == u \div Nsets
           i == u % Nsets
<1>0. Nsub \in Nat \ {0} /\ Nsets \in Nat \ {0}
  BY CacheAssumption
<1>1. q \in Nat /\ e \in 0 .. 3 /\ a = 4 * q + e
  OBVIOUS
<1> HIDE DEF q, e
<1>2. u \in Nat /\ j \in 0 .. Nsub - 1 /\ q = Nsub * u + j
  BY <1>0, <1>1
<1>3. j = F4c!Subindex(a)
  BY DEF F4c!Subindex, q
<1> HIDE DEF u, j
<1>4. t \in Nat /\ i \in 0 .. Nsets - 1 /\ u = Nsets * t + i
  BY <1>0, <1>2
<1> HIDE DEF t, i
<1>5. a \div (4 * Nsub) = u
  <2> DEFINE k == 4 * Nsub
             l == 4 * j + e
  <2>1. k \in Nat /\ k > 0 /\ l \in 0 .. k - 1
    BY <1>0, <1>1, <1>2
  <2>2. a = u * k + l
    BY <1>0, <1>1, <1>2
  <2> HIDE DEF k, l
  <2>3. a \div k = u
    BY <1>2, <2>1, <2>2, DivisionUnique
  <2> QED
    BY <2>3 DEF k
<1>6. F4c!Index(a) = i
  BY <1>5 DEF F4c!Index, i
<1>7. Nsub * Nsets \in Nat \ {0} /\ Nsub * i + j \in 0 .. Nsub * Nsets - 1
  BY <1>0, <1>2, <1>4, Mixed
<1>8. q = t * (Nsub * Nsets) + (Nsub * i + j)
  <2>1. Nsub * (Nsets * t + i) = t * (Nsub * Nsets) + Nsub * i
    BY <1>0, <1>4
  <2> QED
    BY <1>0, <1>2, <1>4, <2>1
<1>9. F4c!Tag(a) = t
  <2> DEFINE k == Nsub * Nsets
             l == Nsub * i + j
  <2>1. k \in Nat \ {0} /\ l \in 0 .. k - 1 /\ q = t * k + l
    BY <1>7, <1>8
  <2>2. 4 * Nsub * Nsets = 4 * k
    BY <1>0
  <2> HIDE DEF k, l
  <2> DEFINE n == 4 * k
             o == 4 * l + e
  <2>3. n \in Nat /\ n > 0 /\ o \in 0 .. n - 1
    BY <1>1, <2>1
  <2>4. a = t * n + o
    BY <1>1, <1>4, <2>1
  <2>5. 4 * Nsub * Nsets = n
    BY <2>2
  <2> HIDE DEF n, o
  <2>6. a \div n = t
    BY <1>4, <2>3, <2>4, DivisionUnique
  <2> QED
    BY <2>5, <2>6 DEF F4c!Tag
<1>10. F4c!Datacell(a) = Nsub * i + j
  <2> DEFINE k == Nsub * Nsets
             l == Nsub * i + j
  <2>1. k \in Nat /\ k > 0 /\ l \in 0 .. k - 1 /\ q = t * k + l
    BY <1>7, <1>8
  <2>2. k = Nsets * Nsub
    BY <1>0
  <2> HIDE DEF k, l
  <2>3. q % k = l
    BY <1>1, <1>4, <2>1, DivisionUnique
  <2> QED
    BY <2>2, <2>3 DEF F4c!Datacell, q, l
<1>11. Cellof(t, i, j) = q
  BY <1>2, <1>4 DEF Cellof
<1> QED
  BY <1>2, <1>3, <1>4, <1>6, <1>9, <1>10, <1>11 DEF Place, q

(* No two cells of the cache share a place, and none two addresses.        *)
LEMMA PlaceUnique ==
  ASSUME NEW i \in 0 .. Nsets - 1, NEW j \in 0 .. Nsub - 1,
         NEW k \in 0 .. Nsets - 1, NEW l \in 0 .. Nsub - 1, Place(i, j) = Place(k, l)
  PROVE  i = k /\ j = l
<1>0. Nsub \in Nat \ {0} /\ Nsets \in Nat \ {0}
  BY CacheAssumption
<1>1. Nsub * i + j = i * Nsub + j /\ Nsub * k + l = k * Nsub + l
  BY <1>0
<1> DEFINE n == Nsub * i + j
<1>2. n \in Int /\ n = i * Nsub + j /\ n = k * Nsub + l
  BY <1>0, <1>1 DEF Place
<1> HIDE DEF n
<1>3. n \div Nsub = i /\ n % Nsub = j
  BY <1>0, <1>2, DivisionUnique
<1>4. n \div Nsub = k /\ n % Nsub = l
  BY <1>0, <1>2, DivisionUnique
<1> QED
  BY <1>3, <1>4

LEMMA CellUnique ==
  ASSUME NEW s \in Nat, NEW t \in Nat,
         NEW i \in 0 .. Nsets - 1, NEW j \in 0 .. Nsub - 1,
         NEW k \in 0 .. Nsets - 1, NEW l \in 0 .. Nsub - 1, Cellof(s, i, j) = Cellof(t, k, l)
  PROVE  s = t /\ i = k /\ j = l
<1>0. Nsub \in Nat \ {0} /\ Nsets \in Nat \ {0}
  BY CacheAssumption
<1> DEFINE n == Nsets * s + i
           o == Nsets * t + k
           c == Nsub * n + j
<1>1. n \in Int /\ o \in Int /\ n = s * Nsets + i /\ o = t * Nsets + k
  BY <1>0
<1>2. c = Nsub * o + l
  BY DEF Cellof
<1> HIDE DEF n, o
<1>3. c \in Int /\ c = n * Nsub + j /\ c = o * Nsub + l
  BY <1>0, <1>1, <1>2
<1> HIDE DEF c
<1>4. c \div Nsub = n /\ c % Nsub = j
  BY <1>0, <1>1, <1>3, DivisionUnique
<1>5. c \div Nsub = o /\ c % Nsub = l
  BY <1>0, <1>1, <1>3, DivisionUnique
<1>6. n \div Nsets = s /\ n % Nsets = i
  BY <1>0, <1>1, DivisionUnique
<1>7. o \div Nsets = t /\ o % Nsets = k
  BY <1>0, <1>1, DivisionUnique
<1> QED
  BY <1>4, <1>5, <1>6, <1>7

-----------------------------------------------------------------------------
(* FRISC 4c: the cache and memory.                                         *)

Iostates == {"local", "newblock", "newdata", "replacedata", "replacedatawait", "invalidate"}
Blocks == 0 .. Nsets - 1
Parts == 0 .. Nsub - 1

Shape(x) ==
  /\ x.iostate \in Iostates
  /\ DOMAIN x.tagram = Blocks
  /\ \A i \in Blocks : x.tagram[i] \in [tag : Nat, present : SUBSET Parts]
  /\ DOMAIN x.dataram = 0 .. Nsub * Nsets - 1

Agree(x, i, j) ==
  LET c == Cellof(x.tagram[i].tag, i, j)
  IN  c <= Lowtop \div 4 /\ x.dataram[Place(i, j)] = F4c!Settled(x)[c]

(* What an access in progress has not yet brought up to date.              *)
Unsure(x, i, j) ==
  /\ i = F4c!Index(x.abus)
  /\ \/ x.iostate = "newblock"
     \/ x.iostate \in {"newdata", "replacedata", "replacedatawait"} /\ j = F4c!Subindex(x.abus)

Agrees(x) ==
  \A i \in Blocks : \A j \in x.tagram[i].present : Unsure(x, i, j) \/ Agree(x, i, j)

(* What an access in progress relies on.                                   *)
Pending(x) ==
  /\ x.iostate \in {"newblock", "newdata"} => x.read /\ x.abus <= Lowtop
  /\ x.iostate = "newdata" => F4c!Blockhit(x, x.abus)
  /\ x.iostate \in {"replacedata", "replacedatawait"} =>
       /\ ~x.read /\ x.abus <= Lowtop /\ F4c!Present(x, x.abus)
       /\ F4c!Settled(x)[x.abus \div 4] =
            IF x.iostate = "replacedata" THEN F4c!Masked(x, x.oldcachedata) ELSE x.oldcachedata

Coherence(x) ==
  Fields \subseteq DOMAIN x /\ Bus(x) /\ Shape(x) /\ Agrees(x) /\ Pending(x)

(* An access, with a byte that is stored in its place.                     *)
InPlace(x) == ~x.read /\ x.bytemode => F4c!B!Byteof(x.dbus, x.abus) = x.dbus % F4c!B!Byte
Placed(x) == x.abus \in Nat /\ InPlace(x)
StateFields == {"mem", "tagram", "dataram", "iostate", "biu", "biustall", "oldcachedata", "portaddr",
                "portio", "portvalue"}

LEMMA SettledSame ==
  ASSUME NEW x, NEW y, Fields \subseteq DOMAIN x, Bus(x),
         Kept(x, y, {"mem", "biu", "portio", "portaddr", "portvalue"})
  PROVE  F4c!Settled(y) = F4c!Settled(x)
<1>1. Fields \subseteq DOMAIN y /\ y.portio \in Portios
  BY DEF Kept, Bus
<1> QED
  BY <1>1, SettledIs DEF Kept, Bus

LEMMA SameCoherence ==
  ASSUME NEW x, NEW y, Coherence(x), Kept(x, y, StateFields),
         \/ Kept(x, y, AccessFields)
         \/ x.iostate = "local" /\ x.biu # "readcount"
  PROVE  Coherence(y)
<1>1. F4c!Settled(y) = F4c!Settled(x)
  BY SettledSame DEF Coherence, Kept, StateFields
<1>2. Bus(y) /\ Shape(y)
  BY DEF Coherence, Kept, StateFields, AccessFields, Bus, Shape
<1>3. \A i, j : Agree(y, i, j) <=> Agree(x, i, j)
  BY <1>1 DEF Kept, StateFields, Agree
<1>4. \A i, j : Unsure(x, i, j) => Unsure(y, i, j)
  BY DEF Kept, StateFields, AccessFields, Unsure
<1>5. Agrees(y)
  BY <1>3, <1>4 DEF Coherence, Agrees, Kept, StateFields
<1>6. CASE x.iostate = "local"
  BY <1>2, <1>5, <1>6 DEF Coherence, Kept, StateFields, Pending
<1>7. CASE Kept(x, y, AccessFields)
  <2>1. \A v : F4c!Masked(y, v) = F4c!Masked(x, v)
    BY <1>7 DEF F4c!Masked, Kept, AccessFields
  <2>2. Pending(y)
    BY <1>1, <1>7, <2>1
       DEF Coherence, Kept, StateFields, AccessFields, Pending, F4c!Present, F4c!Blockhit
  <2> QED
    BY <1>2, <1>5, <2>2 DEF Coherence, Kept
<1> QED
  BY <1>6, <1>7

LEMMA SettledDomain ==
  ASSUME NEW x, Fields \subseteq DOMAIN x, Bus(x)
  PROVE  0 .. Lowtop \div 4 \subseteq DOMAIN F4c!Settled(x)
<1>1. DOMAIN F4c!Settled(x) = DOMAIN x.mem
  BY SettledIs, StoredDomain DEF Bus
<1> QED
  BY <1>1 DEF Bus

(* A store changes its cell, as it does in the cache.                      *)
LEMMA StoreEffect ==
  ASSUME NEW x, Placed(x), ~x.read, x.abus <= Lowtop, NEW mem, 0 .. Lowtop \div 4 \subseteq DOMAIN mem
  PROVE  LET T == Stored(mem, Kind(x), x.abus, x.dbus)
         IN  /\ T[x.abus \div 4] = F4c!Masked(x, mem[x.abus \div 4])
             /\ \A c \in 0 .. Lowtop \div 4 : c # x.abus \div 4 => T[c] = mem[c]
<1>1. x.abus \div 4 \in 0 .. Lowtop \div 4
  BY CacheAssumption DEF Placed
<1> DEFINE k == x.abus \div 4
           T == Stored(mem, Kind(x), x.abus, x.dbus)
<1>2. k \in DOMAIN mem
  BY <1>1
<1>3. T = [mem EXCEPT ![k] = F4c!Masked(x, mem[k])]
  <2>1. CASE x.bytemode
    BY <1>2, <2>1 DEF Stored, Kind, F4c!Masked, Placed, InPlace
  <2>2. CASE ~x.bytemode
    BY <1>2, <2>2 DEF Stored, Kind, F4c!Masked
  <2> QED
    BY <2>1, <2>2
<1> HIDE DEF T, k
<1>4. T[k] = F4c!Masked(x, mem[k]) /\ \A c \in 0 .. Lowtop \div 4 : c # k => T[c] = mem[c]
  BY <1>2, <1>3
<1> QED
  BY <1>4 DEF T, k

LEMMA Elsewhere ==
  ASSUME NEW x, Shape(x), NEW a \in Nat, NEW i \in Blocks, NEW j \in x.tagram[i].present,
         Cellof(x.tagram[i].tag, i, j) = a \div 4
  PROVE  i = F4c!Index(a) /\ j = F4c!Subindex(a) /\ F4c!Present(x, a)
<1> DEFINE s == x.tagram[i].tag
           t == F4c!Tag(a)
           k == F4c!Index(a)
           l == F4c!Subindex(a)
<1>1. s \in Nat /\ i \in 0 .. Nsets - 1 /\ j \in 0 .. Nsub - 1
  BY DEF Shape, Blocks, Parts
<1>2. t \in Nat /\ k \in 0 .. Nsets - 1 /\ l \in 0 .. Nsub - 1 /\ Cellof(t, k, l) = a \div 4
  BY Addressing
<1>3. Cellof(s, i, j) = Cellof(t, k, l)
  BY <1>2
<1>4. s = t /\ i = k /\ j = l
  <2> HIDE DEF s, t, k, l
  <2> QED
    BY <1>1, <1>2, <1>3, CellUnique
<1> QED
  BY <1>4 DEF F4c!Present, F4c!Blockhit

LEMMA CachedIs ==
  ASSUME NEW x, Coherence(x), x.iostate = "local", x.abus \in Nat, F4c!Present(x, x.abus)
  PROVE  F4c!Cachedata(x) = F4c!Settled(x)[x.abus \div 4]
<1> DEFINE i == F4c!Index(x.abus)
           j == F4c!Subindex(x.abus)
<1>1. /\ i \in Blocks /\ Cellof(F4c!Tag(x.abus), i, j) = x.abus \div 4
      /\ F4c!Datacell(x.abus) = Place(i, j)
  BY Addressing DEF Blocks
<1>2. j \in x.tagram[i].present /\ x.tagram[i].tag = F4c!Tag(x.abus)
  BY DEF F4c!Present, F4c!Blockhit
<1>3. Agree(x, i, j)
  BY <1>1, <1>2 DEF Coherence, Agrees, Unsure
<1> QED
  BY <1>1, <1>2, <1>3 DEF Agree, F4c!Cachedata

IoKeeps == ControlFields \cup {"udr", "abus", "read", "bytemode"}

(* An access to memory.                                                    *)
LEMMA MemoryKeeps ==
  ASSUME NEW x, Fields \subseteq DOMAIN x, Bus(x)
  PROVE  LET y == F4c!Biu(x, ~F4c!Cachehit(x))
             z == F4c!Memoryaccess(x, y)
         IN  /\ Kept(x, z, IoKeeps \cup SwitchFields \cup {"tagram", "dataram"})
             /\ Kept(y, z, Fields \ {"dbus", "cachestall", "iostate", "oldcachedata"})
             /\ ~x.read => z.dbus = x.dbus
<1> DEFINE y == F4c!Biu(x, ~F4c!Cachehit(x))
           z == F4c!Memoryaccess(x, y)
<1>1. Kept(x, y, BusKeeps)
  BY BiuEffect DEF Advances
<1> HIDE DEF y
<1>2. \/ /\ x.read /\ \E v : z = [y EXCEPT !.dbus = v]
      \/ /\ x.read /\ \E v, s : z = [y EXCEPT !.cachestall = TRUE, !.dbus = v, !.iostate = s]
      \/ \E v, s : z = [y EXCEPT !.cachestall = TRUE, !.oldcachedata = v, !.iostate = s]
      \/ z = y
  BY DEF F4c!Memoryaccess, F4c!Cachehit
<1> HIDE DEF z
<1>3. /\ Kept(y, z, Fields \ {"dbus", "cachestall", "iostate", "oldcachedata"})
      /\ ~x.read => z.dbus = y.dbus
  BY <1>1, <1>2
     DEF Kept, Fields, BusFields, CacheFields, AccessFields, ControlFields, SwitchFields, BusKeeps
<1>4. /\ Kept(x, z, IoKeeps \cup SwitchFields \cup {"tagram", "dataram"})
      /\ ~x.read => z.dbus = x.dbus
  BY <1>1, <1>3
     DEF Kept, Fields, BusFields, CacheFields, AccessFields, ControlFields, SwitchFields, BusKeeps,
         IoKeeps
<1> QED
  BY <1>3, <1>4 DEF y, z

LEMMA MemoryEffect ==
  ASSUME NEW x, Coherence(x), x.iostate = "local", ~x.cachestall, Placed(x), Through(x),
         x.abus <= Lowtop
  PROVE  LET z == F4c!Memoryaccess(x, F4c!Biu(x, ~F4c!Cachehit(x)))
         IN  Coherence(z) /\ (z.iostate # "local" => F4c!Stalled(z))
<1> DEFINE e == ~F4c!Cachehit(x)
           y == F4c!Biu(x, e)
           z == F4c!Memoryaccess(x, y)
           a == x.abus
<1> SUFFICES Coherence(z) /\ (z.iostate # "local" => F4c!Stalled(z))
  OBVIOUS
<1>1. Advances(x, y, e)
  BY BiuEffect DEF Coherence
<1>2. /\ Kept(x, z, IoKeeps \cup SwitchFields \cup {"tagram", "dataram"})
      /\ Kept(y, z, Fields \ {"dbus", "cachestall", "iostate", "oldcachedata"})
      /\ ~x.read => z.dbus = x.dbus
  BY MemoryKeeps DEF Coherence
<1>3. Fields \subseteq DOMAIN y /\ Fields \subseteq DOMAIN z
  BY <1>1, <1>2 DEF Coherence, Advances, Kept
<1>4. F4c!Settled(z) = F4c!Settled(y) /\ Bus(z)
  <2>1. Kept(y, z, {"mem", "biu", "portio", "portaddr", "portvalue", "biustall", "read", "abus"})
    BY <1>2 DEF Kept, Fields, BusFields, CacheFields, AccessFields
  <2>2. Bus(y)
    BY <1>1 DEF Advances
  <2>3. F4c!Settled(z) = F4c!Settled(y)
    BY <1>3, <2>1, <2>2, SettledSame DEF Kept
  <2>4. Bus(z)
    BY <2>1, <2>2 DEF Bus, Kept
  <2> QED
    BY <2>3, <2>4
<1>5. /\ z.tagram = x.tagram /\ z.dataram = x.dataram /\ z.abus = a /\ (z.read <=> x.read)
      /\ z.iostate \in Iostates => Shape(z)
  BY <1>2 DEF Kept, IoKeeps, Coherence, Shape
<1>6. ASSUME \A c \in 0 .. Lowtop \div 4 : c # a \div 4 => F4c!Settled(z)[c] = F4c!Settled(x)[c],
             \A i \in Blocks : \A j \in x.tagram[i].present :
                \/ Unsure(z, i, j)
                \/ Cellof(x.tagram[i].tag, i, j) # a \div 4
                \/ F4c!Settled(z)[a \div 4] = F4c!Settled(x)[a \div 4]
      PROVE  Agrees(z)
  <2> SUFFICES ASSUME NEW i \in Blocks, NEW j \in z.tagram[i].present, ~Unsure(z, i, j)
               PROVE  Agree(z, i, j)
    BY DEF Agrees
  <2> DEFINE c == Cellof(x.tagram[i].tag, i, j)
  <2>1. Agree(x, i, j)
    BY <1>5 DEF Coherence, Agrees, Unsure
  <2>2. c \in 0 .. Lowtop \div 4
    <3>1. j \in Parts /\ x.tagram[i].tag \in Nat
      BY <1>5 DEF Coherence, Shape
    <3>2. c \in Nat
      BY <3>1, CacheAssumption DEF Cellof, Blocks, Parts
    <3> QED
      BY <2>1, <3>2, CacheAssumption DEF Agree
  <2>3. F4c!Settled(z)[c] = F4c!Settled(x)[c]
    BY <1>5, <1>6, <2>2
  <2> QED
    BY <1>5, <2>1, <2>3 DEF Agree
<1>7. F4c!Settled(y) = F4c!Settled(x) => Agrees(z)
  BY <1>4, <1>6
<1>8. CASE F4c!Cachehit(x)
  <2>1. z = [y EXCEPT !.dbus = F4c!Cachedata(x)]
    BY <1>8 DEF F4c!Memoryaccess, F4c!Cachehit
  <2>2. z.iostate = "local"
    BY <1>1, <1>3, <2>1 DEF Advances, Kept, BusKeeps, Fields, BusFields, CacheFields
  <2>3. F4c!Settled(y) = F4c!Settled(x)
    BY <1>1, <1>8 DEF Advances
  <2> HIDE DEF z, y
  <2> QED
    BY <1>3, <1>4, <1>5, <1>7, <2>2, <2>3 DEF Coherence, Pending, Iostates
<1>9. CASE F4c!Cached(x) /\ x.read /\ ~F4c!Present(x, a)
  <2>1. z = [y EXCEPT !.cachestall = TRUE, !.dbus = y.portvalue,
                      !.iostate = IF F4c!Blockhit(x, a) THEN "newdata" ELSE "newblock"]
    BY <1>9 DEF F4c!Memoryaccess, F4c!Cachehit
  <2>2. /\ z.iostate = IF F4c!Blockhit(x, a) THEN "newdata" ELSE "newblock"
        /\ F4c!Stalled(z)
    BY <1>3, <2>1
       DEF F4c!Stalled, Fields, BusFields, CacheFields, AccessFields
  <2>3. F4c!Settled(y) = F4c!Settled(x)
    BY <1>1, <1>9 DEF Advances
  <2> HIDE DEF z, y
  <2>4. F4c!Blockhit(z, a) <=> F4c!Blockhit(x, a)
    BY <1>5 DEF F4c!Blockhit
  <2> QED
    BY <1>3, <1>4, <1>5, <1>7, <1>9, <2>2, <2>3, <2>4 DEF Coherence, Pending, Iostates
<1>10. CASE F4c!Cached(x) /\ ~x.read /\ F4c!Present(x, a)
  <2>1. /\ e
        /\ z = [y EXCEPT !.cachestall = TRUE, !.oldcachedata = F4c!Cachedata(x),
                         !.iostate = IF y.biustall THEN "replacedatawait" ELSE "replacedata"]
    BY <1>10 DEF F4c!Memoryaccess, F4c!Cachehit
  <2>2. /\ z.iostate = IF y.biustall THEN "replacedatawait" ELSE "replacedata"
        /\ z.oldcachedata = F4c!Cachedata(x) /\ F4c!Stalled(z)
    BY <1>3, <2>1 DEF F4c!Stalled, Fields, BusFields, CacheFields
  <2> DEFINE S == F4c!Settled(x)
             T == F4c!Settled(y)
             k == a \div 4
  <2>3. y.biustall => T = S
    BY <1>1, <1>10, <2>1 DEF Advances
  <2>4. ~y.biustall => T = Stored(S, Kind(x), a, x.dbus)
    BY <1>1, <1>10, <2>1 DEF Advances
  <2>5. ~y.biustall => /\ T[k] = F4c!Masked(x, S[k])
                       /\ \A c \in 0 .. Lowtop \div 4 : c # k => T[c] = S[c]
    BY <1>10, <2>4, SettledDomain, StoreEffect DEF Coherence
  <2>6. F4c!Cachedata(x) = S[k]
    BY <1>10, CachedIs DEF Placed
  <2>7. \A v : F4c!Masked(z, v) = F4c!Masked(x, v)
    BY <1>2, <1>10 DEF F4c!Masked, Kept, IoKeeps
  <2>8. F4c!Present(z, a)
    BY <1>5, <1>10 DEF F4c!Present, F4c!Blockhit
  <2> HIDE DEF z, y
  <2>9. \A i \in Blocks : \A j \in x.tagram[i].present :
          Cellof(x.tagram[i].tag, i, j) = k => Unsure(z, i, j)
    BY <1>5, <2>2, Elsewhere DEF Unsure, Coherence, Placed
  <2>10. Agrees(z)
    BY <1>4, <1>6, <2>3, <2>5, <2>9
  <2>11. Pending(z)
    BY <1>4, <1>5, <1>10, <2>2, <2>3, <2>5, <2>6, <2>7, <2>8 DEF Pending
  <2> QED
    BY <1>3, <1>4, <1>5, <2>2, <2>10, <2>11 DEF Coherence, Iostates
<1>11. CASE ~F4c!Cached(x) \/ (~x.read /\ ~F4c!Present(x, a))
  <2>1. e /\ (z = y \/ z = [y EXCEPT !.dbus = y.portvalue])
    BY <1>11 DEF F4c!Memoryaccess, F4c!Cachehit
  <2>2. z.iostate = "local"
    BY <1>1, <1>3, <2>1 DEF Advances, Kept, BusKeeps, Fields, BusFields, CacheFields
  <2>3. ~x.read => ~F4c!Present(x, a)
    BY <1>11 DEF Through
  <2> HIDE DEF z, y
  <2>4. CASE F4c!Settled(y) = F4c!Settled(x)
    BY <1>3, <1>4, <1>5, <1>7, <2>2, <2>4 DEF Coherence, Pending, Iostates
  <2>5. CASE F4c!Settled(y) # F4c!Settled(x)
    <3>1. ~x.read /\ F4c!Settled(y) = Stored(F4c!Settled(x), Kind(x), a, x.dbus)
      BY <1>1, <2>5 DEF Advances
    <3>2. \A c \in 0 .. Lowtop \div 4 : c # a \div 4 => F4c!Settled(y)[c] = F4c!Settled(x)[c]
      BY <3>1, SettledDomain, StoreEffect DEF Coherence
    <3>3. \A i \in Blocks : \A j \in x.tagram[i].present : Cellof(x.tagram[i].tag, i, j) # a \div 4
      BY <2>3, <3>1, Elsewhere DEF Coherence, Placed
    <3>4. Agrees(z)
      BY <1>4, <1>6, <3>2, <3>3
    <3> QED
      BY <1>3, <1>4, <1>5, <2>2, <3>4 DEF Coherence, Pending, Iostates
  <2> QED
    BY <2>4, <2>5
<1> QED
  BY <1>8, <1>9, <1>10, <1>11 DEF F4c!Cachehit

(* An access to the internal registers, the boot ROM or the tags.          *)
LEMMA RegisterKeeps ==
  ASSUME NEW x, Fields \subseteq DOMAIN x, NEW a \in Nat, NEW v
  PROVE  Kept(x, F4c!Internaliostore(x, a, v), Fields \ {"attributes"})
<1> USE DEF Kept, Fields, BusFields, CacheFields, AccessFields, ControlFields, SwitchFields
<1>0. Iobase \in Nat
  BY CacheAssumption
<1> USE DEF F4c!IOATTR, F4c!IORSP, F4c!IOPSP, F4c!IOSCC, F4c!IOMASK, F4c!IOMODE, F4c!IOEDGE, F4c!IOLEVL
<1>1. CASE a = F4c!IOSCC
  <2> DEFINE y == [x EXCEPT !.cp = 1]
  <2>1. F4c!Internaliostore(x, a, v) = [F4c!F4!Writereg(y, "U2", v) EXCEPT !.cp = x.cp]
    BY <1>0, <1>1 DEF F4c!Internaliostore
  <2>2. Kept(x, y, Fields \ {"cp"}) /\ y.cp = 1
    OBVIOUS
  <2> HIDE DEF y
  <2> DEFINE r == F4c!F4!WithTops(y.r, (v \div N) % N, v % N)
             p == F4c!F4!WithTops(y.p, (v \div N^3) % N, (v \div N^2) % N)
             b == (v \div N^4) % 2 = 1
             c == (v \div (2 * N^4)) % 2 = 1
             w == F4c!F4!Writereg(y, "U2", v)
  <2>3. w = [y EXCEPT !.r = r, !.p = p, !.rcache = b, !.pcache = c]
    <3>1. "U2" \notin DOMAIN F4c!F4!StackRegs /\ "U2" \notin DOMAIN F4c!F4!ReturnRegs
      BY DEF F4c!F4!StackRegs, F4c!F4!ReturnRegs
    <3> QED
      BY <2>2, <3>1 DEF F4c!F4!Writereg
  <2> HIDE DEF r, p, b, c, w
  <2>4. Kept(y, w, Fields)
    BY <2>3
  <2>5. F4c!Internaliostore(x, a, v) = [w EXCEPT !.cp = x.cp]
    BY <2>1 DEF w
  <2> QED
    BY <2>2, <2>4, <2>5
<1>2. CASE a # F4c!IOSCC
  <2> DEFINE z == F4c!Internaliostore(x, a, v)
  <2>1. CASE a >= F4c!IOATTR
    <3>1. z = [x EXCEPT !.attributes[F4c!Attribute(a)] = v]
      BY <1>0, <2>1 DEF F4c!Internaliostore
    <3> QED
      BY <3>1
  <2>2. CASE a = F4c!IORSP \/ a = F4c!IOPSP
    <3>1. z = [x EXCEPT !.r.sp = v] \/ z = [x EXCEPT !.p.sp = v]
      BY <1>0, <2>2 DEF F4c!Internaliostore
    <3> QED
      BY <3>1
  <2>3. CASE a \in {F4c!IOMASK, F4c!IOMODE, F4c!IOEDGE, F4c!IOLEVL}
    <3> DEFINE s == F4c!F4!Linesof(v)
    <3>1. \/ z = [x EXCEPT !.mask = s] \/ z = [x EXCEPT !.mode = s]
          \/ z = [x EXCEPT !.edge = s] \/ z = [x EXCEPT !.level = s]
      BY <1>0, <2>3 DEF F4c!Internaliostore
    <3> HIDE DEF s, z
    <3>2. Kept(x, z, Fields \ {"attributes"})
      BY <3>1
    <3> QED
      BY <3>2 DEF z
  <2>4. CASE /\ ~(a >= F4c!IOATTR)
             /\ a \notin {F4c!IORSP, F4c!IOPSP, F4c!IOMASK, F4c!IOMODE, F4c!IOEDGE, F4c!IOLEVL}
    <3>1. z = x
      BY <1>0, <1>2, <2>4 DEF F4c!Internaliostore
    <3> QED
      BY <3>1
  <2> QED
    BY <2>1, <2>2, <2>3, <2>4
<1> QED
  BY <1>1, <1>2

LEMMA InternalKeeps ==
  ASSUME NEW x, NEW y, Fields \subseteq DOMAIN y, x.abus \in Nat, x.abus > Lowtop
  PROVE  LET z == F4c!Internalaccess(x, y)
         IN  /\ Kept(y, z, Fields \ {"attributes", "dbus", "cachestall", "iostate"})
             /\ ~x.read => z.dbus = y.dbus
             /\ \/ z.iostate = y.iostate
                \/ z.iostate = "invalidate" /\ z.cachestall
<1> DEFINE z == F4c!Internalaccess(x, y)
           a == x.abus
<1>0. /\ Iobase \in Nat /\ Tagbase \in Nat /\ Rombase \in Nat /\ Iobase <= Tagbase
      /\ a \in Nat
  BY CacheAssumption
<1>1. Kept(y, F4c!Internaliostore(y, a, x.dbus), Fields \ {"attributes"})
  BY <1>0, RegisterKeeps
<1>2. \/ z = y
      \/ x.read /\ \E v : z = [y EXCEPT !.dbus = v]
      \/ ~x.read /\ z = F4c!Internaliostore(y, a, x.dbus)
      \/ z = [y EXCEPT !.cachestall = TRUE, !.iostate = "invalidate",
                       !.dbus = IF x.read THEN y.portvalue ELSE @]
  <2>1. CASE a >= Iobase /\ a < Tagbase
    <3>1. z = IF x.read THEN [y EXCEPT !.dbus = F4c!Internaliofetch(y, a)]
              ELSE F4c!Internaliostore(y, a, x.dbus)
      BY <1>0, <2>1 DEF F4c!Internalaccess
    <3> HIDE DEF z
    <3> QED
      BY <3>1
  <2>2. CASE a >= Tagbase
    BY <1>0, <2>2 DEF F4c!Internalaccess
  <2>3. CASE a >= Rombase /\ a < Iobase /\ x.ibrenable
    <3>1. z = IF x.read THEN [y EXCEPT !.dbus = x.rom[(a - Rombase) \div 4]] ELSE y
      BY <1>0, <2>3 DEF F4c!Internalaccess
    <3> HIDE DEF z
    <3> QED
      BY <3>1
  <2>4. CASE a < Iobase /\ ~(a >= Rombase /\ x.ibrenable)
    <3>1. z = IF x.read THEN [y EXCEPT !.dbus = 1] ELSE y
      BY <1>0, <2>4 DEF F4c!Internalaccess
    <3> HIDE DEF z
    <3> QED
      BY <3>1
  <2> QED
    BY <1>0, <2>1, <2>2, <2>3, <2>4
<1> HIDE DEF z
<1>3. /\ Kept(y, z, Fields \ {"attributes", "dbus", "cachestall", "iostate"})
      /\ ~x.read => z.dbus = y.dbus
      /\ z.iostate = y.iostate \/ (z.iostate = "invalidate" /\ z.cachestall)
  BY <1>1, <1>2
     DEF Kept, Fields, BusFields, CacheFields, AccessFields, ControlFields, SwitchFields
<1> QED
  BY <1>3 DEF z

LEMMA InternalEffect ==
  ASSUME NEW x, Coherence(x), x.iostate = "local", ~x.cachestall, x.abus \in Nat, x.abus > Lowtop
  PROVE  LET z == F4c!Internalaccess(x, F4c!Biu(x, FALSE))
         IN  /\ Kept(x, z, IoKeeps) /\ (~x.read => z.dbus = x.dbus)
             /\ Coherence(z) /\ (z.iostate # "local" => F4c!Stalled(z))
<1> DEFINE y == F4c!Biu(x, FALSE)
           z == F4c!Internalaccess(x, y)
<1> SUFFICES /\ Kept(x, z, IoKeeps) /\ (~x.read => z.dbus = x.dbus)
             /\ Coherence(z) /\ (z.iostate # "local" => F4c!Stalled(z))
  OBVIOUS
<1>1. Advances(x, y, FALSE)
  BY BiuEffect DEF Coherence
<1>2. Fields \subseteq DOMAIN y
  BY <1>1 DEF Coherence, Advances, Kept
<1>3. /\ Kept(y, z, Fields \ {"attributes", "dbus", "cachestall", "iostate"})
      /\ ~x.read => z.dbus = y.dbus
      /\ z.iostate = y.iostate \/ (z.iostate = "invalidate" /\ z.cachestall)
  BY <1>2, InternalKeeps
<1> HIDE DEF y, z
<1>4. /\ Kept(x, z, IoKeeps) /\ (~x.read => z.dbus = x.dbus)
      /\ Fields \subseteq DOMAIN z
      /\ z.tagram = x.tagram /\ z.dataram = x.dataram
  BY <1>1, <1>2, <1>3
     DEF Advances, Kept, Fields, BusFields, CacheFields, AccessFields, ControlFields, SwitchFields,
         BusKeeps, IoKeeps
<1>5. F4c!Settled(z) = F4c!Settled(x) /\ Bus(z)
  <2>1. Kept(y, z, {"mem", "biu", "portio", "portaddr", "portvalue", "biustall", "read", "abus"})
    BY <1>3 DEF Kept, Fields, BusFields, CacheFields, AccessFields
  <2>2. Bus(y) /\ F4c!Settled(y) = F4c!Settled(x)
    BY <1>1 DEF Advances
  <2>3. F4c!Settled(z) = F4c!Settled(y)
    BY <1>2, <2>1, <2>2, SettledSame DEF Kept
  <2>4. Bus(z)
    BY <2>1, <2>2 DEF Bus, Kept
  <2> QED
    BY <2>2, <2>3, <2>4
<1>6. z.iostate = "local" \/ (z.iostate = "invalidate" /\ F4c!Stalled(z))
  BY <1>1, <1>3 DEF Advances, Kept, BusKeeps, F4c!Stalled
<1>7. Shape(z) /\ Pending(z)
  BY <1>4, <1>6 DEF Coherence, Shape, Pending, Iostates
<1>8. Agrees(z)
  BY <1>4, <1>5 DEF Coherence, Agrees, Agree, Unsure
<1> QED
  BY <1>4, <1>5, <1>6, <1>7, <1>8 DEF Coherence

LEMMA CellNatural ==
  ASSUME NEW t \in Nat, NEW i \in Blocks, NEW j \in Parts
  PROVE  Cellof(t, i, j) \in Nat
<1>1. Nsets * t + i \in Nat
  BY CacheAssumption DEF Blocks
<1> DEFINE n == Nsets * t + i
<1>2. n \in Nat
  BY <1>1
<1> HIDE DEF n
<1>3. Nsub * n + j \in Nat
  BY <1>2, CacheAssumption DEF Parts
<1> QED
  BY <1>3 DEF Cellof, n

(* A cell of the cache that is filled or replaced, whose block has been    *)
(* tagged for it.                                                          *)
Filling == {"newblock", "newdata", "replacedata", "replacedatawait"}

LEMMA RetagEffect ==
  ASSUME NEW x, Coherence(x), x.iostate \in Filling, x.abus \in Nat
  PROVE  LET i == F4c!Index(x.abus)
             j == F4c!Subindex(x.abus)
             r == F4c!Retagged(x)
         IN  /\ Kept(x, r, Fields \ {"tagram"}) /\ DOMAIN r.tagram = Blocks
             /\ \A k \in Blocks \ {i} : r.tagram[k] = x.tagram[k]
             /\ r.tagram[i] \in [tag : Nat, present : SUBSET Parts]
             /\ r.tagram[i].tag = F4c!Tag(x.abus) /\ j \in r.tagram[i].present
             /\ \/ r.tagram[i].present = {j}
                \/ /\ x.iostate # "newblock" /\ x.tagram[i].tag = F4c!Tag(x.abus)
                   /\ r.tagram[i].present = x.tagram[i].present \cup {j}
<1> DEFINE i == F4c!Index(x.abus)
           j == F4c!Subindex(x.abus)
           t == F4c!Tag(x.abus)
           r == F4c!Retagged(x)
<1>1. i \in Blocks /\ j \in Parts /\ t \in Nat
  BY Addressing DEF Blocks, Parts
<1>2. /\ DOMAIN x.tagram = Blocks
      /\ x.tagram[i] \in [tag : Nat, present : SUBSET Parts]
  BY <1>1 DEF Coherence, Shape
<1>3. CASE x.iostate = "newblock"
  <2>1. r = [x EXCEPT !.tagram[i] = [tag |-> t, present |-> {j}]]
    BY <1>3 DEF F4c!Retagged, F4c!Allocblock
  <2> HIDE DEF r, i, j, t
  <2>2. /\ Kept(x, r, Fields \ {"tagram"})
        /\ r.tagram = [x.tagram EXCEPT ![i] = [tag |-> t, present |-> {j}]]
    BY <2>1 DEF Coherence, Kept, Fields, BusFields, CacheFields
  <2>3. r.tagram[i] = [tag |-> t, present |-> {j}]
    BY <1>1, <1>2, <2>2
  <2>4. DOMAIN r.tagram = Blocks /\ \A k \in Blocks \ {i} : r.tagram[k] = x.tagram[k]
    BY <1>2, <2>2
  <2> QED
    BY <1>1, <2>2, <2>3, <2>4 DEF r, i, j, t
<1>4. CASE x.iostate # "newblock"
  <2>0. x.tagram[i].tag = t
    BY <1>4 DEF Coherence, Pending, Filling, F4c!Present, F4c!Blockhit
  <2>1. r = [x EXCEPT !.tagram[i].present = @ \cup {j}]
    BY <1>4 DEF F4c!Retagged, F4c!Addtoblock, Filling
  <2> HIDE DEF r, i, j, t
  <2> DEFINE b == [x.tagram[i] EXCEPT !.present = @ \cup {j}]
  <2>2. /\ Kept(x, r, Fields \ {"tagram"})
        /\ r.tagram = [x.tagram EXCEPT ![i] = b]
    BY <2>1 DEF Coherence, Kept, Fields, BusFields, CacheFields
  <2>3. b \in [tag : Nat, present : SUBSET Parts] /\ b.tag = t
        /\ b.present = x.tagram[i].present \cup {j}
    BY <1>1, <1>2, <2>0
  <2> HIDE DEF b
  <2>4. r.tagram[i] = b
    BY <1>1, <1>2, <2>2
  <2>5. DOMAIN r.tagram = Blocks /\ \A k \in Blocks \ {i} : r.tagram[k] = x.tagram[k]
    BY <1>2, <2>2
  <2> QED
    BY <1>1, <1>4, <2>0, <2>2, <2>3, <2>4, <2>5 DEF r, i, j, t
<1> QED
  BY <1>3, <1>4

LEMMA FillEffect ==
  ASSUME NEW x, Coherence(x), x.iostate \in Filling, x.abus \in Nat, x.abus <= Lowtop,
         NEW z, NEW v, z.abus = x.abus, z.iostate \in {x.iostate, "local"},
         z.tagram = F4c!Retagged(x).tagram,
         z.dataram = [x.dataram EXCEPT ![F4c!Datacell(x.abus)] = v],
         \A c \in 0 .. Lowtop \div 4 :
            c # x.abus \div 4 => F4c!Settled(z)[c] = F4c!Settled(x)[c],
         z.iostate = "local" => v = F4c!Settled(z)[x.abus \div 4]
  PROVE  Shape(z) /\ Agrees(z) /\ F4c!Present(z, x.abus)
<1> DEFINE i == F4c!Index(x.abus)
           j == F4c!Subindex(x.abus)
           t == F4c!Tag(x.abus)
           q == x.abus \div 4
<1>1. /\ i \in Blocks /\ j \in Parts /\ t \in Nat /\ Cellof(t, i, j) = q
      /\ F4c!Datacell(x.abus) = Place(i, j) /\ q <= Lowtop \div 4
  BY Addressing, CacheAssumption DEF Blocks, Parts
<1>2. /\ DOMAIN z.tagram = Blocks
      /\ \A k \in Blocks \ {i} : z.tagram[k] = x.tagram[k]
      /\ z.tagram[i] \in [tag : Nat, present : SUBSET Parts]
      /\ z.tagram[i].tag = t /\ j \in z.tagram[i].present
      /\ \/ z.tagram[i].present = {j}
         \/ /\ x.iostate # "newblock" /\ x.tagram[i].tag = t
            /\ z.tagram[i].present = x.tagram[i].present \cup {j}
  BY RetagEffect
<1> HIDE DEF i, j, t, q
<1>3. Shape(z)
  BY <1>1, <1>2 DEF Coherence, Shape, Filling, Iostates
<1>4. F4c!Present(z, x.abus)
  BY <1>2 DEF F4c!Present, F4c!Blockhit, i, j, t
<1>5. Place(i, j) \in 0 .. Nsub * Nsets - 1
  BY <1>1, CacheAssumption, Mixed DEF Place, Blocks, Parts
<1>6. ASSUME NEW k \in Blocks, NEW l \in z.tagram[k].present, ~Unsure(z, k, l)
      PROVE  Agree(z, k, l)
  <2>1. CASE k = i /\ l = j
    <3>1. z.iostate = "local"
      BY <1>6, <2>1 DEF Unsure, Filling, i, j
    <3>2. z.dataram[Place(i, j)] = v
      BY <1>1, <1>5 DEF Coherence, Shape
    <3> QED
      BY <1>1, <1>2, <2>1, <3>1, <3>2 DEF Agree, q
  <2>2. CASE ~(k = i /\ l = j)
    <3>1. l \in x.tagram[k].present /\ z.tagram[k].tag = x.tagram[k].tag
          /\ (k = i => x.iostate # "newblock")
      BY <1>2, <2>2
    <3>2. ~Unsure(x, k, l)
      BY <2>2, <3>1 DEF Unsure, i, j
    <3>3. Agree(x, k, l)
      BY <3>1, <3>2 DEF Coherence, Agrees
    <3>4. l \in Parts /\ x.tagram[k].tag \in Nat
      BY <3>1 DEF Coherence, Shape
    <3> DEFINE c == Cellof(x.tagram[k].tag, k, l)
    <3>5. c # q
      BY <1>1, <2>2, <3>4, CellUnique DEF Blocks, Parts
    <3>6. Place(k, l) # Place(i, j)
      BY <1>1, <2>2, <3>4, PlaceUnique DEF Blocks, Parts
    <3>7. z.dataram[Place(k, l)] = x.dataram[Place(k, l)]
      <4>1. Place(k, l) \in 0 .. Nsub * Nsets - 1
        BY <3>4, CacheAssumption, Mixed DEF Place, Blocks, Parts
      <4> QED
        BY <1>1, <3>6, <4>1 DEF Coherence, Shape
    <3>8. c \in 0 .. Lowtop \div 4
      <4>1. c \in Nat
        BY <3>4, CellNatural
      <4> QED
        BY <3>3, <4>1, CacheAssumption DEF Agree
    <3>9. F4c!Settled(z)[c] = F4c!Settled(x)[c]
      BY <3>5, <3>8 DEF q
    <3> QED
      BY <3>1, <3>3, <3>7, <3>9 DEF Agree
  <2> QED
    BY <2>1, <2>2
<1> QED
  BY <1>3, <1>4, <1>6 DEF Agrees

LEMMA NonlocalEffect ==
  ASSUME NEW x, Coherence(x), x.iostate # "local", Placed(x)
  PROVE  LET e == x.iostate \in {"newblock", "newdata", "replacedatawait"}
             z == F4c!Nonlocal(x, F4c!Biu(F4c!Retagged(x), e))
         IN  /\ Kept(x, z, IoKeeps) /\ (~x.read => z.dbus = x.dbus)
             /\ Coherence(z) /\ (z.iostate # "local" => F4c!Stalled(z))
<1> DEFINE e == x.iostate \in {"newblock", "newdata", "replacedatawait"}
           r == F4c!Retagged(x)
           y == F4c!Biu(r, e)
           z == F4c!Nonlocal(x, y)
           a == x.abus
           d == F4c!Datacell(a)
<1> SUFFICES /\ Kept(x, z, IoKeeps) /\ (~x.read => z.dbus = x.dbus)
             /\ Coherence(z) /\ (z.iostate # "local" => F4c!Stalled(z))
  OBVIOUS
<1>0. a \in Nat /\ x.iostate \in Filling \cup {"invalidate"}
  BY DEF Placed, Coherence, Shape, Iostates, Filling
<1>1. Kept(x, r, Fields \ {"tagram"})
  <2>1. CASE x.iostate \in Filling
    BY <1>0, <2>1, RetagEffect
  <2>2. CASE x.iostate = "invalidate"
    <3>1. r = F4c!Deallocblock(x)
      BY <2>2 DEF F4c!Retagged
    <3>2. \E b : r = [x EXCEPT !.tagram[F4c!Index(a)] = b]
      BY <3>1 DEF F4c!Deallocblock
    <3> HIDE DEF r
    <3> QED
      BY <3>2 DEF Kept, Coherence
  <2> QED
    BY <1>0, <2>1, <2>2
<1> HIDE DEF r
<1>2. /\ Fields \subseteq DOMAIN r /\ Bus(r) /\ F4c!Settled(r) = F4c!Settled(x)
      /\ r.abus = x.abus /\ (r.read <=> x.read) /\ r.dbus = x.dbus /\ Kind(r) = Kind(x)
      /\ r.biu = x.biu
  <2>1. Fields \subseteq DOMAIN r
    BY <1>1 DEF Kept, Coherence
  <2>2. Kept(x, r, {"mem", "biu", "portio", "portaddr", "portvalue", "biustall"} \cup AccessFields)
    BY <1>1 DEF Kept, Fields, BusFields, CacheFields, AccessFields
  <2>3. F4c!Settled(r) = F4c!Settled(x)
    BY <2>2, SettledSame DEF Coherence, Kept
  <2>4. Bus(r)
    BY <2>2 DEF Coherence, Bus, Kept, AccessFields
  <2> QED
    BY <2>1, <2>2, <2>3, <2>4 DEF Kept, AccessFields, Kind
<1>3. Advances(r, y, e)
  BY <1>2, BiuEffect
<1> HIDE DEF y
<1>4. /\ Kept(x, y, IoKeeps \cup {"dbus", "dataram", "iostate"}) /\ y.tagram = r.tagram
      /\ Fields \subseteq DOMAIN y
  BY <1>1, <1>2, <1>3
     DEF Advances, Kept, Fields, BusFields, CacheFields, AccessFields, ControlFields, SwitchFields,
         BusKeeps, IoKeeps
<1>5. ASSUME NEW w, Kept(y, w, Fields \ {"iostate", "dataram", "dbus"})
      PROVE  F4c!Settled(w) = F4c!Settled(y) /\ Bus(w)
  <2>1. Kept(y, w, {"mem", "biu", "portio", "portaddr", "portvalue", "biustall", "read", "abus"})
    BY <1>5 DEF Kept, Fields, BusFields, CacheFields, AccessFields
  <2>2. Bus(y)
    BY <1>3 DEF Advances
  <2>3. F4c!Settled(w) = F4c!Settled(y)
    BY <1>4, <2>1, <2>2, SettledSame DEF Kept
  <2>4. Bus(w)
    BY <2>1, <2>2 DEF Bus, Kept
  <2> QED
    BY <2>3, <2>4
<1>6. CASE x.iostate \in {"newblock", "newdata"}
  <2>1. /\ z = [y EXCEPT !.iostate = IF y.biustall THEN @ ELSE "local",
                         !.dataram[d] = y.portvalue, !.dbus = y.portvalue]
        /\ x.read /\ a <= Lowtop
    BY <1>6 DEF F4c!Nonlocal, F4c!Newcell, Coherence, Pending
  <2> HIDE DEF z, d
  <2>2. /\ Kept(y, z, Fields \ {"iostate", "dataram", "dbus"})
        /\ z.iostate = IF y.biustall THEN x.iostate ELSE "local"
        /\ z.dataram = [x.dataram EXCEPT ![d] = y.portvalue]
    BY <1>4, <2>1 DEF Kept, Fields, BusFields, CacheFields, AccessFields
  <2>3. Kept(x, z, IoKeeps) /\ Fields \subseteq DOMAIN z /\ z.tagram = r.tagram
    BY <1>4, <2>2 DEF Kept, IoKeeps, Fields, BusFields, CacheFields, AccessFields, ControlFields
  <2>4. Bus(z) /\ F4c!Settled(z) = F4c!Settled(y)
    BY <1>5, <2>2
  <2>5. F4c!Settled(y) = F4c!Settled(x)
    BY <1>2, <1>3, <2>1 DEF Advances
  <2>6. z.iostate = "local" => y.portvalue = F4c!Settled(x)[a \div 4]
    BY <1>2, <1>3, <1>6, <2>1, <2>2 DEF Advances
  <2>7. Shape(z) /\ Agrees(z) /\ F4c!Present(z, a)
    <3>1. x.iostate \in Filling /\ z.abus = x.abus /\ z.iostate \in {x.iostate, "local"}
      BY <1>6, <2>2, <2>3 DEF Filling, Kept, IoKeeps
    <3>2. F4c!Settled(z) = F4c!Settled(x)
      BY <2>4, <2>5
    <3>3. z.tagram = F4c!Retagged(x).tagram
      BY <2>3 DEF r
    <3> DEFINE v == y.portvalue
    <3>4. z.dataram = [x.dataram EXCEPT ![F4c!Datacell(x.abus)] = v]
      BY <2>2 DEF d
    <3>5. z.iostate = "local" => v = F4c!Settled(z)[x.abus \div 4]
      BY <2>6, <3>2
    <3>6. x.abus <= Lowtop
      BY <2>1
    <3> HIDE DEF v
    <3> QED
      BY <1>0, <3>1, <3>2, <3>3, <3>4, <3>5, <3>6, FillEffect
  <2>8. Pending(z)
    <3>1. z.abus = a /\ (z.read <=> x.read)
      BY <2>3 DEF Kept, IoKeeps
    <3>2. F4c!Blockhit(z, z.abus)
      BY <2>7, <3>1 DEF F4c!Present
    <3>3. z.iostate \in {"newblock", "newdata", "local"}
      BY <1>6, <2>2
    <3> QED
      BY <2>1, <3>1, <3>2, <3>3 DEF Pending
  <2>9. z.iostate # "local" => F4c!Stalled(z)
    BY <2>2 DEF F4c!Stalled, Kept, Fields, BusFields, CacheFields
  <2> QED
    BY <2>1, <2>3, <2>4, <2>7, <2>8, <2>9 DEF Coherence
<1>7. CASE x.iostate \in {"replacedata", "replacedatawait"}
  <2> DEFINE v == F4c!Masked(x, x.oldcachedata)
  <2>0. ~x.read /\ a <= Lowtop /\ (e <=> x.iostate = "replacedatawait")
    BY <1>7 DEF Coherence, Pending
  <2>1. z = [[y EXCEPT !.dataram[d] = v]
               EXCEPT !.iostate = IF x.iostate = "replacedatawait" /\ y.biustall THEN @ ELSE "local"]
    BY <1>7 DEF F4c!Nonlocal, F4c!Replaced
  <2> HIDE DEF z, d, v
  <2>2. /\ Kept(y, z, Fields \ {"iostate", "dataram", "dbus"}) /\ z.dbus = y.dbus
        /\ z.iostate = IF x.iostate = "replacedatawait" /\ y.biustall THEN x.iostate ELSE "local"
        /\ z.dataram = [x.dataram EXCEPT ![d] = v]
    BY <1>4, <2>1 DEF Kept, Fields, BusFields, CacheFields, AccessFields
  <2>3. /\ Kept(x, z, IoKeeps) /\ Fields \subseteq DOMAIN z /\ z.tagram = r.tagram
        /\ z.dbus = x.dbus
    BY <1>4, <2>2 DEF Kept, IoKeeps, Fields, BusFields, CacheFields, AccessFields, ControlFields
  <2>4. Bus(z) /\ F4c!Settled(z) = F4c!Settled(y)
    BY <1>5, <2>2
  <2> DEFINE S == F4c!Settled(x)
             T == F4c!Settled(y)
             k == a \div 4
  <2>5. S[k] = IF x.iostate = "replacedata" THEN v ELSE x.oldcachedata
    BY <1>7 DEF Coherence, Pending, v
  <2>6. CASE T = S /\ (x.iostate = "replacedata" \/ y.biustall)
    <3>1. Shape(z) /\ Agrees(z) /\ F4c!Present(z, a)
      <4>1. x.iostate \in Filling /\ z.abus = x.abus /\ z.iostate \in {x.iostate, "local"}
        BY <1>7, <2>2, <2>3 DEF Filling, Kept, IoKeeps
      <4>2. F4c!Settled(z) = F4c!Settled(x)
        BY <2>4, <2>6
      <4>3. z.iostate = "local" => v = F4c!Settled(z)[x.abus \div 4]
        BY <1>7, <2>2, <2>5, <2>6, <4>2
      <4>4. z.tagram = F4c!Retagged(x).tagram
        BY <2>3 DEF r
      <4> QED
        BY <1>0, <2>0, <2>2, <4>1, <4>2, <4>3, <4>4, FillEffect DEF d
    <3>2. z.oldcachedata = x.oldcachedata
      BY <1>1, <1>3, <2>2 DEF Advances, Kept, BusKeeps, Fields, BusFields, CacheFields
    <3>3. Pending(z)
      BY <1>7, <2>0, <2>2, <2>3, <2>4, <2>5, <2>6, <3>1, <3>2 DEF Pending, Kept, IoKeeps
    <3>4. z.iostate # "local" => F4c!Stalled(z)
      BY <2>2 DEF F4c!Stalled, Kept, Fields, BusFields, CacheFields
    <3> QED
      BY <2>3, <2>4, <3>1, <3>3, <3>4 DEF Coherence
  <2>7. CASE x.iostate = "replacedatawait" /\ ~y.biustall
    <3>1. T = Stored(S, Kind(x), a, x.dbus)
      BY <1>2, <1>3, <2>0, <2>7 DEF Advances
    <3>2. T[k] = v /\ \A c \in 0 .. Lowtop \div 4 : c # k => T[c] = S[c]
      BY <2>0, <2>5, <2>7, <3>1, SettledDomain, StoreEffect DEF Coherence, v
    <3>3. z.iostate = "local"
      BY <2>2, <2>7
    <3>4. Shape(z) /\ Agrees(z)
      <4>1. x.iostate \in Filling /\ z.abus = x.abus
        BY <1>7, <2>3 DEF Filling, Kept, IoKeeps
      <4>2. z.tagram = F4c!Retagged(x).tagram
        BY <2>3 DEF r
      <4> QED
        BY <1>0, <2>0, <2>2, <2>4, <3>2, <3>3, <4>1, <4>2, FillEffect DEF d
    <3>5. Pending(z)
      BY <3>3 DEF Pending
    <3> QED
      BY <2>3, <2>4, <3>3, <3>4, <3>5 DEF Coherence
  <2>8. (x.iostate = "replacedatawait" /\ y.biustall) \/ x.iostate = "replacedata" => T = S
    BY <1>2, <1>3, <2>0 DEF Advances
  <2> QED
    BY <1>7, <2>6, <2>7, <2>8
<1>8. CASE x.iostate = "invalidate"
  <2>1. z = [y EXCEPT !.iostate = "local"]
    BY <1>8 DEF F4c!Nonlocal
  <2>2. r.tagram = [x.tagram EXCEPT ![F4c!Index(a)] = [tag |-> F4c!Tag(a), present |-> {}]]
    BY <1>8 DEF r, F4c!Retagged, F4c!Deallocblock, Coherence, Fields, BusFields, CacheFields
  <2> HIDE DEF z
  <2>3. /\ Kept(y, z, Fields \ {"iostate", "dataram", "dbus"}) /\ z.dbus = y.dbus
        /\ z.iostate = "local" /\ z.dataram = x.dataram
    BY <1>4, <2>1 DEF Kept, Fields, BusFields, CacheFields, AccessFields
  <2>4. /\ Kept(x, z, IoKeeps) /\ Fields \subseteq DOMAIN z /\ z.tagram = r.tagram
        /\ z.dbus = x.dbus
    BY <1>4, <2>3 DEF Kept, IoKeeps, Fields, BusFields, CacheFields, AccessFields, ControlFields
  <2>5. Bus(z) /\ F4c!Settled(z) = F4c!Settled(x)
    <3>1. F4c!Settled(y) = F4c!Settled(x)
      BY <1>2, <1>3, <1>8 DEF Advances
    <3> QED
      BY <1>5, <2>3, <3>1
  <2>6. F4c!Index(a) \in Blocks /\ F4c!Tag(a) \in Nat
    BY <1>0, Addressing DEF Blocks
  <2>7. \A i \in Blocks : \/ z.tagram[i] = x.tagram[i]
                          \/ z.tagram[i] = [tag |-> F4c!Tag(a), present |-> {}]
    BY <2>2, <2>4, <2>6 DEF Coherence, Shape
  <2>8. Shape(z)
    <3>1. [tag |-> F4c!Tag(a), present |-> {}] \in [tag : Nat, present : SUBSET Parts]
      BY <2>6
    <3>2. DOMAIN z.tagram = Blocks
      BY <2>2, <2>4 DEF Coherence, Shape
    <3> QED
      BY <2>3, <2>7, <3>1, <3>2 DEF Coherence, Shape, Iostates
  <2>9. Agrees(z)
    <3> SUFFICES ASSUME NEW i \in Blocks, NEW j \in z.tagram[i].present
                 PROVE  Agree(z, i, j)
      BY DEF Agrees
    <3>1. z.tagram[i] = x.tagram[i]
      BY <2>7
    <3>2. Agree(x, i, j)
      BY <1>8, <3>1 DEF Coherence, Agrees, Unsure
    <3> QED
      BY <2>3, <2>5, <3>1, <3>2 DEF Agree
  <2>10. Pending(z)
    BY <2>3 DEF Pending
  <2> QED
    BY <2>3, <2>4, <2>5, <2>8, <2>9, <2>10 DEF Coherence
<1> QED
  BY <1>0, <1>6, <1>7, <1>8 DEF Filling

(* A call of Iodecode.                                                     *)
LEMMA IodecodeEffect ==
  ASSUME NEW w, Coherence(w), Placed(w), Through(w)
  PROVE  LET z == F4c!Iodecode(w)
         IN  /\ Kept(w, z, IoKeeps) /\ (~w.read => z.dbus = w.dbus)
             /\ Coherence(z) /\ (z.iostate # "local" => F4c!Stalled(z))
<1> DEFINE x == [w EXCEPT !.cachestall = FALSE]
           z == F4c!Iodecode(w)
           Good == /\ Kept(x, z, IoKeeps) /\ (~x.read => z.dbus = x.dbus)
                   /\ Coherence(z) /\ (z.iostate # "local" => F4c!Stalled(z))
<1>1. Kept(w, x, Fields \ {"cachestall"}) /\ ~x.cachestall
  BY DEF Coherence, Kept, Fields, BusFields, CacheFields
<1>2. z = IF x.iostate = "local" THEN F4c!Local(x)
          ELSE F4c!Nonlocal(x, F4c!Biu(F4c!Retagged(x),
                 x.iostate \in {"newblock", "newdata", "replacedatawait"}))
  BY DEF F4c!Iodecode
<1> HIDE DEF x, z
<1>3. Coherence(x)
  <2>1. Kept(w, x, StateFields) /\ Kept(w, x, AccessFields)
    BY <1>1 DEF Kept, Fields, BusFields, CacheFields, AccessFields, StateFields
  <2> QED
    BY <2>1, SameCoherence
<1>4. Placed(x) /\ Through(x)
  <2>1. Kept(w, x, {"abus", "dbus", "read", "bytemode", "tagram", "attributes", "cacheenabled"})
    BY <1>1 DEF Kept, Fields, BusFields, CacheFields, AccessFields, SwitchFields
  <2>2. /\ F4c!Present(x, x.abus) <=> F4c!Present(w, w.abus)
        /\ F4c!Cached(x) <=> F4c!Cached(w)
    BY <2>1 DEF Kept, F4c!Present, F4c!Blockhit, F4c!Cached, F4c!Cachable, F4c!Attrib
  <2>3. x.abus = w.abus /\ x.dbus = w.dbus /\ (x.read <=> w.read) /\ (x.bytemode <=> w.bytemode)
    BY <2>1 DEF Kept
  <2> QED
    BY <2>2, <2>3 DEF Placed, InPlace, Through
<1>5. Good
  <2>1. CASE x.iostate # "local"
    BY <1>2, <1>3, <1>4, <2>1, NonlocalEffect
  <2>2. CASE x.iostate = "local" /\ x.abus <= Lowtop
    <3>1. z = F4c!Memoryaccess(x, F4c!Biu(x, ~F4c!Cachehit(x)))
      BY <1>2, <2>2 DEF F4c!Local
    <3>2. Kept(x, z, IoKeeps) /\ (~x.read => z.dbus = x.dbus)
      BY <1>3, <3>1, MemoryKeeps DEF Coherence, Kept
    <3>3. Coherence(z) /\ (z.iostate # "local" => F4c!Stalled(z))
      BY <1>1, <1>3, <1>4, <2>2, <3>1, MemoryEffect
    <3> QED
      BY <3>2, <3>3
  <2>3. CASE x.iostate = "local" /\ ~(x.abus <= Lowtop)
    <3>1. z = F4c!Internalaccess(x, F4c!Biu(x, FALSE))
      BY <1>2, <2>3 DEF F4c!Local
    <3>2. x.abus \in Nat /\ x.abus > Lowtop
      BY <1>4, <2>3, CacheAssumption DEF Placed
    <3> QED
      BY <1>1, <1>3, <2>3, <3>1, <3>2, InternalEffect
  <2> QED
    BY <2>1, <2>2, <2>3
<1>6. Kept(w, x, IoKeeps) /\ x.dbus = w.dbus /\ (x.read <=> w.read)
  BY <1>1 DEF Kept, Fields, BusFields, CacheFields, AccessFields, ControlFields, IoKeeps
<1> QED
  BY <1>5, <1>6 DEF Kept, z

(* A byte that is stored is in all four places of the bus.                 *)
LEMMA PowerCounts ==
  ASSUME NEW n \in Nat
  PROVE  /\ IsFiniteSet(SUBSET (1 .. n))
         /\ Cardinality(SUBSET (1 .. n)) = 2^n
<1>1. IsFiniteSet(1 .. n) /\ Cardinality(1 .. n) = n
  BY FS_Interval
<1> QED
  BY <1>1, FS_SUBSET

LEMMA ByteSize == F4c!B!Byte = F4c!Byte /\ F4c!Byte \in Nat /\ F4c!Byte > 0
<1> DEFINE n == W \div 4
<1>1. n \in Nat
  BY SizeAssumption
<1> HIDE DEF n
<1>2. 2^n \in Nat
  BY <1>1, PowerCounts, FS_CardinalityType
<1>3. 2^n # 0
  <2>1. SUBSET (1 .. n) # {}
    OBVIOUS
  <2> QED
    BY <1>1, <2>1, PowerCounts, FS_EmptySet
<1> QED
  BY <1>2, <1>3 DEF F4c!B!Byte, F4c!Byte, n

LEMMA ByteSpread ==
  ASSUME NEW v \in Int, NEW a \in Nat
  PROVE  LET b == F4c!Byte
             s == (v % b) * (1 + b + b * b + b * b * b)
         IN  F4c!B!Byteof(s, a) = s % F4c!B!Byte
<1> DEFINE b == F4c!Byte
           u == v % b
           s == u * (1 + b + b * b + b * b * b)
<1>1. b \in Nat /\ b > 0 /\ F4c!B!Byte = b
  BY ByteSize
<1> HIDE DEF b
<1>2. u \in 0 .. b - 1
  BY <1>1
<1> HIDE DEF u
<1> DEFINE p == u + u * b
           q == u + u * b + u * (b * b)
           c == b * b
           d == b * b * b
<1>3. /\ p \in Nat /\ q \in Nat /\ c \in Nat /\ d \in Nat /\ s \in Nat
      /\ q = p * b + u /\ p = u * b + u
      /\ s = q * b + u /\ s = p * c + p /\ s = u * d + q
  BY <1>1, <1>2
<1>4. c > 0 /\ p \in 0 .. c - 1
  <2>1. u * b <= (b - 1) * b
    BY <1>1, <1>2
  <2> QED
    BY <1>1, <1>2, <1>3, <2>1
<1>5. d > 0 /\ q \in 0 .. d - 1
  <2>1. u * c <= (b - 1) * c
    BY <1>1, <1>2, <1>3
  <2>2. (b - 1) * c = d - c /\ q = p + u * c /\ d = b * c
    BY <1>1, <1>2
  <2>3. b * c >= c
    BY <1>1, <1>3
  <2> HIDE DEF c, d, p, q
  <2> QED
    BY <1>1, <1>2, <1>3, <1>4, <2>1, <2>2, <2>3
<1> HIDE DEF s, p, q, c, d
<1>6. s % b = u /\ s \div b = q
  BY <1>1, <1>2, <1>3, DivisionUnique
<1>7. s \div c = p /\ s \div d = u
  <2>1. s \in Int /\ c \in Nat /\ c > 0 /\ p \in Int /\ p \in 0 .. c - 1 /\ s = p * c + p
    BY <1>3, <1>4
  <2>2. d \in Nat /\ d > 0 /\ u \in Int /\ q \in 0 .. d - 1 /\ s = u * d + q
    BY <1>2, <1>3, <1>5
  <2>3. s \div c = p
    BY <2>1, DivisionUnique
  <2>4. s \div d = u
    BY <2>1, <2>2, DivisionUnique
  <2> QED
    BY <2>3, <2>4
<1>8. p % b = u /\ q % b = u /\ u % b = u
  <2>1. p % b = u /\ q % b = u
    BY <1>1, <1>2, <1>3, DivisionUnique
  <2>2. u % b = u
    BY <1>1, <1>2
  <2> QED
    BY <2>1, <2>2
<1>9. F4c!B!Weight(a) \in {d, c, b, 1}
  <2>1. a % 4 = 0 \/ a % 4 = 1 \/ a % 4 = 2 \/ a % 4 = 3
    OBVIOUS
  <2>2. F4c!B!Weight(a) = <<d, c, b, 1>>[(a % 4) + 1]
    BY <1>1 DEF F4c!B!Weight, c, d
  <2> QED
    BY <2>1, <2>2
<1>10. (s \div F4c!B!Weight(a)) % b = u
  <2>1. s \div 1 = s
    BY <1>3
  <2> QED
    BY <1>6, <1>7, <1>8, <1>9, <2>1
<1> QED
  BY <1>1, <1>6, <1>10 DEF F4c!B!Byteof, s, u, b

LEMMA PhiaInPlace ==
  ASSUME NEW x, Fields \subseteq DOMAIN x, x.state \in States, Legal4c(x.ir),
         x.state = "STORE" => F4c!Readreg(x, x.oldir.reg2) \in Int,
         F4c!Cyclephia(x).abus \in Nat
  PROVE  InPlace(F4c!Cyclephia(x))
<1> DEFINE z == F4c!Cyclephia(x)
<1>1. CASE x.state = "STORE"
  <2> DEFINE v == F4c!Readreg(x, x.oldir.reg2)
             b == F4c!Byte
             s == (v % b) * (1 + b + b * b + b * b * b)
             t == x.oldir.type = "STOREBYTE"
  <2>1. z = [x EXCEPT !.abus = x.aluout, !.read = FALSE, !.bytemode = t, !.dbus = IF t THEN s ELSE v]
    BY <1>1 DEF F4c!Cyclephia, F4c!Storephia
  <2>2. F4c!B!Byteof(s, z.abus) = s % F4c!B!Byte
    BY <1>1, ByteSpread
  <2> HIDE DEF z, v, b, s, t
  <2>3. (z.bytemode <=> t) /\ z.dbus = IF t THEN s ELSE v
    BY <2>1 DEF Fields, BusFields, AccessFields, t
  <2> QED
    BY <2>2, <2>3 DEF InPlace, z
<1>2. CASE x.state = "EXEC"
  <2> DEFINE y == [F4c!Reading(x, F4c!Asrc(x)) EXCEPT !.bbus = F4c!Bsrc(x), !.tbus = F4c!Tsrc(x)]
  <2>1. y.read /\ y.ir = x.ir /\ Fields \subseteq DOMAIN y
    BY DEF F4c!Reading, Fields, BusFields, AccessFields, ControlFields
  <2>2. z = F4c!Stackop(y)
    BY <1>2 DEF F4c!Cyclephia, F4c!Execphia
  <2> HIDE DEF y, z
  <2>3. \/ z = y
        \/ \E s : z = [y EXCEPT !.r = s]
        \/ \E s : z = [y EXCEPT !.p = s]
        \/ \E s, t : z = [y EXCEPT !.p = s, !.r = t]
    BY <2>1, <2>2 DEF F4c!Stackop, Legal4c, F4c!Flows, F4c!Operands, F4c!Loads, F4c!Stores
  <2>4. z.read
    BY <2>1, <2>3 DEF Fields, BusFields, AccessFields
  <2> QED
    BY <2>4 DEF InPlace, z
<1>3. CASE x.state \in {"INT", "LOAD", "SQUASH"}
  <2>1. z = F4c!Intphia(x) \/ z = F4c!Loadphia(x) \/ z = F4c!Squashphia(x)
    BY <1>3 DEF F4c!Cyclephia
  <2>2. F4c!Intphia(x).read /\ F4c!Loadphia(x).read /\ F4c!Squashphia(x).read
    BY DEF F4c!Intphia, F4c!Loadphia, F4c!Squashphia, F4c!Reading, F4c!Interruptvector,
           F4c!F4!Interruptvector, Fields, BusFields, AccessFields
  <2> HIDE DEF z
  <2> QED
    BY <2>1, <2>2 DEF InPlace, z
<1>4. CASE x.state \in States \ {"STORE", "EXEC", "INT", "LOAD", "SQUASH"}
  <2>1. \/ z = F4c!Rsover1phia(x) \/ z = F4c!Rsunder1phia(x) \/ z = F4c!Psover1phia(x)
        \/ z = F4c!Psunder1phia(x) \/ z = F4c!Rsunder2phia(x) \/ z = F4c!Psunder2phia(x)
        \/ z = F4c!Rsover2phia(x) \/ z = F4c!Psover2phia(x)
    BY <1>4 DEF F4c!Cyclephia, States
  <2>2. /\ ~F4c!Rsover1phia(x).bytemode /\ ~F4c!Rsunder1phia(x).bytemode
        /\ ~F4c!Psover1phia(x).bytemode /\ ~F4c!Psunder1phia(x).bytemode
    BY DEF F4c!Rsover1phia, F4c!Rsunder1phia, F4c!Psover1phia, F4c!Psunder1phia, F4c!Reading,
           Fields, BusFields, AccessFields
  <2>3. /\ ~F4c!Rsunder2phia(x).bytemode /\ ~F4c!Psunder2phia(x).bytemode
        /\ ~F4c!Rsover2phia(x).bytemode /\ ~F4c!Psover2phia(x).bytemode
    BY DEF F4c!Rsunder2phia, F4c!Psunder2phia, F4c!Rsover2phia, F4c!Psover2phia, F4c!Reading,
           F4c!Writing, Fields, BusFields, AccessFields
  <2> HIDE DEF z
  <2> QED
    BY <2>1, <2>2, <2>3 DEF InPlace, z
<1> QED
  BY <1>1, <1>2, <1>3, <1>4

Sound(x) == Coherence(x) /\ Control(x) /\ InPlace(x) /\ (x.iostate # "local" => F4c!Stalled(x))

LEMMA AskedInPlace ==
  ASSUME NEW x, Sound(x), Wellbehaved(x)
  PROVE  InPlace(Asked(x))
<1>1. CASE F4c!Stalled(x)
  BY <1>1 DEF Asked, Sound
<1>2. CASE ~F4c!Stalled(x)
  <2> DEFINE a == [x EXCEPT !.state = x.nextstate]
             b == F4c!Writeback(a)
             c == F4c!Cyclephia(b)
             z == F4c!Nextstate(c)
  <2>1. Asked(x) = z
    BY <1>2 DEF Asked, F4c!Dpphia
  <2>2. Kept(x, a, Fields \ {"state"}) /\ a.state = x.nextstate
    BY DEF Sound, Control, Kept, Fields, BusFields, CacheFields, AccessFields, ControlFields,
           SwitchFields
  <2>3. b = Writtenback(x)
    BY DEF Writtenback
  <2> HIDE DEF a
  <2>4. /\ Fields \subseteq DOMAIN a /\ DOMAIN a.udr = Coprocessor
        /\ a.writeback = x.writeback /\ a.oldir = x.oldir /\ a.ir = x.ir
    BY <2>2 DEF Sound, Control, Kept, Fields, BusFields, CacheFields, AccessFields, ControlFields
  <2>5. Kept(a, b, BusFields \cup ControlFields)
    BY <2>4, WritebackKeeps DEF Sound, Control
  <2> HIDE DEF b
  <2>6. /\ Fields \subseteq DOMAIN b /\ b.state = x.nextstate /\ b.ir = x.ir
        /\ b.oldir = x.oldir
    BY <2>2, <2>4, <2>5 DEF Kept, ControlFields
  <2>7. b.state \in States /\ Legal4c(b.ir)
    BY <2>6 DEF Sound, Control, Wellbehaved
  <2>8. Kept(b, c, ControlFields) /\ Fields \subseteq DOMAIN c
    BY <2>6, <2>7, PhiaKeeps DEF Kept
  <2> HIDE DEF c
  <2>9. Kept(c, z, Fields \ {"nextstate"})
    BY <2>6, <2>7, <2>8, NextstateEffect DEF Kept, ControlFields
  <2> HIDE DEF z
  <2>10. z.abus = c.abus /\ z.dbus = c.dbus /\ (z.read <=> c.read) /\ (z.bytemode <=> c.bytemode)
    BY <2>9 DEF Kept, Fields, BusFields, AccessFields
  <2>11. c.abus \in Nat
    BY <2>1, <2>10 DEF Wellbehaved
  <2>12. b.state = "STORE" => F4c!Readreg(b, b.oldir.reg2) \in Int
    BY <1>2, <2>3, <2>6 DEF Wellbehaved
  <2>13. InPlace(c)
    BY <2>6, <2>7, <2>11, <2>12, PhiaInPlace DEF c
  <2> QED
    BY <2>1, <2>10, <2>13 DEF InPlace
<1> QED
  BY <1>1, <1>2

LEMMA CycleSound ==
  ASSUME NEW x, Sound(x), Wellbehaved(x)
  PROVE  Sound(F4c!Singlestep(x))
<1> DEFINE w == Asked(x)
           z == F4c!Phia(x)
           y == F4c!Singlestep(x)
<1> SUFFICES Sound(y)
  OBVIOUS
<1>1. z = F4c!Iodecode(w) /\ y = IF F4c!Stalled(z) THEN z ELSE F4c!Dpphib(z)
  BY DEF F4c!Phia, F4c!Phib, F4c!Singlestep, Asked
<1>2. Coherence(w) /\ Halfway(w) /\ w.ir = x.ir
  <2>1. CASE F4c!Stalled(x)
    BY <2>1, StalledControl DEF Sound, Asked
  <2>2. CASE ~F4c!Stalled(x)
    <3>1. Kept(x, w, CacheFields \cup {"ir"}) /\ Halfway(w)
      BY <2>2, DpphiaEffect DEF Sound, Wellbehaved, Asked
    <3>2. x.iostate = "local" /\ x.biu # "readcount"
      BY <2>2 DEF Sound, Coherence, Bus, F4c!Stalled
    <3>3. Kept(x, w, StateFields)
      BY <3>1 DEF Kept, CacheFields, StateFields
    <3>4. w.ir = x.ir
      BY <3>1 DEF Kept
    <3> HIDE DEF w
    <3> QED
      BY <3>1, <3>2, <3>3, <3>4, SameCoherence DEF Sound
  <2> QED
    BY <2>1, <2>2
<1>3. Placed(w) /\ Through(w)
  BY AskedInPlace DEF Wellbehaved, Placed
<1>4. /\ Kept(w, z, IoKeeps) /\ (~w.read => z.dbus = w.dbus)
      /\ Coherence(z) /\ (z.iostate # "local" => F4c!Stalled(z))
  BY <1>1, <1>2, <1>3, IodecodeEffect
<1> HIDE DEF w, z, y
<1>5. Halfway(z) /\ Legal4c(z.ir)
  BY <1>2, <1>4 DEF Wellbehaved, Legal4c, Halfway, Kept, IoKeeps, ControlFields, Coherence
<1>6. InPlace(z)
  BY <1>3, <1>4 DEF Placed, InPlace, Kept, IoKeeps
<1>7. CASE F4c!Stalled(z)
  BY <1>1, <1>4, <1>5, <1>6, <1>7, StalledControl DEF Sound
<1>8. CASE ~F4c!Stalled(z)
  <2>1. y = F4c!Dpphib(z)
    BY <1>1, <1>8
  <2>2. Kept(z, y, BusFields \cup SwitchFields) /\ Control(y)
    BY <1>5, <1>8, <2>1, DpphibEffect DEF z
  <2>3. Kept(z, y, StateFields) /\ Kept(z, y, AccessFields) /\ y.iostate = z.iostate
    BY <2>2 DEF Kept, BusFields, CacheFields, AccessFields, StateFields
  <2>4. InPlace(y)
    BY <1>6, <2>3 DEF InPlace, Kept, AccessFields
  <2> QED
    BY <1>4, <1>8, <2>2, <2>3, <2>4, SameCoherence DEF Sound
<1> QED
  BY <1>7, <1>8

-----------------------------------------------------------------------------
(* FRISC 4c: from its start.                                               *)

LEMMA FieldsSound ==
  ASSUME NEW x, NEW y, Sound(x), Kept(x, y, Fields)
  PROVE  Sound(y)
<1>1. Kept(x, y, StateFields) /\ Kept(x, y, AccessFields)
  BY DEF Kept, Fields, BusFields, CacheFields, AccessFields, StateFields
<1>2. Coherence(y)
  BY <1>1, SameCoherence DEF Sound
<1>3. Control(y) /\ (y.iostate # "local" => F4c!Stalled(y))
  BY DEF Sound, Control, Kept, F4c!Stalled, Fields, BusFields, CacheFields, ControlFields
<1>4. InPlace(y)
  BY <1>1 DEF Sound, InPlace, Kept, AccessFields
<1> QED
  BY <1>2, <1>3, <1>4 DEF Sound

(* The processor is reading its first instruction.                         *)
Fetching(x) ==
  /\ x.phase = 1 /\ x.state = "EXEC" /\ x.nextstate = "EXEC" /\ x.writeback = "Nop"
  /\ DOMAIN x.udr = Coprocessor /\ x.read /\ ~x.bytemode
  /\ x.iostate = "local" /\ x.biu = "idle"

LEMMA StartSound ==
  ASSUME NEW x, Coherence(x), Fetching(x), NEW addr \in Nat
  PROVE  Sound(F4c!Startat(x, addr))
<1> DEFINE w == [x EXCEPT !.pc = addr, !.abus = addr]
           z == F4c!Startat(x, addr)
<1>1. z = F4c!Iodecode(w)
  BY DEF F4c!Startat
<1>2. Kept(x, w, Fields \ {"abus"}) /\ w.abus = addr
  BY DEF Kept, Coherence, Fields, BusFields, CacheFields, AccessFields, ControlFields, SwitchFields
<1> HIDE DEF w, z
<1>3. Coherence(w)
  <2>1. Kept(x, w, StateFields)
    BY <1>2 DEF Kept, Fields, BusFields, CacheFields, StateFields
  <2> QED
    BY <2>1, SameCoherence DEF Fetching
<1>4. Fetching(w)
  BY <1>2 DEF Kept, Fetching, Fields, BusFields, CacheFields, AccessFields, ControlFields
<1>5. Placed(w) /\ Through(w)
  BY <1>2, <1>4 DEF Placed, InPlace, Through, Fetching
<1>6. Kept(w, z, IoKeeps) /\ Coherence(z) /\ (z.iostate # "local" => F4c!Stalled(z))
  BY <1>1, <1>3, <1>5, IodecodeEffect
<1>7. Control(z)
  BY <1>4, <1>6 DEF Control, Coherence, Fetching, Kept, IoKeeps, ControlFields, States, Writebacks,
                    Registering
<1>8. InPlace(z)
  BY <1>4, <1>6 DEF InPlace, Fetching, Kept, IoKeeps
<1> QED
  BY <1>6, <1>7, <1>8 DEF Sound, z

(* The reset reads the boot ROM, which takes no time.                      *)
LEMMA ResetEffect ==
  ASSUME NEW w, Coherence(w), Fetching(w), w.abus = Rombase, "ibrenable" \in DOMAIN w, w.ibrenable
  PROVE  Coherence(F4c!Iodecode(w)) /\ Fetching(F4c!Iodecode(w))
<1> DEFINE x == [w EXCEPT !.cachestall = FALSE]
           y == F4c!Unit(x, "idle", FALSE)
           z == F4c!Iodecode(w)
<1>0. Lowtop \in Nat /\ Rombase \in Nat /\ Lowtop < Rombase /\ Rombase < Iobase /\ Iobase < Tagbase
      /\ Iobase \in Nat /\ Tagbase \in Nat
  BY CacheAssumption
<1>1. /\ Fields \subseteq DOMAIN x /\ x.iostate = "local" /\ x.biu = "idle" /\ x.read
      /\ x.abus = Rombase /\ x.ibrenable
  BY DEF Coherence, Fetching, Fields, BusFields, CacheFields, AccessFields
<1>2. F4c!Biu(x, FALSE) = y
  BY <1>1 DEF F4c!Biu
<1>3. z = F4c!Internalaccess(x, y)
  <2>1. z = F4c!Local(x)
    BY <1>1 DEF F4c!Iodecode
  <2> HIDE DEF x, z, y
  <2>2. ~(x.abus <= Lowtop)
    BY <1>0, <1>1
  <2> QED
    BY <1>2, <2>1, <2>2 DEF F4c!Local
<1>4. \E v : z = [y EXCEPT !.dbus = v]
  <2> HIDE DEF x, z, y
  <2>1. F4c!Internalaccess(x, y) = [y EXCEPT !.dbus = x.rom[(x.abus - Rombase) \div 4]]
    BY <1>0, <1>1 DEF F4c!Internalaccess
  <2> QED
    BY <1>3, <2>1
<1>5. /\ Kept(w, z, IoKeeps) /\ z.biu = "idle" /\ z.iostate = "local"
  <2> HIDE DEF z
  <2> QED
    BY <1>4 DEF F4c!Unit, Coherence, Fetching, Kept, IoKeeps, ControlFields, Fields, BusFields,
                CacheFields, AccessFields
<1>6. Placed(w) /\ Through(w)
  BY <1>0 DEF Placed, InPlace, Through, Fetching
<1>7. Coherence(z)
  BY <1>6, IodecodeEffect
<1> HIDE DEF z
<1>8. Fetching(z)
  BY <1>5 DEF Fetching, Kept, IoKeeps, ControlFields
<1> QED
  BY <1>7, <1>8 DEF z

LEMMA ResetSound ==
  ASSUME NEW mem, NEW rom, NEW attributes, 0 .. Lowtop \div 4 \subseteq DOMAIN mem
  PROVE  LET x == F4c!Resetregs(F4c!Startup(mem, rom, attributes))
         IN  Coherence(x) /\ Fetching(x)
<1> DEFINE s == F4c!Startup(mem, rom, attributes)
           x == F4c!Resetregs(s)
           r == F4c!F4!F3!Resetstack(s.r)
           p == F4c!F4!F3!Resetstack(s.p)
           y == [s EXCEPT !.state = "EXEC", !.nextstate = "EXEC", !.dbus = F4c!Noinstr, !.abus = 0,
                          !.bbus = 0, !.tbus = 0, !.r = r, !.p = p,
                          !.rcache = FALSE, !.pcache = FALSE, !.actualie = FALSE, !.ie = FALSE,
                          !.ibrenable = TRUE, !.cacheenabled = FALSE, !.active = {},
                          !.ir = F4c!Noinstr, !.y = 0, !.flag = 0, !.pc = 0, !.portaddr = 0,
                          !.portvalue = 0, !.portio = "RD", !.read = TRUE, !.bytemode = FALSE]
           h == F4c!Holding(y, "hold", "Nop")
           w == [h EXCEPT !.pc = Rombase, !.abus = Rombase]
<1>1. x = F4c!Iodecode(w)
  BY DEF F4c!Resetregs, F4c!Startat
<1>2. /\ Fields \subseteq DOMAIN s /\ {"pc", "hold", "torptr", "ibrenable"} \subseteq DOMAIN s
      /\ s.mem = mem /\ s.iostate = "local" /\ s.biu = "idle" /\ s.phase = 1
      /\ DOMAIN s.udr = Coprocessor
      /\ s.tagram = [i \in 0 .. Nsets - 1 |-> [tag |-> 0, present |-> {}]]
      /\ s.dataram = [i \in 0 .. Nsets * Nsub - 1 |-> 0]
  BY DEF F4c!Startup, Fields, BusFields, CacheFields, AccessFields, ControlFields, SwitchFields,
         Coprocessor
<1> HIDE DEF s, x, r, p
<1>3. /\ Kept(s, y, {"mem", "tagram", "dataram", "iostate", "biu", "phase", "udr"})
      /\ y.state = "EXEC" /\ y.nextstate = "EXEC" /\ y.portio = "RD" /\ y.read /\ ~y.bytemode
      /\ y.ibrenable
  BY <1>2 DEF Kept, Fields, BusFields, CacheFields, AccessFields, ControlFields, SwitchFields
<1> HIDE DEF y
<1>4. /\ Kept(y, w, {"mem", "tagram", "dataram", "iostate", "biu", "phase", "udr", "state",
                     "nextstate", "portio", "read", "bytemode", "ibrenable"})
      /\ w.writeback = "Nop" /\ w.abus = Rombase
  BY <1>2, <1>3 DEF F4c!Holding, Kept, Fields, BusFields, CacheFields, AccessFields, ControlFields
<1> HIDE DEF w
<1>5. /\ Fields \subseteq DOMAIN w /\ "ibrenable" \in DOMAIN w /\ w.ibrenable
      /\ Fetching(w)
  BY <1>2, <1>3, <1>4 DEF Kept, Fetching
<1>6. Bus(w)
  BY <1>2, <1>3, <1>4 DEF Kept, Bus, Bius, Portios
<1>7. Shape(w) /\ Agrees(w) /\ Pending(w)
  <2>1. w.iostate = "local" /\ w.tagram = [i \in Blocks |-> [tag |-> 0, present |-> {}]]
        /\ DOMAIN w.dataram = 0 .. Nsets * Nsub - 1
    BY <1>2, <1>3, <1>4 DEF Kept, Blocks
  <2>2. Nsets * Nsub = Nsub * Nsets
    BY CacheAssumption
  <2>3. [tag |-> 0, present |-> {}] \in [tag : Nat, present : SUBSET Parts]
    OBVIOUS
  <2> QED
    BY <2>1, <2>2, <2>3 DEF Shape, Agrees, Pending, Iostates
<1> QED
  BY <1>1, <1>4, <1>5, <1>6, <1>7, ResetEffect DEF Coherence, x, s

(* Numbers of steps, of which the least that goes wrong is picked.         *)
Less == {ss \in Nat \X Nat : ss[1] < ss[2]}

LEMMA LeastNatural ==
  ASSUME NEW S \in SUBSET Nat, S # {}
  PROVE  \E n \in S : \A i \in S : n <= i
<1>1. IsWellFoundedOn(Less, Nat)
  <2>1. OpToRel(<, Nat) = Less
    BY Zenon DEF OpToRel, Less
  <2> QED
    BY <2>1, NatLessThanWellFounded, Zenon
<1>2. \E n \in S : \A i \in S : <<i, n>> \notin Less
  <2> HIDE DEF Less
  <2> QED
    BY <1>1, WFMin
<1>3. \A i, j \in Nat : i < j => <<i, j>> \in Less
  BY DEF Less
<1>4. PICK n \in S : \A i \in S : <<i, n>> \notin Less
  BY <1>2
<1>5. \A i \in S : ~(i < n)
  BY <1>3, <1>4
<1> QED
  BY <1>5

(* A machine that a program has brought, in n cycles, from the start.      *)
Boots(f, n) ==
  /\ n \in Nat
  /\ \E mem, rom, attributes : \E addr \in Nat :
       /\ 0 .. Lowtop \div 4 \subseteq DOMAIN mem
       /\ f[0] = F4c!Startat(F4c!Resetregs(F4c!Startup(mem, rom, attributes)), addr)
  /\ \A i \in 0 .. n - 1 : Wellbehaved(f[i]) /\ f[i + 1] = F4c!Singlestep(f[i])

LEMMA BootSound ==
  ASSUME NEW f, NEW n, Boots(f, n)
  PROVE  Sound(f[n])
<1> DEFINE Bad == {i \in 0 .. n : ~Sound(f[i])}
<1>1. n \in Nat
  BY DEF Boots
<1>2. Sound(f[0])
  <2>1. PICK mem, rom, attributes : \E addr \in Nat :
          /\ 0 .. Lowtop \div 4 \subseteq DOMAIN mem
          /\ f[0] = F4c!Startat(F4c!Resetregs(F4c!Startup(mem, rom, attributes)), addr)
    BY DEF Boots
  <2> QED
    BY <2>1, ResetSound, StartSound
<1> SUFFICES ASSUME Bad # {}
             PROVE  FALSE
  BY <1>1
<1>3. PICK k \in Bad : \A i \in Bad : k <= i
  <2>1. Bad \in SUBSET Nat /\ Bad # {}
    BY <1>1
  <2> HIDE DEF Bad
  <2> QED
    BY <2>1, LeastNatural
<1>4. k # 0 /\ k \in 0 .. n
  BY <1>2, <1>3
<1>5. k - 1 \in 0 .. n - 1 /\ k - 1 \in 0 .. n /\ k - 1 \notin Bad /\ (k - 1) + 1 = k
  BY <1>1, <1>3, <1>4
<1> DEFINE j == k - 1
<1>6. Sound(f[j])
  BY <1>5
<1>7. Wellbehaved(f[j]) /\ f[j + 1] = F4c!Singlestep(f[j])
  BY <1>5 DEF Boots
<1> HIDE DEF j
<1>8. Sound(f[j + 1])
  BY <1>6, <1>7, CycleSound
<1>9. Sound(f[k])
  BY <1>5, <1>8 DEF j
<1> QED
  BY <1>3, <1>9

=============================================================================
