---------------------------- MODULE FriscSimProofs ----------------------------
(***************************************************************************)
(* Proofs about module FriscSim.                                           *)
(***************************************************************************)
EXTENDS FriscSim, CacheProofs

-----------------------------------------------------------------------------
(* FRISC 4c: what a run of the simulator keeps.                            *)

SoundInv == arch = "frisc4c" => Sound(m)

LEMMA SoundInit ==
  ASSUME \A c \in Scenarios : c.arch = "frisc4c" => \E f, n : Boots(f, n) /\ Boot(c) = f[n],
         Init
  PROVE  SoundInv
BY BootSound DEF Init, SoundInv

LEMMA SoundNext ==
  ASSUME SoundInv, Wellused, [Next]_vars
  PROVE  SoundInv'
<1> SUFFICES ASSUME Next, arch = "frisc4c", arch' = arch
             PROVE  Sound(m')
  <2>1. CASE UNCHANGED vars
    BY <2>1 DEF vars, SoundInv
  <2>2. CASE Next
    BY <2>2 DEF SoundInv, Next, Phia, Phib, Inton, Intoff, Dmastart, Dmaend, Becomes
  <2> QED
    BY <2>1, <2>2
<1>1. Sound(m) /\ Wellbehaved(m) /\ m.phase = 1 /\ Fields \subseteq DOMAIN m
  BY DEF SoundInv, Wellused, Sound, Control
<1>2. CASE Phia
  <2>1. m' = F4c!Singlestep(m)
    BY <1>1, <1>2 DEF Phia, Becomes, Phiaof
  <2> QED
    BY <1>1, <2>1, CycleSound
<1>3. CASE Phib
  BY <1>1, <1>3 DEF Phib
<1>4. CASE \E n \in Intnumbers : Inton(n) \/ Intoff(n)
  <2>1. PICK n \in Intnumbers : Inton(n) \/ Intoff(n)
    BY <1>4
  <2>2. m' = F4c!Interrupton(m, n) \/ m' = F4c!Interruptoff(m, n)
    BY <2>1 DEF Inton, Intoff, Becomes, Interruptonof, Interruptoffof, Studies
  <2>3. Kept(m, m', Fields)
    BY <1>1, <2>2 DEF F4c!Interrupton, F4c!Interruptoff, F4c!Request, F4c!Withdraw, Kept, Fields,
                 BusFields, CacheFields, AccessFields, ControlFields, SwitchFields
  <2> QED
    BY <1>1, <2>3, FieldsSound
<1>5. CASE Dmastart \/ Dmaend
  <2>1. Kept(m, m', Fields)
    BY <1>1, <1>5 DEF Dmastart, Dmaend, Becomes, F3!Dmastart, F3!Dmaend, Kept, Fields, BusFields,
                 CacheFields, AccessFields, ControlFields, SwitchFields
  <2> QED
    BY <1>1, <2>1, FieldsSound
<1> QED
  BY <1>2, <1>3, <1>4, <1>5 DEF Next

LEMMA SoundCoherent ==
  ASSUME SoundInv
  PROVE  CacheCoherent
BY DEF SoundInv, Sound, Coherence, Shape, Agrees, Unsure, Agree, Place, Cellof, CacheCoherent

(* The cache of FRISC 4c agrees with memory.  Hypotheses: the machine of   *)
(* every scenario has been booted from the reset by cycles of a program,   *)
(* and no program, there or in the run, meets a word that is not an        *)
(* instruction, or stores around the cache to a cell that it has.          *)
THEOREM SimCacheCoherent ==
  ASSUME \A c \in Scenarios : c.arch = "frisc4c" => \E f, n : Boots(f, n) /\ Boot(c) = f[n]
  PROVE  Spec /\ []Wellused => []CacheCoherent
<1>1. Init => SoundInv
  BY SoundInit
<1>2. SoundInv /\ Wellused /\ [Next]_vars => SoundInv'
  BY SoundNext
<1>3. SoundInv => CacheCoherent
  BY SoundCoherent
<1> QED
  BY <1>1, <1>2, <1>3, PTL DEF Spec

===============================================================================
