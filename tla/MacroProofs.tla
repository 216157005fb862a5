----------------------------- MODULE MacroProofs -----------------------------
(***************************************************************************)
(* Proofs about module MacroRun, for every list of processes, number of    *)
(* contexts and set of macros: access to the contexts is exclusive, the    *)
(* running macro is the one its context says, macros run in threads of     *)
(* their own, and no macro leaves its code.  What a command does to a      *)
(* thread depends on nothing but the thread, and a thread whose macros     *)
(* nest their loops properly finds on its stack what it pushed.            *)
(***************************************************************************)
EXTENDS MacroRun, KernelProofs, SequenceTheorems

-----------------------------------------------------------------------------
(* Threads and contexts. *)

\* A context, as a record; its thread, without the echo flag.
IsContext(b) ==
  b = [id |-> b.id, state |-> b.state, echo |-> b.echo, pc |-> b.pc, stack |-> b.stack]
Core(b) == [id |-> b.id, state |-> b.state, pc |-> b.pc, stack |-> b.stack]
IsThread(t) == t = [id |-> t.id, state |-> t.state, pc |-> t.pc, stack |-> t.stack]

\* a is what became of context u, and c what became of its thread.
Alike(u, a, c) ==
  /\ IsContext(a) /\ a.id = u.id /\ a.echo = u.echo
  /\ a.state \in {u.state, Unused, Sleep} /\ c = Core(a)

(* Changes of the stack and the program counter keep the two alike. *)
LEMMA EditsAlike ==
  ASSUME NEW u, IsContext(u), NEW v, v = Core(u), NEW s, NEW p
  PROVE  /\ Alike(u, [u EXCEPT !.stack = s, !.pc = p], [v EXCEPT !.stack = s, !.pc = p])
         /\ Alike(u, [u EXCEPT !.stack = s], [v EXCEPT !.stack = s])
         /\ Alike(u, [u EXCEPT !.state = Sleep], [v EXCEPT !.state = Sleep])
         /\ Alike(u, [u EXCEPT !.state = Unused], [v EXCEPT !.state = Unused])
         /\ Alike(u, u, v)
<1> DEFINE r(st, pc, sk) == [id |-> u.id, state |-> st, echo |-> u.echo, pc |-> pc, stack |-> sk]
<1>1. /\ u = r(u.state, u.pc, u.stack)
      /\ v = [id |-> u.id, state |-> u.state, pc |-> u.pc, stack |-> u.stack]
  BY DEF IsContext, Core
<1>2. /\ [u EXCEPT !.stack = s] = r(u.state, u.pc, s)
      /\ [u EXCEPT !.state = Sleep] = r(Sleep, u.pc, u.stack)
      /\ [u EXCEPT !.state = Unused] = r(Unused, u.pc, u.stack)
      /\ [r(u.state, u.pc, s) EXCEPT !.pc = p] = r(u.state, p, s)
  BY <1>1
<1>3. /\ [v EXCEPT !.stack = s] = Core(r(u.state, u.pc, s))
      /\ [v EXCEPT !.state = Sleep] = Core(r(Sleep, u.pc, u.stack))
      /\ [v EXCEPT !.state = Unused] = Core(r(Unused, u.pc, u.stack))
      /\ [Core(r(u.state, u.pc, s)) EXCEPT !.pc = p] = Core(r(u.state, p, s))
  BY <1>1 DEF Core
<1>4. /\ [u EXCEPT !.stack = s, !.pc = p] = [[u EXCEPT !.stack = s] EXCEPT !.pc = p]
      /\ [v EXCEPT !.stack = s, !.pc = p] = [[v EXCEPT !.stack = s] EXCEPT !.pc = p]
  BY SMT
<1>5. \A st \in {u.state, Unused, Sleep} : \A pc, sk : Alike(u, r(st, pc, sk), Core(r(st, pc, sk)))
  BY DEF Alike, IsContext
<1> HIDE DEF r
<1>6. QED
  <2>1. /\ Alike(u, r(u.state, p, s), Core(r(u.state, p, s)))
        /\ Alike(u, r(u.state, u.pc, s), Core(r(u.state, u.pc, s)))
        /\ Alike(u, r(Sleep, u.pc, u.stack), Core(r(Sleep, u.pc, u.stack)))
        /\ Alike(u, r(Unused, u.pc, u.stack), Core(r(Unused, u.pc, u.stack)))
        /\ Alike(u, r(u.state, u.pc, u.stack), Core(r(u.state, u.pc, u.stack)))
    BY <1>5
  <2>2. /\ [u EXCEPT !.stack = s, !.pc = p] = r(u.state, p, s)
        /\ [v EXCEPT !.stack = s, !.pc = p] = Core(r(u.state, p, s))
    BY <1>2, <1>3, <1>4
  <2>3. u = r(u.state, u.pc, u.stack) /\ v = Core(r(u.state, u.pc, u.stack))
    BY <1>1
  <2>4. QED
    BY <1>2, <1>3, <2>1, <2>2, <2>3, Zenon

(* A command does to a context what it does to its thread. *)
LEMMA CommandOnContext ==
  ASSUME NEW b, IsContext(b)
  PROVE  LET a == AfterCommand(b)
         IN  /\ IsContext(a) /\ a.id = b.id /\ a.echo = b.echo
             /\ a.state \in {b.state, Unused, Sleep}
             /\ Core(a) = AfterCommand(Core(b))
<1> DEFINE o == CommandAt(b.pc)
           u == Loaded(b)
           v == Loaded(Core(b))
<1>1. /\ IsContext(u) /\ u.id = b.id /\ u.echo = b.echo /\ u.state = b.state
      /\ u.stack = b.stack /\ v = Core(u)
  BY DEF Loaded, IsContext, Core
<1>2. AfterCommand(b) = Execute(u, o) /\ AfterCommand(Core(b)) = Execute(v, o)
  BY DEF AfterCommand, Core
<1> HIDE DEF o, u, v
<1>3. v.stack = u.stack /\ v.pc = u.pc
  BY <1>1 DEF Core
<1>4. ASSUME NEW m PROVE Alike(u, NestMacro(u, m), NestMacro(v, m))
  BY <1>1, <1>3, EditsAlike DEF NestMacro
<1>5. Alike(u, EndMacro(u), EndMacro(v))
  <2> DEFINE s == Pop(u.stack, 2)
             p == ToPc(Top(u.stack, 1), Top(u.stack, 0))
  <2>1. /\ EndMacro(u) = IF u.stack = <<>> THEN [u EXCEPT !.state = Unused]
                                           ELSE [u EXCEPT !.stack = s, !.pc = p]
        /\ EndMacro(v) = IF u.stack = <<>> THEN [v EXCEPT !.state = Unused]
                                           ELSE [v EXCEPT !.stack = s, !.pc = p]
    BY <1>1, <1>3 DEF EndMacro, Core, IsContext
  <2> HIDE DEF s, p
  <2>2. /\ Alike(u, [u EXCEPT !.stack = s, !.pc = p], [v EXCEPT !.stack = s, !.pc = p])
        /\ Alike(u, [u EXCEPT !.state = Unused], [v EXCEPT !.state = Unused])
    BY <1>1, EditsAlike
  <2>3. QED
    BY <2>1, <2>2, Zenon
<1>6. ASSUME NEW n PROVE Alike(u, LoopMacro(u, n), LoopMacro(v, n))
  BY <1>1, <1>3, EditsAlike DEF LoopMacro
<1>7. Alike(u, UnloopMacro(u), UnloopMacro(v))
  <2> DEFINE left == (Top(u.stack, 0).count - 1) % CellSize
             s == [u.stack EXCEPT ![Len(u.stack)] = [count |-> left]]
             p == ToPc(Top(u.stack, 2), Top(u.stack, 1))
             l == Pop(u.stack, 3)
  <2>1. /\ UnloopMacro(u) = IF left # 0 THEN [u EXCEPT !.stack = s, !.pc = p]
                                        ELSE [u EXCEPT !.stack = l]
        /\ UnloopMacro(v) = IF left # 0 THEN [v EXCEPT !.stack = s, !.pc = p]
                                        ELSE [v EXCEPT !.stack = l]
    BY <1>3 DEF UnloopMacro
  <2> HIDE DEF left, s, p, l
  <2>2. /\ Alike(u, [u EXCEPT !.stack = s, !.pc = p], [v EXCEPT !.stack = s, !.pc = p])
        /\ Alike(u, [u EXCEPT !.stack = l], [v EXCEPT !.stack = l])
    BY <1>1, EditsAlike
  <2>3. QED
    BY <2>1, <2>2, Zenon
<1>8. /\ Alike(u, [u EXCEPT !.state = Sleep], [v EXCEPT !.state = Sleep])
      /\ Alike(u, u, v)
  BY <1>1, EditsAlike
<1>9. Alike(u, Execute(u, o), Execute(v, o))
  BY <1>4, <1>5, <1>6, <1>7, <1>8 DEF Execute
<1>10. QED
  BY <1>1, <1>2, <1>9 DEF Alike
-----------------------------------------------------------------------------
(* Stacks.  What runs above a stack of height h is a macro, with a number  *)
(* of loops open in it: its level.                                         *)

Level == [macro : Defined, loops : Nat]
LevelOf(depth, pc) == [macro |-> pc.macro, loops |-> depth[pc.macro][pc.at]]

\* A program counter r was pushed above height b.
Saved(stack, b, r) ==
  InCode(r) /\ r \in Pc /\ stack[b + 1] = [half |-> 1, of |-> r] /\ stack[b + 2] = [half |-> 2, of |-> r]

\* The stack below height h is right for what runs above it: it is empty, or
\* a macro that nested this one is to go on, or a loop was begun in it.
Pushed(stack, depth, H, G, h) ==
  \/ G[h].loops = 0 /\ h = 0
  \/ /\ G[h].loops = 0 /\ h - 2 \in H
     /\ \E r \in Pc : Saved(stack, h - 2, r) /\ G[h - 2] = LevelOf(depth, r)
  \/ /\ G[h].loops > 0 /\ h - 3 \in H
     /\ G[h - 3] = [macro |-> G[h].macro, loops |-> G[h].loops - 1]
     /\ \E r \in Pc : Saved(stack, h - 3, r) /\ G[h] = LevelOf(depth, r)
     /\ \E c \in Counts : stack[h] = [count |-> c]

Levels(stack, depth, H, G) ==
  /\ H \subseteq 0..Len(stack) /\ G \in [H -> Level]
  /\ \A h \in H : Pushed(stack, depth, H, G, h)

\* The stack is right for what runs at level v.
Framed(stack, depth, v) ==
  /\ stack \in Seq(Cell)
  /\ \E H \in SUBSET (0..Len(stack)) : \E G \in [H -> Level] :
       /\ Levels(stack, depth, H, G)
       /\ Len(stack) \in H /\ G[Len(stack)] = v

(* An empty stack is right for the first command of a macro. *)
LEMMA EmptyFramed ==
  ASSUME NEW depth, NEW m \in Defined
  PROVE  Framed(<<>>, depth, [macro |-> m, loops |-> 0])
<1> DEFINE G == [h \in {0} |-> [macro |-> m, loops |-> 0]]
<1>1. G \in [{0} -> Level] /\ {0} \subseteq 0..Len(<<>>) /\ <<>> \in Seq(Cell) /\ Len(<<>>) = 0
  BY DEF Level
<1>2. G[0] = [macro |-> m, loops |-> 0]
  OBVIOUS
<1> HIDE DEF G
<1>3. Levels(<<>>, depth, {0}, G)
  BY <1>1, <1>2 DEF Levels, Pushed
<1>4. QED
  BY <1>1, <1>2, <1>3 DEF Framed

(* Levels depend on the cells below them only. *)
LEMMA LevelsAgree ==
  ASSUME NEW s \in Seq(Cell), NEW s2 \in Seq(Cell), NEW depth, NEW H, NEW G,
         Levels(s, depth, H, G),
         NEW n \in Nat, n <= Len(s2), n <= Len(s),
         \A i \in 1..n : s2[i] = s[i]
  PROVE  LET L == {h \in H : h <= n}
         IN  Levels(s2, depth, L, [h \in L |-> G[h]])
<1> DEFINE L == {h \in H : h <= n}
           g == [h \in L |-> G[h]]
<1>1. H \subseteq 0..Len(s) /\ G \in [H -> Level] /\ Len(s) \in Nat /\ Len(s2) \in Nat
  BY DEF Levels
<1>2. /\ L \subseteq 0..Len(s2) /\ L \subseteq H /\ g \in [L -> Level]
      /\ \A h \in L : g[h] = G[h] /\ h \in Nat /\ h <= n
      /\ \A h \in H : h <= n => h \in L
  BY <1>1
<1> HIDE DEF L, g
<1>3. ASSUME NEW h \in L PROVE Pushed(s2, depth, L, g, h)
  <2>1. Pushed(s, depth, H, G, h) /\ g[h] = G[h] /\ h \in Nat /\ h <= n /\ G[h] \in Level
    BY <1>1, <1>2 DEF Levels
  <2>2. ASSUME NEW b \in H, b = h - 2 \/ b = h - 3
        PROVE  /\ b \in L /\ g[b] = G[b] /\ b + 1 \in 1..n /\ b + 2 \in 1..n
               /\ \A r \in Pc : Saved(s, b, r) => Saved(s2, b, r)
    <3>1. b \in Nat /\ b <= n
      BY <1>1, <2>1, <2>2
    <3>2. b \in L /\ g[b] = G[b] /\ b + 1 \in 1..n /\ b + 2 \in 1..n
      BY <1>2, <2>1, <2>2, <3>1
    <3>3. QED
      BY <3>2 DEF Saved
  <2>3. CASE G[h].loops = 0 /\ h = 0
    BY <2>1, <2>3 DEF Pushed
  <2>4. CASE /\ G[h].loops = 0 /\ h - 2 \in H
             /\ \E r \in Pc : Saved(s, h - 2, r) /\ G[h - 2] = LevelOf(depth, r)
    <3>1. /\ h - 2 \in L /\ g[h - 2] = G[h - 2]
          /\ \A r \in Pc : Saved(s, h - 2, r) => Saved(s2, h - 2, r)
      BY <2>2, <2>4
    <3>2. QED
      BY <2>1, <2>4, <3>1 DEF Pushed
  <2>5. CASE /\ G[h].loops > 0 /\ h - 3 \in H
             /\ G[h - 3] = [macro |-> G[h].macro, loops |-> G[h].loops - 1]
             /\ \E r \in Pc : Saved(s, h - 3, r) /\ G[h] = LevelOf(depth, r)
             /\ \E c \in Counts : s[h] = [count |-> c]
    <3>1. /\ h - 3 \in L /\ g[h - 3] = G[h - 3]
          /\ \A r \in Pc : Saved(s, h - 3, r) => Saved(s2, h - 3, r)
      BY <2>2, <2>5
    <3>2. s2[h] = s[h]
      <4>1. h \in 1..n
        BY <1>1, <2>1, <2>5
      <4>2. QED
        BY <4>1
    <3>3. QED
      BY <2>1, <2>5, <3>1, <3>2 DEF Pushed
  <2>6. QED
    BY <2>1, <2>3, <2>4, <2>5 DEF Pushed
<1>4. QED
  BY <1>2, <1>3 DEF Levels, L, g

(* One more level on top. *)
LEMMA LevelsGrow ==
  ASSUME NEW s \in Seq(Cell), NEW depth, NEW H, NEW G, Levels(s, depth, H, G),
         NEW v \in Level, Len(s) \notin H,
         Pushed(s, depth, H \cup {Len(s)},
                [h \in H \cup {Len(s)} |-> IF h = Len(s) THEN v ELSE G[h]], Len(s))
  PROVE  Framed(s, depth, v)
<1> DEFINE n == Len(s)
           L == H \cup {n}
           g == [h \in L |-> IF h = n THEN v ELSE G[h]]
<1>1. H \subseteq 0..n /\ G \in [H -> Level] /\ n \in Nat
  BY DEF Levels
<1>2. /\ L \in SUBSET (0..n) /\ g \in [L -> Level] /\ n \in L /\ g[n] = v /\ H \subseteq L
      /\ \A h \in H : g[h] = G[h] /\ h # n
      /\ \A h \in L : h = n \/ h \in H
  <2>1. L \in SUBSET (0..n) /\ n \in L /\ H \subseteq L /\ \A h \in L : h = n \/ h \in H
    BY <1>1
  <2>2. \A h \in L : g[h] \in Level
    BY <1>1
  <2>3. g \in [L -> Level] /\ g[n] = v
    BY <2>2
  <2>4. \A h \in H : g[h] = G[h] /\ h # n
    OBVIOUS
  <2>5. QED
    BY <2>1, <2>3, <2>4
<1>3. Pushed(s, depth, L, g, n)
  OBVIOUS
<1> HIDE DEF n, L, g
<1>4. ASSUME NEW h \in H PROVE Pushed(s, depth, L, g, h)
  <2>1. Pushed(s, depth, H, G, h)
    BY DEF Levels
  <2>2. QED
    BY <1>2, <2>1 DEF Pushed
<1>5. Levels(s, depth, L, g)
  BY <1>1, <1>2, <1>4, <1>3 DEF Levels, n
<1>6. QED
  BY <1>2, <1>5 DEF Framed, n

(* The cells of a program counter, and reading it back. *)
LEMMA CellsRead ==
  ASSUME NEW r \in Pc
  PROVE  /\ PcCells(r) \in Seq(Cell) /\ Len(PcCells(r)) = 2
         /\ PcCells(r)[1] = [half |-> 1, of |-> r] /\ PcCells(r)[2] = [half |-> 2, of |-> r]
         /\ ToPc([half |-> 1, of |-> r], [half |-> 2, of |-> r]) = r
         /\ [half |-> 1, of |-> r] \in Cell /\ [half |-> 2, of |-> r] \in Cell
<1>1. [half |-> 1, of |-> r] \in Cell /\ [half |-> 2, of |-> r] \in Cell
  BY DEF Cell
<1>2. "half" \in DOMAIN [half |-> 1, of |-> r] /\ "half" \in DOMAIN [half |-> 2, of |-> r]
  OBVIOUS
<1>3. ToPc([half |-> 1, of |-> r], [half |-> 2, of |-> r]) = r
  BY <1>2 DEF ToPc
<1>4. QED
  BY <1>1, <1>3 DEF PcCells

(* A program counter on top of a stack. *)
LEMMA PushedCells ==
  ASSUME NEW s \in Seq(Cell), NEW r \in Pc
  PROVE  LET s2 == s \o PcCells(r)
             n == Len(s)
         IN  /\ s2 \in Seq(Cell) /\ n \in Nat /\ Len(s2) = n + 2
             /\ \A i \in 1..n : s2[i] = s[i]
             /\ s2[n + 1] = [half |-> 1, of |-> r] /\ s2[n + 2] = [half |-> 2, of |-> r]
<1> DEFINE c == PcCells(r)
           s2 == s \o c
           n == Len(s)
<1>1. /\ c \in Seq(Cell) /\ Len(c) = 2
      /\ c[1] = [half |-> 1, of |-> r] /\ c[2] = [half |-> 2, of |-> r]
  BY CellsRead
<1> HIDE DEF c
<1>2. /\ s2 \in Seq(Cell) /\ Len(s2) = Len(s) + Len(c)
      /\ \A i \in 1..Len(s) + Len(c) : s2[i] = IF i <= Len(s) THEN s[i] ELSE c[i - Len(s)]
  BY <1>1, ConcatProperties
<1>3. n \in Nat
  OBVIOUS
<1> HIDE DEF s2, n
<1>4. /\ Len(s2) = n + 2
      /\ \A i \in 1..n + 2 : s2[i] = IF i <= n THEN s[i] ELSE c[i - n]
  BY <1>1, <1>2 DEF n
<1>5. /\ n + 1 \in 1..n + 2 /\ n + 2 \in 1..n + 2 /\ (n + 1) - n = 1 /\ (n + 2) - n = 2
      /\ \A i \in 1..n : i \in 1..n + 2 /\ i <= n
      /\ ~(n + 1 <= n) /\ ~(n + 2 <= n)
  BY <1>3
<1>6. /\ \A i \in 1..n : s2[i] = s[i]
      /\ s2[n + 1] = [half |-> 1, of |-> r] /\ s2[n + 2] = [half |-> 2, of |-> r]
  BY <1>1, <1>4, <1>5
<1>7. QED
  BY <1>2, <1>3, <1>4, <1>6 DEF s2, n, c

(* What is left when the cells above a level have been popped. *)
LEMMA LevelsShrink ==
  ASSUME NEW s \in Seq(Cell), NEW s2 \in Seq(Cell), NEW depth, NEW H, NEW G,
         Levels(s, depth, H, G), Len(s2) \in H, Len(s2) <= Len(s),
         \A i \in 1..Len(s2) : s2[i] = s[i]
  PROVE  Framed(s2, depth, G[Len(s2)])
<1> DEFINE n == Len(s2)
           L == {h \in H : h <= n}
           g == [h \in L |-> G[h]]
<1>1. n \in Nat /\ n <= Len(s2)
  OBVIOUS
<1>2. Levels(s2, depth, L, g)
  BY <1>1, LevelsAgree
<1>3. n \in L /\ g[n] = G[n]
  BY <1>1
<1> HIDE DEF L, g, n
<1>4. L \in SUBSET (0..Len(s2)) /\ g \in [L -> Level]
  BY <1>2 DEF Levels
<1>5. QED
  BY <1>2, <1>3, <1>4 DEF Framed, n

(* Cells put on top change no level below them. *)
LEMMA LevelsKept ==
  ASSUME NEW s \in Seq(Cell), NEW s2 \in Seq(Cell), NEW depth, NEW H, NEW G,
         Levels(s, depth, H, G), Len(s) <= Len(s2),
         \A i \in 1..Len(s) : s2[i] = s[i]
  PROVE  Levels(s2, depth, H, G)
<1>1. Len(s) \in Nat /\ H \subseteq 0..Len(s) /\ G \in [H -> Level]
  BY DEF Levels
<1> DEFINE L == {h \in H : h <= Len(s)}
           g == [h \in L |-> G[h]]
<1>2. L = H
  BY <1>1
<1>3. g = G
  BY <1>1, <1>2
<1>4. Levels(s2, depth, L, g)
  <2>1. Len(s) <= Len(s)
    BY <1>1
  <2>2. QED
    BY <1>1, <2>1, LevelsAgree
<1>5. QED
  BY <1>2, <1>3, <1>4

(* A macro is nested: its return is pushed. *)
LEMMA PushReturn ==
  ASSUME NEW s, NEW depth, NEW r \in Pc, InCode(r), NEW m \in Defined,
         Framed(s, depth, LevelOf(depth, r))
  PROVE  Framed(s \o PcCells(r), depth, [macro |-> m, loops |-> 0])
<1> DEFINE n == Len(s)
           s2 == s \o PcCells(r)
           v == [macro |-> m, loops |-> 0]
<1>1. s \in Seq(Cell) /\ n \in Nat /\ v \in Level
  BY DEF Framed, Level
<1>2. PICK H \in SUBSET (0..n) : \E G \in [H -> Level] :
        Levels(s, depth, H, G) /\ n \in H /\ G[n] = LevelOf(depth, r)
  BY DEF Framed
<1>3. PICK G \in [H -> Level] :
        Levels(s, depth, H, G) /\ n \in H /\ G[n] = LevelOf(depth, r)
  BY <1>2
<1>4. /\ s2 \in Seq(Cell) /\ Len(s2) = n + 2
      /\ \A i \in 1..n : s2[i] = s[i]
      /\ s2[n + 1] = [half |-> 1, of |-> r] /\ s2[n + 2] = [half |-> 2, of |-> r]
  BY <1>1, PushedCells
<1> HIDE DEF s2, v
<1>5. Levels(s2, depth, H, G)
  <2>1. Len(s) <= Len(s2) /\ \A i \in 1..Len(s) : s2[i] = s[i]
    BY <1>1, <1>4
  <2>2. Levels(s, depth, H, G) /\ s \in Seq(Cell) /\ s2 \in Seq(Cell)
    BY <1>1, <1>3, <1>4
  <2>3. QED
    BY <2>1, <2>2, LevelsKept
<1> DEFINE L2 == H \cup {Len(s2)}
           g2 == [h \in L2 |-> IF h = Len(s2) THEN v ELSE G[h]]
<1>6. Pushed(s2, depth, L2, g2, Len(s2))
  <2>1. g2[Len(s2)] = v /\ v.loops = 0 /\ Len(s2) - 2 = n /\ n \in L2 /\ g2[n] = G[n]
    BY <1>1, <1>3, <1>4 DEF v
  <2>2. Saved(s2, n, r)
    BY <1>4 DEF Saved
  <2> HIDE DEF L2, g2
  <2>3. QED
    BY <1>3, <2>1, <2>2 DEF Pushed
<1>7. Len(s2) \notin H
  BY <1>1, <1>2, <1>4
<1>8. Framed(s2, depth, v)
  BY <1>1, <1>4, <1>5, <1>6, <1>7, LevelsGrow
<1>9. QED
  BY <1>8 DEF s2, v

(* A loop begins: the place to jump back to and the counter are pushed. *)
LEMMA PushLoop ==
  ASSUME NEW s, NEW depth, NEW r \in Pc, InCode(r), NEW c \in Counts,
         LevelOf(depth, r) \in Level, NEW u, Framed(s, depth, u),
         LevelOf(depth, r) = [macro |-> u.macro, loops |-> u.loops + 1],
         u = [macro |-> u.macro, loops |-> u.loops], u.loops \in Nat
  PROVE  Framed(s \o PcCells(r) \o <<[count |-> c]>>, depth, LevelOf(depth, r))
<1> DEFINE n == Len(s)
           s2 == s \o PcCells(r) \o <<[count |-> c]>>
           v == LevelOf(depth, r)
<1>1. s \in Seq(Cell) /\ n \in Nat /\ v \in Level
  BY DEF Framed
<1>2. PICK H \in SUBSET (0..n) : \E G \in [H -> Level] :
        Levels(s, depth, H, G) /\ n \in H /\ G[n] = u
  BY DEF Framed
<1>3. PICK G \in [H -> Level] : Levels(s, depth, H, G) /\ n \in H /\ G[n] = u
  BY <1>2
<1>4. /\ s2 \in Seq(Cell) /\ Len(s2) = n + 3
      /\ \A i \in 1..n : s2[i] = s[i]
      /\ s2[n + 1] = [half |-> 1, of |-> r] /\ s2[n + 2] = [half |-> 2, of |-> r]
      /\ s2[n + 3] = [count |-> c]
  <2>1. [count |-> c] \in Cell
    BY DEF Cell
  <2> DEFINE s1 == s \o PcCells(r)
  <2>2. /\ s1 \in Seq(Cell) /\ Len(s1) = n + 2
        /\ \A i \in 1..n : s1[i] = s[i]
        /\ s1[n + 1] = [half |-> 1, of |-> r] /\ s1[n + 2] = [half |-> 2, of |-> r]
    BY <1>1, PushedCells
  <2>3. s2 = s1 \o <<[count |-> c]>>
    OBVIOUS
  <2> HIDE DEF s1, s2
  <2>4. QED
    BY <1>1, <2>1, <2>2, <2>3
<1> HIDE DEF s2, v
<1>5. Levels(s2, depth, H, G)
  <2>1. Len(s) <= Len(s2) /\ \A i \in 1..Len(s) : s2[i] = s[i]
    BY <1>1, <1>4
  <2>2. Levels(s, depth, H, G) /\ s \in Seq(Cell) /\ s2 \in Seq(Cell)
    BY <1>1, <1>3, <1>4
  <2>3. QED
    BY <2>1, <2>2, LevelsKept
<1> DEFINE L2 == H \cup {Len(s2)}
           g2 == [h \in L2 |-> IF h = Len(s2) THEN v ELSE G[h]]
<1>6. Pushed(s2, depth, L2, g2, Len(s2))
  <2>1. /\ g2[Len(s2)] = v /\ Len(s2) - 3 = n /\ n \in L2 /\ g2[n] = u
        /\ Len(s2) = n + 3
    BY <1>1, <1>3, <1>4
  <2>2. v.loops > 0 /\ u = [macro |-> v.macro, loops |-> v.loops - 1]
    BY DEF v
  <2>3. Saved(s2, n, r)
    BY <1>4 DEF Saved
  <2> HIDE DEF L2, g2
  <2>4. QED
    BY <1>4, <2>1, <2>2, <2>3 DEF Pushed, v
<1>7. Len(s2) \notin H
  BY <1>1, <1>2, <1>4
<1>8. Framed(s2, depth, v)
  BY <1>1, <1>4, <1>5, <1>6, <1>7, LevelsGrow
<1>9. QED
  BY <1>8 DEF s2, v

(* What is found at the top of a stack, at the end of a macro ... *)
LEMMA PopReturn ==
  ASSUME NEW s, NEW depth, NEW v \in Level, v.loops = 0, Framed(s, depth, v), s # <<>>
  PROVE  \E r \in Pc : /\ ToPc(Top(s, 1), Top(s, 0)) = r /\ InCode(r)
                      /\ Framed(Pop(s, 2), depth, LevelOf(depth, r))
<1> DEFINE n == Len(s)
<1>1. s \in Seq(Cell) /\ n \in Nat /\ n # 0
  BY DEF Framed
<1>2. PICK H \in SUBSET (0..n) : \E G \in [H -> Level] :
        Levels(s, depth, H, G) /\ n \in H /\ G[n] = v
  BY DEF Framed
<1>3. PICK G \in [H -> Level] : Levels(s, depth, H, G) /\ n \in H /\ G[n] = v
  BY <1>2
<1>4. Pushed(s, depth, H, G, n)
  BY <1>3 DEF Levels
<1>5. PICK r \in Pc : n - 2 \in H /\ Saved(s, n - 2, r) /\ G[n - 2] = LevelOf(depth, r)
  BY <1>1, <1>3, <1>4 DEF Pushed
<1>6. /\ n - 2 \in Nat /\ (n - 2) + 1 = n - 1 /\ (n - 2) + 2 = n - 0
      /\ InCode(r) /\ s[n - 1] = [half |-> 1, of |-> r] /\ s[n - 0] = [half |-> 2, of |-> r]
  BY <1>1, <1>2, <1>5 DEF Saved
<1>7. ToPc(Top(s, 1), Top(s, 0)) = r
  BY <1>6, CellsRead DEF Top
<1> DEFINE s2 == Pop(s, 2)
<1>8. /\ s2 \in Seq(Cell) /\ Len(s2) = n - 2 /\ Len(s2) <= Len(s)
      /\ \A i \in 1..n - 2 : s2[i] = s[i]
  BY <1>1, <1>6, SubSeqProperties DEF Pop
<1> HIDE DEF s2
<1>9. Framed(s2, depth, G[Len(s2)])
  BY <1>1, <1>3, <1>5, <1>8, LevelsShrink
<1>10. QED
  BY <1>5, <1>6, <1>7, <1>8, <1>9 DEF s2

(* ... and at the end of a loop. *)
LEMMA PopLoop ==
  ASSUME NEW s, NEW depth, NEW v \in Level, v.loops > 0, Framed(s, depth, v)
  PROVE  /\ Framed(Pop(s, 3), depth, [macro |-> v.macro, loops |-> v.loops - 1])
         /\ Top(s, 0).count \in Counts
         /\ \E r \in Pc : /\ ToPc(Top(s, 2), Top(s, 1)) = r /\ InCode(r)
                         /\ LevelOf(depth, r) = v
         /\ \A c \in Counts : Framed([s EXCEPT ![Len(s)] = [count |-> c]], depth, v)
<1> DEFINE n == Len(s)
<1>1. s \in Seq(Cell) /\ n \in Nat
  BY DEF Framed
<1>2. PICK H \in SUBSET (0..n) : \E G \in [H -> Level] :
        Levels(s, depth, H, G) /\ n \in H /\ G[n] = v
  BY DEF Framed
<1>3. PICK G \in [H -> Level] : Levels(s, depth, H, G) /\ n \in H /\ G[n] = v
  BY <1>2
<1>4. Pushed(s, depth, H, G, n) /\ v.loops # 0
  BY <1>3 DEF Levels, Level
<1>5. /\ n - 3 \in H /\ G[n - 3] = [macro |-> v.macro, loops |-> v.loops - 1]
      /\ \E r \in Pc : Saved(s, n - 3, r) /\ v = LevelOf(depth, r)
      /\ \E c \in Counts : s[n] = [count |-> c]
  BY <1>3, <1>4 DEF Pushed
<1>6. PICK r \in Pc : Saved(s, n - 3, r) /\ v = LevelOf(depth, r)
  BY <1>5
<1>7. PICK c0 \in Counts : s[n] = [count |-> c0]
  BY <1>5
<1>8. /\ n - 3 \in Nat /\ (n - 3) + 1 = n - 2 /\ (n - 3) + 2 = n - 1 /\ n - 0 = n
      /\ InCode(r) /\ s[n - 2] = [half |-> 1, of |-> r] /\ s[n - 1] = [half |-> 2, of |-> r]
  BY <1>1, <1>2, <1>5, <1>6 DEF Saved
<1>9. ToPc(Top(s, 2), Top(s, 1)) = r /\ Top(s, 0).count \in Counts
  BY <1>7, <1>8, CellsRead DEF Top
<1>10. Framed(Pop(s, 3), depth, [macro |-> v.macro, loops |-> v.loops - 1])
  <2> DEFINE s2 == Pop(s, 3)
  <2>1. /\ s2 \in Seq(Cell) /\ Len(s2) = n - 3 /\ Len(s2) <= Len(s)
        /\ \A i \in 1..n - 3 : s2[i] = s[i]
    BY <1>1, <1>8, SubSeqProperties DEF Pop
  <2> HIDE DEF s2
  <2>2. Framed(s2, depth, G[Len(s2)])
    BY <1>1, <1>3, <1>5, <2>1, LevelsShrink
  <2>3. QED
    BY <1>5, <2>1, <2>2 DEF s2
<1>11. ASSUME NEW c \in Counts PROVE Framed([s EXCEPT ![Len(s)] = [count |-> c]], depth, v)
  <2> DEFINE s2 == [s EXCEPT ![Len(s)] = [count |-> c]]
  <2>1. /\ s2 \in Seq(Cell) /\ Len(s2) = n
        /\ \A i \in 1..n - 1 : s2[i] = s[i] /\ s2[n] = [count |-> c]
    <3>1. [count |-> c] \in Cell /\ n \in 1..n
      BY <1>1, <1>8 DEF Cell
    <3>2. QED
      BY <1>1, <3>1
  <2> HIDE DEF s2
  <2> DEFINE m == n - 1
             L == {h \in H : h <= m}
             g == [h \in L |-> G[h]]
             L2 == L \cup {Len(s2)}
             g2 == [h \in L2 |-> IF h = Len(s2) THEN v ELSE g[h]]
  <2>2. /\ m \in Nat /\ m <= Len(s2) /\ m <= Len(s) /\ \A i \in 1..m : s2[i] = s[i]
        /\ n - 3 <= m /\ ~(n <= m)
    BY <1>1, <1>8, <2>1
  <2>3. s2 \in Seq(Cell)
    BY <2>1
  <2> HIDE DEF m
  <2>4. Levels(s2, depth, L, g)
    BY <1>1, <1>3, <2>2, <2>3, LevelsAgree
  <2>5. Pushed(s2, depth, L2, g2, Len(s2))
    <3>1. /\ g2[Len(s2)] = v /\ Len(s2) - 3 \in L2 /\ Len(s2) - 3 = n - 3
          /\ g2[Len(s2) - 3] = [macro |-> v.macro, loops |-> v.loops - 1]
      BY <1>1, <1>5, <2>1, <2>2
    <3>2. Saved(s2, n - 3, r) /\ s2[Len(s2)] = [count |-> c]
      BY <1>6, <1>8, <2>1 DEF Saved
    <3> HIDE DEF L2, g2
    <3>3. QED
      BY <1>6, <3>1, <3>2 DEF Pushed
  <2>6. Len(s2) \notin L
    BY <2>1, <2>2
  <2> HIDE DEF L, g
  <2>7. Framed(s2, depth, v)
    BY <2>3, <2>4, <2>5, <2>6, LevelsGrow
  <2>8. QED
    BY <2>7 DEF s2
<1>12. QED
  BY <1>8, <1>9, <1>10, <1>11, <1>6
-----------------------------------------------------------------------------
(* Commands. *)

(* The levels along the code of a macro. *)
LEMMA CodeLevels ==
  ASSUME NEW depth, LoopsNest(depth)
  PROVE  /\ \A m \in Defined : /\ InCode(MacroStart(m)) /\ MacroStart(m) \in Pc
                              /\ LevelOf(depth, MacroStart(m)) = [macro |-> m, loops |-> 0]
         /\ \A pc \in Pc : InCode(pc) =>
              LET o == CommandAt(pc)
                  v == LevelOf(depth, pc)
                  w == LevelOf(depth, MacroStep(pc))
              IN  /\ o \in Command /\ v \in Level /\ MacroStep(pc) \in Pc
                  /\ o.op = "end" => v.loops = 0
                  /\ o.op = "end" /\ InCode(MacroStep(pc)) => w = v
                  /\ o.op = "loop-end" => v.loops > 0
                  /\ o.op # "end" =>
                       /\ InCode(MacroStep(pc)) /\ w \in Level
                       /\ o.op = "loop-begin" => w = [macro |-> v.macro, loops |-> v.loops + 1]
                       /\ o.op = "loop-end" => w = [macro |-> v.macro, loops |-> v.loops - 1]
                       /\ o.op \notin {"loop-begin", "loop-end"} => w = v
<1>1. ASSUME NEW m \in Defined
      PROVE  /\ m \in MacroId /\ Code[m] \in Seq(Command) /\ Len(Code[m]) \in Nat \ {0}
             /\ Code[m][Len(Code[m])].op = "end"
             /\ DOMAIN Code[m] = 1..Len(Code[m])
             /\ depth[m] \in [1..Len(Code[m]) -> Nat] /\ depth[m][1] = 0
             /\ \A i \in 1..Len(Code[m]) :
                  LET o == Code[m][i].op
                      d == depth[m][i]
                  IN  /\ o = "end" => d = 0
                      /\ o = "loop-end" => d > 0
                      /\ i < Len(Code[m]) =>
                           depth[m][i + 1] = CASE o = "loop-begin" -> d + 1
                                               [] o = "loop-end" -> d - 1
                                               [] OTHER -> d
  BY CodeAssumption DEF LoopsNest, End
<1>2. ASSUME NEW m \in Defined
      PROVE  /\ InCode(MacroStart(m)) /\ MacroStart(m) \in Pc
             /\ LevelOf(depth, MacroStart(m)) = [macro |-> m, loops |-> 0]
  BY <1>1 DEF InCode, MacroStart, Pc, LevelOf
<1>3. ASSUME NEW pc \in Pc, InCode(pc)
      PROVE  LET o == CommandAt(pc)
                 v == LevelOf(depth, pc)
                 w == LevelOf(depth, MacroStep(pc))
             IN  /\ o \in Command /\ v \in Level /\ MacroStep(pc) \in Pc
                 /\ o.op = "end" => v.loops = 0
                 /\ o.op = "end" /\ InCode(MacroStep(pc)) => w = v
                 /\ o.op = "loop-end" => v.loops > 0
                 /\ o.op # "end" =>
                      /\ InCode(MacroStep(pc)) /\ w \in Level
                      /\ o.op = "loop-begin" => w = [macro |-> v.macro, loops |-> v.loops + 1]
                      /\ o.op = "loop-end" => w = [macro |-> v.macro, loops |-> v.loops - 1]
                      /\ o.op \notin {"loop-begin", "loop-end"} => w = v
  <2> DEFINE m == pc.macro
             i == pc.at
             d == depth[m][i]
             o == CommandAt(pc)
  <2>1. m \in Defined /\ i \in DOMAIN Code[m] /\ pc = [macro |-> m, at |-> i]
    BY <1>3 DEF InCode, Pc
  <2>2. i \in 1..Len(Code[m]) /\ i \in Nat /\ Len(Code[m]) \in Nat /\ d \in Nat
    BY <1>1, <2>1
  <2>3. o = Code[m][i] /\ o \in Command
    <3>1. Code[m] \in Seq(Command)
      BY <1>1, <2>1
    <3>2. o = Code[m][i]
      BY <1>3 DEF CommandAt
    <3>3. QED
      BY <2>2, <3>1, <3>2
  <2>4. /\ MacroStep(pc) = [macro |-> m, at |-> i + 1] /\ MacroStep(pc) \in Pc
        /\ MacroStep(pc).macro = m /\ MacroStep(pc).at = i + 1
    <3>1. MacroStep(pc) = [pc EXCEPT !.at = i + 1]
      BY <1>3 DEF MacroStep
    <3>2. MacroStep(pc) = [macro |-> m, at |-> i + 1]
      BY <2>1, <3>1
    <3>3. m \in MacroId /\ i + 1 \in Nat
      BY <1>1, <2>1, <2>2
    <3>4. QED
      BY <3>2, <3>3 DEF Pc
  <2>5. /\ LevelOf(depth, pc) = [macro |-> m, loops |-> d] /\ LevelOf(depth, pc) \in Level
        /\ LevelOf(depth, MacroStep(pc)) = [macro |-> m, loops |-> depth[m][i + 1]]
    BY <2>1, <2>2, <2>4 DEF LevelOf, Level
  <2>6. /\ o.op = "end" => d = 0
        /\ o.op = "loop-end" => d > 0
        /\ i < Len(Code[m]) =>
             depth[m][i + 1] = CASE o.op = "loop-begin" -> d + 1
                                 [] o.op = "loop-end" -> d - 1
                                 [] OTHER -> d
    BY <1>1, <2>1, <2>2, <2>3
  <2>7. ASSUME o.op # "end"
        PROVE  /\ i < Len(Code[m]) /\ InCode(MacroStep(pc)) /\ depth[m][i + 1] \in Nat
    <3>1. i # Len(Code[m])
      BY <1>1, <2>1, <2>3, <2>7
    <3>2. i < Len(Code[m]) /\ i + 1 \in 1..Len(Code[m])
      BY <2>2, <3>1
    <3>3. QED
      BY <1>1, <2>1, <2>4, <3>2 DEF InCode
  <2>8. ASSUME o.op = "end", InCode(MacroStep(pc)) PROVE depth[m][i + 1] = d
    <3>1. i < Len(Code[m])
      BY <1>1, <2>1, <2>2, <2>4, <2>8 DEF InCode
    <3>2. QED
      BY <2>6, <2>8, <3>1
  <2> HIDE DEF m, i, d, o
  <2>9. o.op = "end" /\ InCode(MacroStep(pc)) => LevelOf(depth, MacroStep(pc)) = LevelOf(depth, pc)
    BY <2>5, <2>8
  <2>10. ASSUME o.op # "end"
        PROVE  LET v == LevelOf(depth, pc)
                   w == LevelOf(depth, MacroStep(pc))
               IN  /\ InCode(MacroStep(pc)) /\ w \in Level
                   /\ o.op = "loop-begin" => w = [macro |-> v.macro, loops |-> v.loops + 1]
                   /\ o.op = "loop-end" => w = [macro |-> v.macro, loops |-> v.loops - 1]
                   /\ o.op \notin {"loop-begin", "loop-end"} => w = v
    BY <2>1, <2>5, <2>6, <2>7, <2>10 DEF Level
  <2>11. QED
    BY <2>3, <2>4, <2>5, <2>6, <2>9, <2>10 DEF o
<1>4. QED
  BY <1>2, <1>3

\* Where a thread or context is, and that its stack is right for that place.
PlaceOK(t, depth) ==
  /\ t.pc \in Pc /\ t.stack \in Seq(Cell)
  /\ InCode(t.pc) => Framed(t.stack, depth, LevelOf(depth, t.pc))

(* A counter that is decremented is a counter. *)
LEMMA Decremented == \A c \in Counts : (c - 1) % CellSize \in Counts
<1>1. CellSize \in Nat /\ CellSize > 0
  BY DEF CellSize
<1>2. \A i \in Int : i % CellSize \in 0..CellSize - 1
  BY <1>1
<1>3. \A c \in Counts : c - 1 \in Int
  BY <1>1 DEF Counts
<1>4. QED
  BY <1>2, <1>3 DEF Counts

(* A command takes a thread to a command of a macro, or ends it. *)
LEMMA CommandKeepsThread ==
  ASSUME NEW depth, LoopsNest(depth), NEW t, IsThread(t), PlaceOK(t, depth), InCode(t.pc)
  PROVE  LET a == AfterCommand(t)
         IN  PlaceOK(a, depth) /\ (a.state = Unused \/ InCode(a.pc))
<1> DEFINE o == CommandAt(t.pc)
           u == Loaded(t)
           r == MacroStep(t.pc)
           v == LevelOf(depth, t.pc)
           Good(a) == PlaceOK(a, depth) /\ (a.state = Unused \/ InCode(a.pc))
           th(st, pc, sk) == [id |-> t.id, state |-> st, pc |-> pc, stack |-> sk]
<1>1. /\ AfterCommand(t) = Execute(u, o) /\ u = th(t.state, r, t.stack)
      /\ u.pc = r /\ u.stack = t.stack /\ t.stack \in Seq(Cell)
      /\ t.pc \in Pc /\ InCode(t.pc) /\ Framed(t.stack, depth, v)
  BY DEF AfterCommand, Loaded, IsThread, PlaceOK
<1>2. /\ o \in Command /\ v \in Level /\ r \in Pc
      /\ o.op = "end" => v.loops = 0
      /\ o.op = "end" /\ InCode(r) => LevelOf(depth, r) = v
      /\ o.op = "loop-end" => v.loops > 0
      /\ o.op # "end" =>
           /\ InCode(r) /\ LevelOf(depth, r) \in Level
           /\ o.op = "loop-begin" =>
                LevelOf(depth, r) = [macro |-> v.macro, loops |-> v.loops + 1]
           /\ o.op = "loop-end" =>
                LevelOf(depth, r) = [macro |-> v.macro, loops |-> v.loops - 1]
           /\ o.op \notin {"loop-begin", "loop-end"} => LevelOf(depth, r) = v
  BY <1>1, CodeLevels
<1>3. v = [macro |-> v.macro, loops |-> v.loops] /\ v.loops \in Nat
  BY <1>2 DEF Level
<1>4. /\ \A p, s : [u EXCEPT !.stack = s, !.pc = p] = th(t.state, p, s)
      /\ \A s : [u EXCEPT !.stack = s] = th(t.state, r, s)
      /\ \A st : [u EXCEPT !.state = st] = th(st, r, t.stack)
  <2>1. \A p, s : [u EXCEPT !.stack = s, !.pc = p] = [[u EXCEPT !.stack = s] EXCEPT !.pc = p]
    BY SMT
  <2>2. /\ \A s : [u EXCEPT !.stack = s] = th(t.state, r, s)
        /\ \A st : [u EXCEPT !.state = st] = th(st, r, t.stack)
    BY <1>1
  <2>3. \A p, s : [th(t.state, r, s) EXCEPT !.pc = p] = th(t.state, p, s)
    OBVIOUS
  <2> HIDE DEF th, u
  <2>4. QED
    BY <2>1, <2>2, <2>3
<1>5. ASSUME NEW st \in {t.state, Sleep}, NEW p \in Pc, InCode(p), NEW s,
             Framed(s, depth, LevelOf(depth, p))
      PROVE  Good(th(st, p, s))
  BY <1>5 DEF PlaceOK, Framed
<1>6. ASSUME o.op = "end", t.stack = <<>> PROVE Good(th(Unused, r, t.stack))
  <2>1. v = [macro |-> v.macro, loops |-> 0] /\ v.macro \in Defined
    BY <1>2, <1>6 DEF Level
  <2>2. InCode(r) => Framed(<<>>, depth, LevelOf(depth, r))
    BY <1>2, <1>6, <2>1, EmptyFramed
  <2>3. QED
    BY <1>1, <1>2, <1>6, <2>2 DEF PlaceOK
<1> HIDE DEF o, u, r, v, Good, th
<1>7. CASE o.op = "nest" /\ o.id \in Defined
  <2>1. Execute(u, o) = th(t.state, MacroStart(o.id), t.stack \o PcCells(r))
    <3> DEFINE s == t.stack \o PcCells(r)
    <3>1. Execute(u, o) = NestMacro(u, o.id)
      BY <1>7 DEF Execute
    <3>2. NestMacro(u, o.id) = [u EXCEPT !.stack = s, !.pc = MacroStart(o.id)]
      BY <1>1 DEF NestMacro
    <3> HIDE DEF s
    <3>3. NestMacro(u, o.id) = th(t.state, MacroStart(o.id), s)
      BY <1>4, <3>2
    <3>4. QED
      BY <3>1, <3>3 DEF s
  <2>2. Framed(t.stack \o PcCells(r), depth, LevelOf(depth, MacroStart(o.id)))
    BY <1>1, <1>2, <1>7, CodeLevels, PushReturn
  <2>3. QED
    BY <1>1, <1>5, <1>7, <2>1, <2>2, CodeLevels DEF Good
<1>8. CASE o.op = "end"
  <2>1. Execute(u, o) = EndMacro(u)
    BY <1>8 DEF Execute
  <2>2. CASE t.stack = <<>>
    <3>1. EndMacro(u) = th(Unused, r, t.stack)
      BY <1>1, <1>4, <2>2 DEF EndMacro
    <3>2. QED
      BY <1>1, <1>6, <1>8, <2>1, <2>2, <3>1 DEF Good
  <2>3. CASE t.stack # <<>>
    <3>1. PICK q \in Pc : /\ ToPc(Top(t.stack, 1), Top(t.stack, 0)) = q /\ InCode(q)
                          /\ Framed(Pop(t.stack, 2), depth, LevelOf(depth, q))
      BY <1>1, <1>2, <1>8, <2>3, PopReturn
    <3>2. EndMacro(u) = th(t.state, q, Pop(t.stack, 2))
      <4> DEFINE s == Pop(t.stack, 2)
      <4>1. EndMacro(u) = [u EXCEPT !.stack = s, !.pc = q]
        BY <1>1, <2>3, <3>1 DEF EndMacro
      <4> HIDE DEF s
      <4>2. EndMacro(u) = th(t.state, q, s)
        BY <1>4, <4>1
      <4>3. QED
        BY <4>2 DEF s
    <3>3. QED
      BY <1>1, <1>5, <2>1, <3>1, <3>2 DEF Good
  <2>4. QED
    BY <2>2, <2>3
<1>9. CASE o.op = "loop-begin"
  <2>1. o.count \in Counts
    BY <1>2, <1>9 DEF Command
  <2>2. Execute(u, o) = th(t.state, r, t.stack \o PcCells(r) \o <<[count |-> o.count]>>)
    BY <1>1, <1>4, <1>9 DEF Execute, LoopMacro
  <2>3. Framed(t.stack \o PcCells(r) \o <<[count |-> o.count]>>, depth, LevelOf(depth, r))
    BY <1>1, <1>2, <1>3, <1>9, <2>1, PushLoop
  <2>4. QED
    BY <1>1, <1>2, <1>5, <1>9, <2>2, <2>3 DEF Good
<1>10. CASE o.op = "loop-end"
  <2> DEFINE left == (Top(t.stack, 0).count - 1) % CellSize
  <2>1. /\ Framed(Pop(t.stack, 3), depth, LevelOf(depth, r))
        /\ Top(t.stack, 0).count \in Counts
        /\ \E q \in Pc : /\ ToPc(Top(t.stack, 2), Top(t.stack, 1)) = q /\ InCode(q)
                        /\ LevelOf(depth, q) = v
        /\ \A c \in Counts : Framed([t.stack EXCEPT ![Len(t.stack)] = [count |-> c]], depth, v)
    <3>1. v.loops > 0 /\ LevelOf(depth, r) = [macro |-> v.macro, loops |-> v.loops - 1]
      BY <1>2, <1>10
    <3>2. /\ Framed(Pop(t.stack, 3), depth, [macro |-> v.macro, loops |-> v.loops - 1])
          /\ Top(t.stack, 0).count \in Counts
          /\ \E q \in Pc : /\ ToPc(Top(t.stack, 2), Top(t.stack, 1)) = q /\ InCode(q)
                          /\ LevelOf(depth, q) = v
          /\ \A c \in Counts : Framed([t.stack EXCEPT ![Len(t.stack)] = [count |-> c]], depth, v)
      BY <1>1, <1>2, <3>1, PopLoop
    <3>3. QED
      BY <3>1, <3>2
  <2>2. PICK q \in Pc : /\ ToPc(Top(t.stack, 2), Top(t.stack, 1)) = q /\ InCode(q)
                        /\ LevelOf(depth, q) = v
    BY <2>1
  <2>3. left \in Counts
    BY <2>1, Decremented
  <2> DEFINE s == [t.stack EXCEPT ![Len(t.stack)] = [count |-> left]]
  <2>4. Execute(u, o) = IF left # 0 THEN th(t.state, q, s) ELSE th(t.state, r, Pop(t.stack, 3))
    <3>1. Execute(u, o) = UnloopMacro(u)
      BY <1>10 DEF Execute
    <3>2. UnloopMacro(u) =
            IF left # 0
            THEN [u EXCEPT !.stack = s, !.pc = ToPc(Top(t.stack, 2), Top(t.stack, 1))]
            ELSE [u EXCEPT !.stack = Pop(t.stack, 3)]
      BY <1>1 DEF UnloopMacro
    <3> HIDE DEF left, s
    <3>3. QED
      BY <1>4, <2>2, <3>1, <3>2
  <2>5. Framed(s, depth, LevelOf(depth, q))
    BY <2>1, <2>2, <2>3
  <2> HIDE DEF left, s
  <2>6. CASE left # 0
    BY <1>1, <1>5, <2>2, <2>4, <2>5, <2>6 DEF Good
  <2>7. CASE left = 0
    BY <1>1, <1>2, <1>5, <1>10, <2>1, <2>4, <2>7 DEF Good
  <2>8. QED
    BY <2>6, <2>7
<1>11. CASE o.op = "delay"
  <2>1. Execute(u, o) = th(Sleep, r, t.stack)
    BY <1>4, <1>11 DEF Execute
  <2>2. QED
    BY <1>1, <1>2, <1>5, <1>11, <2>1 DEF Good
<1>12. CASE /\ o.op \notin {"end", "loop-begin", "loop-end", "delay"}
            /\ ~(o.op = "nest" /\ o.id \in Defined)
  <2>1. Execute(u, o) = th(t.state, r, t.stack)
    BY <1>1, <1>12 DEF Execute
  <2>2. QED
    BY <1>1, <1>2, <1>5, <1>12, <2>1 DEF Good
<1>13. QED
  BY <1>7, <1>8, <1>9, <1>10, <1>11, <1>12 DEF Good

(* So does a command anywhere else: it is garbage, and does nothing.       *)
LEMMA CommandKeepsPlace ==
  ASSUME NEW depth, LoopsNest(depth), NEW t, IsThread(t), PlaceOK(t, depth)
  PROVE  LET a == AfterCommand(t)
         IN  PlaceOK(a, depth) /\ (InCode(t.pc) => a.state = Unused \/ InCode(a.pc))
<1>1. CASE InCode(t.pc)
  BY <1>1, CommandKeepsThread
<1>2. CASE ~InCode(t.pc)
  <2> DEFINE u == Loaded(t)
  <2>1. u.pc = Astray /\ u.stack = t.stack
    BY <1>2 DEF Loaded, IsThread, MacroStep
  <2>2. AfterCommand(t) = Execute(u, Garbage)
    BY <1>2 DEF AfterCommand, CommandAt
  <2>3. Execute(u, Garbage) = u
    BY DEF Execute, Garbage
  <2>4. Astray \in Pc /\ ~InCode(Astray)
    <3>1. \A m \in Defined : 0 \notin DOMAIN Code[m]
      BY CodeAssumption
    <3>2. QED
      BY <3>1 DEF Astray, Pc, InCode
  <2>5. QED
    BY <1>2, <2>1, <2>2, <2>3, <2>4 DEF PlaceOK
<1>3. QED
  BY <1>1, <1>2

-----------------------------------------------------------------------------
(* The inductive invariant. *)

Places == {"loop", "idle", "ready", "get", "scan", "start", "give", "echo",
           "flush", "rest", "match", "state", "kill"}
Names == MacroId \cup {NoMacro}
Calls == [id : Names, echo : BOOLEAN, to : Context \cup {None}]
Halts == [id : Defined, at : Context]

\* A context, whatever its program counter and its stack are.
Shape(b) ==
  IsContext(b) /\ b.id \in Names /\ b.state \in {Unused, Run, Sleep} /\ b.echo \in BOOLEAN
Shapes(f) == f = [c \in Context |-> f[c]] /\ \A c \in Context : Shape(f[c])

\* The parts of TypeOK that hold of any code.
Types ==
  /\ at \in [Process -> Places] /\ fork \in [Process -> Calls]
  /\ Shapes(context) /\ Shape(buffer)
  /\ running \in Context \cup {None} /\ halting \in {NoHalt} \cup Halts
  /\ fresh \subseteq Context /\ wanted \in [Context -> BOOLEAN]

\* Where a process is that waits for a semaphore, and which one it may be.
WaitPlace(s) ==
  IF s = ContextAccess THEN "scan" ELSE IF s = Pulse THEN "ready" ELSE "loop"
MayWait(p, s) ==
  p \in Process /\ (s = Pulse => p \in Forkers) /\ (s = Message => p = Commander)

\* The scheduler underneath: the list is fixed, and whoever waits does so at
\* the place of its semaphore.
KernelPart ==
  /\ KernelOK(k) /\ k.list = Priority /\ k.cproc \in Listed(k)
  /\ Balanced(k, ContextAccess)
  /\ \A p \in Proc, s \in Sem : k.pstate[p] = s => MayWait(p, s) /\ at[p] = WaitPlace(s)

\* context-access is free, or one process has it.
Accessing == {"scan", "start", "give"}
Holders == {p \in Process : at[p] \in Accessing /\ k.pstate[p] # ContextAccess}
AccessPart ==
  /\ k.count[ContextAccess] <= 1
  /\ k.count[ContextAccess] = 1 => Holders = {}
  /\ k.count[ContextAccess] <= 0 => \E p \in Process : Holders = {p}

\* What fork-macro knows on the way, and that only forkers are idle.
ForkPart ==
  /\ \A p \in Process :
       /\ at[p] \in {"get", "scan", "start"} => fork[p].id \in Defined
       /\ at[p] = "start" => fork[p].to \in Context /\ context[fork[p].to].state = Unused
  /\ at[Commander] \notin {"idle", "ready"}

\* Where match-context looks for a macro and kill-context follows.
Searching == {"match", "state", "kill"}

\* The command process and the context of the macro that it runs.
RunPart ==
  /\ at[Commander] \in {"flush", "rest"} => running # None
  /\ at[Commander] \in Searching => running = None
  /\ running # None /\ at[Commander] # "rest" =>
       context[running].state = Run /\ context[running].id = buffer.id
  /\ running # None /\ at[Commander] \notin {"flush", "rest"} => buffer.state = Run

\* A halt lasts as long as its flush and its search, and kills no context
\* that a fork may find unused.
HaltPart ==
  /\ at[Commander] \notin {"flush", "rest"} \cup Searching => halting = NoHalt
  /\ at[Commander] \in Searching => halting \in Halts
  /\ at[Commander] = "kill" => context[halting.at].state # Unused

IInv == Types /\ KernelPart /\ AccessPart /\ ForkPart /\ RunPart /\ HaltPart
-----------------------------------------------------------------------------
(* Processes and the kernel. *)

(* What the assumptions say of processes and semaphores. *)
LEMMA Constants ==
  /\ Commander \in Process /\ Forkers \subseteq Process /\ Process \subseteq Proc
  /\ Commander \notin Forkers /\ NullProc \notin Process
  /\ ContextAccess \in Sem /\ Pulse \in Sem /\ Message \in Sem
  /\ \A s \in Sem : s = ContextAccess \/ s = Pulse \/ s = Message
  /\ ContextAccess # Pulse /\ ContextAccess # Message /\ Pulse # Message
  /\ Runnable \notin Sem /\ None \notin Context /\ NContexts \in Nat /\ 1 \in Context
  /\ \A p \in Process : Home(p) = IF p = Commander THEN "loop" ELSE "idle"
  BY ProcessAssumption, SemaphoresAssumption, SemAssumption, ContextsAssumption
  DEF Process, ContextAccess, Pulse, Message, None, Context, Home

(* The first of a nonempty set of contexts. *)
LEMMA FirstProperties ==
  ASSUME NEW S, S \subseteq Context, S # {}
  PROVE  First(S) \in S
<1>1. S \in SUBSET Nat
  BY Constants DEF Context
<1>2. \E c \in S : \A d \in S : c <= d
  BY <1>1, LeastNatural
<1>3. QED
  BY <1>2 DEF First

(* What is known of the process that runs. *)
LEMMA RunningProcess ==
  ASSUME IInv, NEW p \in Process, k.cproc = p
  PROVE  /\ p # NullProc /\ p \in Proc /\ k.pstate[p] = Runnable
         /\ at[p] \in Accessing => Holders = {p} /\ k.count[ContextAccess] <= 0
         /\ at[p] \notin Accessing => p \notin Holders
<1>1. p # NullProc /\ p \in Proc /\ k.pstate[p] = Runnable
  BY Constants DEF IInv, KernelPart, KernelOK
<1>2. k.pstate[p] # ContextAccess
  BY <1>1, Constants
<1>3. k.count[ContextAccess] \in Int
  BY Constants DEF IInv, KernelPart, KernelOK, KernelType
<1>4. ASSUME at[p] \in Accessing
      PROVE  Holders = {p} /\ k.count[ContextAccess] <= 0
  <2>1. p \in Holders
    BY <1>2, <1>4 DEF Holders
  <2>2. k.count[ContextAccess] <= 0
    BY <1>3, <2>1 DEF IInv, AccessPart
  <2>3. QED
    BY <2>1, <2>2 DEF IInv, AccessPart
<1>5. QED
  BY <1>1, <1>4 DEF Holders

(* A step of a process that neither waits nor signals, and neither takes   *)
(* nor leaves access to the contexts.                                      *)
LEMMA Walks ==
  ASSUME IInv, NEW p \in Process, k.cproc = p, UNCHANGED k, NEW l,
         at' = [at EXCEPT ![p] = l], l \in Accessing <=> at[p] \in Accessing
  PROVE  KernelPart' /\ AccessPart'
<1>1. /\ k.pstate[p] = Runnable /\ p \in Proc /\ Runnable \notin Sem /\ Process \subseteq Proc
      /\ at \in [Process -> Places]
  BY RunningProcess, Constants DEF IInv, Types
<1>2. \A q \in Process : at'[q] = IF q = p THEN l ELSE at[q]
  BY <1>1
<1>3. KernelPart'
  BY <1>1, <1>2 DEF IInv, KernelPart, MayWait
<1>4. Holders' = Holders
  BY <1>2 DEF Holders
<1>5. QED
  BY <1>3, <1>4 DEF IInv, AccessPart

(* A process waits for s, on the way to its place.  If it is access that it*)
(* wants, it has it or waits for it afterwards.                            *)
LEMMA Waits ==
  ASSUME IInv, NEW p \in Process, k.cproc = p, NEW s \in Sem, MayWait(p, s),
         k' = Wait(k, s), at' = [at EXCEPT ![p] = WaitPlace(s)],
         at[p] \notin Accessing
  PROVE  KernelPart' /\ AccessPart'
<1>1. /\ KernelOK(k) /\ k.list = Priority /\ k.cproc \in Listed(k) /\ p # NullProc
      /\ k.pstate \in [Proc -> Sem \cup {Runnable}] /\ k.pstate[p] = Runnable
      /\ k.count \in [Sem -> Int] /\ p \in Proc /\ Process \subseteq Proc
      /\ at \in [Process -> Places] /\ Runnable \notin Sem
  BY RunningProcess, Constants DEF IInv, Types, KernelPart, KernelOK, KernelType
<1>2. /\ KernelOK(k') /\ k'.list = k.list
      /\ k'.count = [k.count EXCEPT ![s] = @ - 1]
      /\ \/ k.count[s] >= 1 /\ k'.pstate = k.pstate /\ k'.cproc = k.cproc
         \/ /\ k.count[s] <= 0 /\ k'.pstate = [k.pstate EXCEPT ![p] = s]
            /\ GivesWay(k, k')
  BY <1>1, WaitEffect
<1>3. k'.cproc \in Listed(k')
  BY <1>1, <1>2 DEF GivesWay, Listed
<1>4. Balanced(k', ContextAccess)
  BY <1>1, WaitBalanced, Constants DEF IInv, KernelPart
<1>5. \A q \in Process : at'[q] = IF q = p THEN WaitPlace(s) ELSE at[q]
  BY <1>1
<1>6. ASSUME NEW q \in Proc, NEW t \in Sem, k'.pstate[q] = t
      PROVE  MayWait(q, t) /\ at'[q] = WaitPlace(t)
  <2>1. CASE q = p
    <3>1. t = s
      BY <1>1, <1>2, <1>6, <2>1
    <3>2. QED
      BY <1>5, <2>1, <3>1
  <2>2. CASE q # p
    <3>1. k.pstate[q] = t
      BY <1>1, <1>2, <1>6, <2>2
    <3>2. MayWait(q, t) /\ at[q] = WaitPlace(t)
      BY <3>1 DEF IInv, KernelPart
    <3>3. QED
      BY <1>5, <2>2, <3>2 DEF MayWait
  <2>3. QED
    BY <2>1, <2>2
<1>7. KernelPart'
  BY <1>1, <1>2, <1>3, <1>4, <1>6 DEF KernelPart
<1>8. AccessPart'
  <2>1. p \notin Holders
    BY RunningProcess
  <2>2. \A q \in Process : q # p => (q \in Holders' <=> q \in Holders)
    BY <1>1, <1>2, <1>5 DEF Holders
  <2>3. CASE s # ContextAccess
    <3>1. p \notin Holders'
      BY <1>5, <2>3, Constants DEF Holders, WaitPlace, Accessing
    <3>2. Holders' = Holders
      BY <2>1, <2>2, <3>1 DEF Holders
    <3>3. k'.count[ContextAccess] = k.count[ContextAccess]
      BY <1>1, <1>2, <2>3, Constants
    <3>4. QED
      BY <3>2, <3>3 DEF IInv, AccessPart
  <2>4. CASE s = ContextAccess /\ k.count[s] >= 1
    <3>1. Holders = {}
      BY <1>1, <2>4 DEF IInv, AccessPart
    <3>2. k'.pstate[p] # ContextAccess /\ at'[p] = "scan"
      BY <1>1, <1>2, <1>5, <2>4, Constants DEF WaitPlace
    <3>3. Holders' = {p}
      BY <2>2, <3>1, <3>2 DEF Holders, Accessing
    <3>4. k'.count[ContextAccess] = 0
      BY <1>1, <1>2, <2>4, Constants DEF IInv, AccessPart
    <3>5. QED
      BY <3>3, <3>4 DEF AccessPart
  <2>5. CASE s = ContextAccess /\ k.count[s] <= 0
    <3>1. k'.pstate[p] = ContextAccess
      BY <1>1, <1>2, <2>5
    <3>2. Holders' = Holders
      BY <2>1, <2>2, <3>1 DEF Holders
    <3>3. k'.count[ContextAccess] <= 0 /\ k'.count[ContextAccess] # 1
      BY <1>1, <1>2, <2>5, Constants
    <3>4. \E q \in Process : Holders' = {q}
      BY <2>5, <3>2 DEF IInv, AccessPart
    <3>5. k'.count[ContextAccess] \in Int
      BY <1>1, <1>2, Constants
    <3>6. QED
      BY <3>3, <3>4, <3>5 DEF AccessPart
  <2>6. QED
    BY <1>2, <2>3, <2>4, <2>5
<1>9. QED
  BY <1>7, <1>8

(* A signal, of a running process that leaves its access or by an interrupt*)
(* routine.  A waiter that is woken takes the access over.                 *)
LEMMA Signals ==
  ASSUME IInv, NEW s \in Sem, k' = Signal(k, s),
         at' \in [Process -> Places], \A q \in Process : q # k.cproc => at'[q] = at[q],
         \/ s # ContextAccess /\ at' = at
         \/ /\ s = ContextAccess /\ k.cproc \in Process
            /\ at[k.cproc] \in Accessing /\ at'[k.cproc] \notin Accessing
  PROVE  KernelPart' /\ AccessPart'
<1>1. /\ KernelOK(k) /\ k.list = Priority /\ k.cproc \in Listed(k)
      /\ k.pstate \in [Proc -> Sem \cup {Runnable}] /\ k.pstate[k.cproc] = Runnable
      /\ k.count \in [Sem -> Int] /\ Process \subseteq Proc /\ Runnable \notin Sem
      /\ Listed(k) \subseteq Proc
  BY Constants DEF IInv, KernelPart, KernelOK, KernelType, Listed
<1>2. /\ KernelOK(k') /\ k'.list = k.list
      /\ k'.count = [k.count EXCEPT ![s] = @ + 1]
      /\ \/ /\ k.count[s] >= 0 \/ Waiters(k, s) = {}
            /\ k'.pstate = k.pstate /\ k'.cproc = k.cproc
         \/ k.count[s] < 0 /\ \E w \in Waiters(k, s) : Wakes(k, k', w)
  BY <1>1, SignalEffect
<1>3. k'.cproc \in Listed(k')
  <2>1. Listed(k') = Listed(k)
    BY <1>2 DEF Listed
  <2>2. k'.cproc = k.cproc \/ k'.cproc \in Waiters(k, s)
    BY <1>2 DEF Wakes
  <2>3. QED
    BY <1>1, <2>1, <2>2 DEF Waiters
<1>4. Balanced(k', ContextAccess)
  BY <1>1, SignalBalanced, Constants DEF IInv, KernelPart
<1>5. /\ \A q \in Proc, t \in Sem : k'.pstate[q] = t => k.pstate[q] = t /\ q # k.cproc
      /\ \A q \in Proc : k.pstate[q] # s => k'.pstate[q] = k.pstate[q]
  <2>1. CASE k'.pstate = k.pstate
    BY <1>1, <2>1
  <2>2. ASSUME NEW w \in Waiters(k, s), Wakes(k, k', w)
        PROVE  /\ \A q \in Proc, t \in Sem :
                    k'.pstate[q] = t => k.pstate[q] = t /\ q # k.cproc
               /\ \A q \in Proc : k.pstate[q] # s => k'.pstate[q] = k.pstate[q]
    <3>1. k'.pstate = [k.pstate EXCEPT ![w] = Runnable] /\ k.pstate[w] = s /\ w \in Proc
      BY <1>1, <2>2 DEF Wakes, Waiters
    <3>2. QED
      BY <1>1, <3>1
  <2>3. QED
    BY <1>2, <2>1, <2>2
<1>6. ASSUME NEW q \in Proc, NEW t \in Sem, k'.pstate[q] = t
      PROVE  MayWait(q, t) /\ at'[q] = WaitPlace(t)
  <2>1. k.pstate[q] = t /\ q # k.cproc
    BY <1>5, <1>6
  <2>2. MayWait(q, t) /\ at[q] = WaitPlace(t)
    BY <2>1 DEF IInv, KernelPart
  <2>3. QED
    BY <2>1, <2>2 DEF MayWait
<1>7. KernelPart'
  BY <1>1, <1>2, <1>3, <1>4, <1>6 DEF KernelPart
<1>8. CASE s # ContextAccess /\ at' = at
  <2>1. ASSUME NEW q \in Process
        PROVE  k'.pstate[q] = ContextAccess <=> k.pstate[q] = ContextAccess
    BY <1>1, <1>5, <1>8, Constants
  <2>2. Holders' = Holders
    BY <1>8, <2>1 DEF Holders
  <2>3. k'.count[ContextAccess] = k.count[ContextAccess]
    BY <1>1, <1>2, <1>8, Constants
  <2>4. QED
    BY <1>7, <2>2, <2>3 DEF IInv, AccessPart
<1>9. CASE s = ContextAccess /\ k.cproc \in Process /\ at[k.cproc] \in Accessing
           /\ at'[k.cproc] \notin Accessing
  <2> DEFINE p == k.cproc
  <2>1. Holders = {p} /\ k.count[s] <= 0 /\ p \notin Holders'
    BY <1>9, RunningProcess DEF Holders
  <2>2. CASE k.count[s] = 0
    <3>1. k'.pstate = k.pstate
      BY <1>1, <1>2, <2>2
    <3>2. \A q \in Process : q # p => (q \in Holders' <=> q \in Holders)
      BY <3>1 DEF Holders
    <3>3. Holders' = {}
      BY <2>1, <3>2 DEF Holders
    <3>4. k'.count[s] = 1
      BY <1>1, <1>2, <2>2
    <3>5. QED
      BY <1>7, <1>9, <3>3, <3>4 DEF AccessPart
  <2>3. CASE k.count[s] < 0
    <3>1. Waiters(k, s) # {}
      <4>1. Cardinality(Waiters(k, s)) = -k.count[s]
        BY <1>9, <2>3 DEF IInv, KernelPart, Balanced
      <4>2. Cardinality(Waiters(k, s)) # 0
        BY <1>1, <2>3, <4>1
      <4>3. QED
        BY <4>2, FS_EmptySet
    <3>2. PICK w \in Waiters(k, s) : Wakes(k, k', w)
      BY <1>1, <1>2, <2>3, <3>1
    <3>3. /\ w \in Proc /\ k.pstate[w] = ContextAccess /\ w # p
          /\ k'.pstate = [k.pstate EXCEPT ![w] = Runnable]
      BY <1>1, <1>9, <3>2 DEF Waiters, Wakes
    <3>4. w \in Process /\ at[w] = "scan"
      BY <1>9, <3>3 DEF IInv, KernelPart, MayWait, WaitPlace
    <3>5. w \in Holders'
      BY <1>1, <1>9, <3>3, <3>4 DEF Holders, Accessing
    <3>6. \A q \in Process : q # p /\ q # w => (q \in Holders' <=> q \in Holders)
      BY <1>1, <3>3 DEF Holders
    <3>7. Holders' = {w}
      BY <2>1, <3>5, <3>6 DEF Holders
    <3>8. k'.count[s] <= 0
      BY <1>1, <1>2, <2>3
    <3>9. QED
      BY <1>1, <1>7, <1>9, <1>2, <3>4, <3>7, <3>8 DEF AccessPart
  <2>4. QED
    BY <1>1, <2>1, <2>2, <2>3
<1>10. QED
  BY <1>7, <1>8, <1>9
-----------------------------------------------------------------------------
(* What each step does to the contexts. *)

Rec(i, st, e, pc, sk) == [id |-> i, state |-> st, echo |-> e, pc |-> pc, stack |-> sk]

\* What get-context writes into a context.
Filled(u, m) ==
  [u EXCEPT !.id = m, !.echo = TRUE, !.pc = MacroStart(m), !.stack = <<>>]

\* Context c became r, and the others are as they were.
Written(c, r) ==
  /\ context' = [d \in Context |-> context'[d]]
  /\ \A d \in Context : context'[d] = IF d = c THEN r ELSE context[d]

(* Changes of some fields of a context. *)
LEMMA ContextEdits ==
  ASSUME NEW u, IsContext(u), NEW x, NEW y
  PROVE  /\ [u EXCEPT !.state = x] = Rec(u.id, x, u.echo, u.pc, u.stack)
         /\ [u EXCEPT !.echo = x] = Rec(u.id, u.state, x, u.pc, u.stack)
         /\ [u EXCEPT !.id = x, !.state = y] = Rec(x, y, u.echo, u.pc, u.stack)
         /\ Filled(u, x) = Rec(x, u.state, TRUE, MacroStart(x), <<>>)
<1>1. u = Rec(u.id, u.state, u.echo, u.pc, u.stack)
  BY DEF IsContext, Rec
<1>2. /\ \A z : [u EXCEPT !.state = z] = Rec(u.id, z, u.echo, u.pc, u.stack)
      /\ \A z : [u EXCEPT !.echo = z] = Rec(u.id, u.state, z, u.pc, u.stack)
      /\ \A z : [u EXCEPT !.id = z] = Rec(z, u.state, u.echo, u.pc, u.stack)
  BY <1>1 DEF Rec
<1>3. [u EXCEPT !.id = x, !.state = y] = [[u EXCEPT !.id = x] EXCEPT !.state = y]
  BY SMT
<1>4. \A e, p : [u EXCEPT !.id = x, !.echo = e, !.pc = p, !.stack = <<>>]
        = [[[[u EXCEPT !.id = x] EXCEPT !.echo = e] EXCEPT !.pc = p] EXCEPT !.stack = <<>>]
  BY SMT
<1>5. [u EXCEPT !.id = x, !.state = y] = Rec(x, y, u.echo, u.pc, u.stack)
  <2> DEFINE a == [u EXCEPT !.id = x]
  <2>1. a = Rec(x, u.state, u.echo, u.pc, u.stack)
    BY <1>2
  <2> HIDE DEF a
  <2>2. [a EXCEPT !.state = y] = Rec(x, y, u.echo, u.pc, u.stack)
    BY <2>1 DEF Rec
  <2>3. QED
    BY <1>3, <2>2 DEF a
<1>6. ASSUME NEW e, NEW p
      PROVE  [u EXCEPT !.id = x, !.echo = e, !.pc = p, !.stack = <<>>]
               = Rec(x, u.state, e, p, <<>>)
  <2> DEFINE a == [u EXCEPT !.id = x]
  <2>1. a = Rec(x, u.state, u.echo, u.pc, u.stack)
    BY <1>2
  <2> HIDE DEF a
  <2> DEFINE b == [a EXCEPT !.echo = e]
  <2>2. b = Rec(x, u.state, e, u.pc, u.stack)
    BY <2>1 DEF Rec
  <2> HIDE DEF b
  <2> DEFINE c == [b EXCEPT !.pc = p]
  <2>3. c = Rec(x, u.state, e, p, u.stack)
    BY <2>2 DEF Rec
  <2> HIDE DEF c
  <2>4. [c EXCEPT !.stack = <<>>] = Rec(x, u.state, e, p, <<>>)
    BY <2>3 DEF Rec
  <2>5. QED
    BY <1>4, <2>4 DEF a, b, c
<1>7. Filled(u, x) = Rec(x, u.state, TRUE, MacroStart(x), <<>>)
  BY <1>6, Zenon DEF Filled
<1>8. QED
  BY <1>2, <1>5, <1>7

(* The context that a fork has found is filled in, but for its state. *)
LEMMA ScanEffect ==
  ASSUME Types, NEW p \in Process, ScanContexts(p)
  PROVE  \/ at' = [at EXCEPT ![p] = "give"] /\ UNCHANGED <<fork, context>>
         \/ /\ at' = [at EXCEPT ![p] = "start"]
            /\ \E c \in Context :
                 /\ context[c].state = Unused
                 /\ fork' = [fork EXCEPT ![p].to = c]
                 /\ Written(c, Rec(fork[p].id, Unused, TRUE, MacroStart(fork[p].id), <<>>))
<1> DEFINE free == InState(context, Unused)
           c == First(free)
           m == fork[p].id
<1>1. CASE free = {}
  BY <1>1 DEF ScanContexts, Goto
<1>2. CASE free # {}
  <2>1. /\ context' = [context EXCEPT ![c] = Filled(context[c], m)]
        /\ fork' = [fork EXCEPT ![p].to = c] /\ at' = [at EXCEPT ![p] = "start"]
    BY <1>2 DEF ScanContexts, Goto, Filled
  <2>2. c \in Context /\ context[c].state = Unused
    BY <1>2, FirstProperties DEF InState
  <2>3. Filled(context[c], m) = Rec(m, Unused, TRUE, MacroStart(m), <<>>)
    BY <2>2, ContextEdits DEF Types, Shapes, Shape
  <2> HIDE DEF c, m
  <2>4. context' = [context EXCEPT ![c] = Rec(m, Unused, TRUE, MacroStart(m), <<>>)]
    BY <2>1, <2>3
  <2>5. Written(c, Rec(m, Unused, TRUE, MacroStart(m), <<>>))
    BY <2>2, <2>4 DEF Written, Types, Shapes
  <2>6. QED
    BY <2>1, <2>2, <2>5 DEF m
<1>3. QED
  BY <1>1, <1>2

(* A started context differs in its state. *)
LEMMA StartEffect ==
  ASSUME Types, NEW p \in Process, StartContext(p), fork[p].to \in Context
  PROVE  LET u == context[fork[p].to]
         IN  Written(fork[p].to, Rec(u.id, Run, u.echo, u.pc, u.stack))
<1> DEFINE c == fork[p].to
<1>1. context' = [context EXCEPT ![c] = [context[c] EXCEPT !.state = Run]]
  BY DEF StartContext
<1>2. [context[c] EXCEPT !.state = Run]
        = Rec(context[c].id, Run, context[c].echo, context[c].pc, context[c].stack)
  BY ContextEdits DEF Types, Shapes, Shape
<1>3. QED
  BY <1>1, <1>2 DEF Written, Types, Shapes

(* The echo flag is recorded, or nothing is changed. *)
LEMMA EchoEffect ==
  ASSUME Types, NEW p \in Process, RecordEcho(p)
  PROVE  \/ context' = context
         \/ \E c \in Context, e \in BOOLEAN : LET u == context[c] IN
              Written(c, Rec(u.id, u.state, e, u.pc, u.stack))
<1> DEFINE c == fork[p].to
           e == fork[p].echo
<1>1. fork[p] \in Calls
  BY DEF Types
<1>2. c \in Context \cup {None} /\ e \in BOOLEAN
  BY <1>1 DEF Calls
<1>3. CASE c = None
  BY <1>3 DEF RecordEcho
<1>4. CASE c # None
  <2>1. context' = [context EXCEPT ![c] = [context[c] EXCEPT !.echo = e]]
    BY <1>4 DEF RecordEcho
  <2>2. c \in Context
    BY <1>2, <1>4
  <2>3. [context[c] EXCEPT !.echo = e]
          = Rec(context[c].id, context[c].state, e, context[c].pc, context[c].stack)
    BY <2>2, ContextEdits DEF Types, Shapes, Shape
  <2> HIDE DEF c, e
  <2>4. Written(c, Rec(context[c].id, context[c].state, e, context[c].pc, context[c].stack))
    BY <2>1, <2>2, <2>3 DEF Written, Types, Shapes
  <2>5. QED
    BY <1>2, <2>2, <2>4
<1>5. QED
  BY <1>3, <1>4

(* The two parts of flush-context. *)
LEMMA FlushEffect ==
  ASSUME Types, running \in Context
  PROVE  LET u == context[running]
         IN  /\ FlushFirst =>
                  Written(running, Rec(buffer.id, buffer.state, u.echo, u.pc, u.stack))
             /\ FlushRest =>
                  Written(running, Rec(u.id, u.state, buffer.echo, buffer.pc, buffer.stack))
<1> DEFINE c == running
           u == context[c]
<1>1. IsContext(u) /\ IsContext(buffer) /\ context = [d \in Context |-> context[d]]
  BY DEF Types, Shapes, Shape
<1>2. ASSUME FlushFirst
      PROVE  Written(c, Rec(buffer.id, buffer.state, u.echo, u.pc, u.stack))
  <2>1. context' = [context EXCEPT ![c].id = buffer.id, ![c].state = buffer.state]
    BY <1>2 DEF FlushFirst
  <2>2. context' = [[context EXCEPT ![c].id = buffer.id] EXCEPT ![c].state = buffer.state]
    BY <2>1, SMT
  <2> DEFINE f == [context EXCEPT ![c].id = buffer.id]
  <2>3. /\ f = [d \in Context |-> f[d]]
        /\ f[c] = Rec(buffer.id, u.state, u.echo, u.pc, u.stack)
        /\ \A d \in Context : d # c => f[d] = context[d]
    BY <1>1 DEF IsContext, Rec
  <2> HIDE DEF f
  <2>4. context' = [f EXCEPT ![c].state = buffer.state]
    BY <2>2 DEF f
  <2> HIDE DEF u
  <2>5. /\ context' = [d \in Context |-> context'[d]]
        /\ context'[c] = Rec(buffer.id, buffer.state, u.echo, u.pc, u.stack)
        /\ \A d \in Context : d # c => context'[d] = f[d]
    BY <2>3, <2>4 DEF Rec
  <2>6. QED
    BY <2>3, <2>5 DEF Written
<1>3. ASSUME FlushRest
      PROVE  Written(c, Rec(u.id, u.state, buffer.echo, buffer.pc, buffer.stack))
  <2>1. context' = [context EXCEPT ![c] = [buffer EXCEPT !.id = u.id, !.state = u.state]]
    BY <1>3 DEF FlushRest
  <2>2. [buffer EXCEPT !.id = u.id, !.state = u.state]
          = Rec(u.id, u.state, buffer.echo, buffer.pc, buffer.stack)
    BY <1>1, ContextEdits
  <2>3. QED
    BY <1>1, <2>1, <2>2 DEF Written
<1>4. QED
  BY <1>2, <1>3

(* What match-context does: it goes on to the state of the context that it *)
(* looks at, to kill it, to the next context, or out of the array.         *)
LEMMA SearchEffect ==
  ASSUME Types, HaltMatch \/ HaltState, halting \in Halts
  PROVE  /\ UNCHANGED <<k, fork, context, buffer, running, fresh, wanted>>
         /\ halting' \in {NoHalt} \cup Halts
         /\ \/ /\ at' = [at EXCEPT ![Commander] = "state"] /\ UNCHANGED halting
               /\ context[halting.at].id = halting.id
            \/ /\ at' = [at EXCEPT ![Commander] = "kill"] /\ UNCHANGED halting
               /\ at[Commander] = "state" /\ context[halting.at].state # Unused
            \/ /\ at' = [at EXCEPT ![Commander] = "match"]
               /\ halting' \in Halts /\ halting'.id = halting.id
            \/ at' = [at EXCEPT ![Commander] = "loop"] /\ halting' = NoHalt
<1>1. UNCHANGED <<k, fork, context, buffer, running, fresh, wanted>>
  BY DEF HaltMatch, HaltState, history
<1>2. halting.at < NContexts => [halting EXCEPT !.at = @ + 1] \in Halts
  BY Constants DEF Halts, Context
<1>3. ASSUME NextContext
      PROVE  \/ /\ at' = [at EXCEPT ![Commander] = "match"]
                /\ halting' \in Halts /\ halting'.id = halting.id
             \/ at' = [at EXCEPT ![Commander] = "loop"] /\ halting' = NoHalt
  BY <1>2, <1>3 DEF NextContext, Goto, Halts
<1>4. CASE HaltMatch
  BY <1>1, <1>3, <1>4 DEF HaltMatch, Goto
<1>5. CASE HaltState
  BY <1>1, <1>3, <1>5 DEF HaltState, At, Goto
<1>6. QED
  BY <1>4, <1>5

(* The context that is found becomes unused. *)
LEMMA KillEffect ==
  ASSUME Types, HaltKill, halting \in Halts
  PROVE  LET u == context[halting.at]
         IN  Written(halting.at, Rec(u.id, Unused, u.echo, u.pc, u.stack))
<1> DEFINE c == halting.at
<1>1. context' = [context EXCEPT ![c] = [context[c] EXCEPT !.state = Unused]]
  BY DEF HaltKill
<1>2. c \in Context
  BY DEF Halts
<1>3. [context[c] EXCEPT !.state = Unused]
        = Rec(context[c].id, Unused, context[c].echo, context[c].pc, context[c].stack)
  BY <1>2, ContextEdits DEF Types, Shapes, Shape
<1> HIDE DEF c
<1>4. QED
  BY <1>1, <1>2, <1>3 DEF Written, Types, Shapes, c

(* The contexts that wake up run; one that runs may be loaded. *)
LEMMA ReadyEffect ==
  ASSUME Types, MacroReady
  PROVE  \E due \in SUBSET InState(context, Sleep) :
           /\ context' = [c \in Context |-> context'[c]]
           /\ \A c \in Context : LET u == context[c] IN
                context'[c] = IF c \in due THEN Rec(u.id, Run, u.echo, u.pc, u.stack) ELSE u
           /\ \/ UNCHANGED <<buffer, running, fresh>>
              \/ /\ running' \in Context /\ fresh' = fresh \ {running'}
                 /\ buffer' = context'[running'] /\ buffer'.state = Run
<1>1. PICK due \in SUBSET InState(context, Sleep) :
        LET woken == [c \in Context |-> IF c \in due THEN [context[c] EXCEPT !.state = Run]
                                        ELSE context[c]]
            ready == InState(woken, Run)
        IN  /\ context' = woken
            /\ IF ready = {} THEN UNCHANGED <<buffer, running, fresh>>
               ELSE /\ buffer' = woken[First(ready)]
                    /\ running' = First(ready)
                    /\ fresh' = fresh \ {First(ready)}
  BY DEF MacroReady
<1>2. \A c \in Context : [context[c] EXCEPT !.state = Run]
        = Rec(context[c].id, Run, context[c].echo, context[c].pc, context[c].stack)
  BY ContextEdits DEF Types, Shapes, Shape
<1>3. /\ context' = [c \in Context |-> context'[c]]
      /\ \A c \in Context :
           context'[c] = IF c \in due
                         THEN Rec(context[c].id, Run, context[c].echo, context[c].pc,
                                  context[c].stack)
                         ELSE context[c]
  BY <1>1, <1>2
<1> DEFINE ready == InState(context', Run)
<1>4. \/ UNCHANGED <<buffer, running, fresh>>
      \/ /\ ready # {} /\ buffer' = context'[First(ready)]
         /\ running' = First(ready) /\ fresh' = fresh \ {First(ready)}
  BY <1>1, Zenon
<1>5. ready # {} => First(ready) \in Context /\ context'[First(ready)].state = Run
  <2>1. ready \subseteq Context /\ \A c \in ready : context'[c].state = Run
    BY DEF InState
  <2> HIDE DEF ready
  <2>2. QED
    BY <2>1, FirstProperties
<1> HIDE DEF ready
<1>6. QED
  BY <1>3, <1>4, <1>5

\* Process p goes to l with a call of its own; the calls of others stand.
Calling(p, l) ==
  /\ at' = [at EXCEPT ![p] = l]
  /\ fork' \in [Process -> Calls]
  /\ l = "get" => fork'[p].id \in Defined
  /\ \A q \in Process : q # p => fork'[q] = fork[q]

(* A fork that is asked for is made if its macro is defined. *)
LEMMA RequestEffect ==
  ASSUME Types, NEW p \in Process, NEW m, NEW e \in BOOLEAN, RequestFork(p, m, e)
  PROVE  Calling(p, "get") \/ Calling(p, Home(p))
<1>1. CASE m \in Defined
  <2>1. m \in Names
    BY <1>1, CodeAssumption DEF Names
  <2> DEFINE r == [id |-> m, echo |-> e, to |-> None]
  <2>2. r \in Calls /\ r.id = m
    BY <2>1 DEF Calls
  <2>3. fork' = [fork EXCEPT ![p] = r] /\ at' = [at EXCEPT ![p] = "get"]
    BY <1>1 DEF RequestFork, Goto
  <2> HIDE DEF r
  <2>4. QED
    BY <1>1, <2>2, <2>3 DEF Calling, Types
<1>2. CASE m \notin Defined
  BY <1>2, Constants DEF RequestFork, Goto, Calling, Types
<1>3. QED
  BY <1>1, <1>2

(* Commands come from the code, or from nowhere. *)
LEMMA CommandType == \A pc : CommandAt(pc) \in Command \cup {Garbage}
  BY CodeAssumption DEF CommandAt, InCode

(* The command process executes a command: it goes on, makes a fork, or    *)
(* goes to flush its context.                                              *)
LEMMA CommandEffect ==
  ASSUME Types, MacroCommand
  PROVE  /\ Shape(buffer') /\ buffer'.id = buffer.id /\ buffer'.echo = buffer.echo
         /\ Core(buffer') = AfterCommand(Core(buffer))
         /\ halting' \in {halting} \cup Halts
         /\ halting = NoHalt => halting'.id = Threads!Asks(CommandAt(buffer.pc))
         /\ \/ /\ Calling(Commander, "get") \/ Calling(Commander, "loop")
               /\ buffer.state = Run => buffer'.state = Run
               /\ UNCHANGED halting
            \/ at' = [at EXCEPT ![Commander] = "flush"] /\ UNCHANGED fork
<1> DEFINE o == CommandAt(buffer.pc)
           b == AfterCommand(buffer)
<1>1. /\ IsContext(b) /\ b.id = buffer.id /\ b.echo = buffer.echo
      /\ b.state \in {buffer.state, Unused, Sleep} /\ Core(b) = AfterCommand(Core(buffer))
  BY CommandOnContext DEF Types, Shape
<1>2. buffer' = b /\ running # None
  BY DEF MacroCommand
<1>3. Shape(b)
  BY <1>1 DEF Types, Shape
<1>4. (o.op = "halt" => o.id \notin Defined) /\ halting = NoHalt => halting.id = Threads!Asks(o)
  BY DEF Threads!Asks, Threads!Defined, Defined, NoHalt, Threads!NoMacro, NoMacro
<1>5. CASE /\ o.op = "run" /\ RequestFork(Commander, o.id, o.echo) /\ UNCHANGED halting
  <2>1. o.echo \in BOOLEAN
    BY <1>5, CommandType DEF Command, Garbage
  <2>2. Calling(Commander, "get") \/ Calling(Commander, "loop")
    BY <1>5, <2>1, RequestEffect, Constants
  <2>3. b.state = buffer.state
    <3>1. b = Loaded(buffer)
      BY <1>5 DEF AfterCommand, Execute
    <3>2. buffer = [id |-> buffer.id, state |-> buffer.state, echo |-> buffer.echo,
                    pc |-> buffer.pc, stack |-> buffer.stack]
      BY DEF Types, Shape, IsContext
    <3>3. QED
      BY <3>1, <3>2 DEF Loaded
  <2>4. QED
    BY <1>1, <1>2, <1>3, <1>5, <1>4, <2>2, <2>3 DEF Types
<1>6. CASE /\ o.op = "halt" /\ o.id \in Defined /\ StartHalt(o.id) /\ UNCHANGED fork
  <2>1. halting' = [id |-> o.id, at |-> 1] /\ at' = [at EXCEPT ![Commander] = "flush"]
    BY <1>2, <1>6 DEF StartHalt, Goto
  <2>2. halting' \in Halts /\ halting'.id = o.id
    BY <1>6, <2>1, Constants DEF Halts
  <2>3. Threads!Asks(o) = o.id
    BY <1>6 DEF Threads!Asks, Threads!Defined, Defined
  <2>4. QED
    BY <1>1, <1>2, <1>3, <1>6, <2>1, <2>2, <2>3
<1>7. CASE /\ o.op # "run" /\ ~(o.op = "halt" /\ o.id \in Defined)
           /\ Goto(Commander, IF b.state = Run THEN "loop" ELSE "flush")
           /\ UNCHANGED <<fork, halting>>
  <2>1. b.state = Run => Calling(Commander, "loop")
    BY <1>7 DEF Goto, Calling, Types
  <2>2. b.state # Run => at' = [at EXCEPT ![Commander] = "flush"]
    BY <1>7 DEF Goto
  <2>3. QED
    BY <1>1, <1>2, <1>3, <1>7, <1>4, <2>1, <2>2 DEF Types
<1>8. QED
  BY <1>5, <1>6, <1>7 DEF MacroCommand
-----------------------------------------------------------------------------
(* Every step keeps the invariant. *)

(* Writing a context keeps what is known of all of them. *)
LEMMA WrittenShapes ==
  ASSUME Shapes(context), NEW c \in Context, NEW r, Written(c, r), Shape(r)
  PROVE  Shapes(context')
  BY DEF Shapes, Written

(* What is put together of right parts is right. *)
LEMMA RecShape ==
  ASSUME NEW i \in Names, NEW st \in {Unused, Run, Sleep}, NEW e \in BOOLEAN, NEW pc, NEW sk
  PROVE  Shape(Rec(i, st, e, pc, sk))
  BY DEF Shape, IsContext, Rec

(* Types, except those of program counters and stacks. *)
LEMMA StepTypes == IInv /\ [Next]_vars => Types'
<1> SUFFICES ASSUME IInv, [Next]_vars PROVE Types'
  OBVIOUS
<1> USE DEF IInv
<1>1. /\ \A c \in Context : Shape(context[c])
      /\ Shapes(context) /\ Shape(buffer)
      /\ \A p \in Process, l \in Places : [at EXCEPT ![p] = l] \in [Process -> Places]
      /\ \A p \in Process : Home(p) \in Places
  BY Constants DEF Types, Shapes, Places
<1>2. ASSUME NEW p \in Process, NEW l \in Places, Calling(p, l)
      PROVE  at' \in [Process -> Places] /\ fork' \in [Process -> Calls]
  BY <1>1, <1>2 DEF Calling
<1>3. ASSUME NEW p \in Process, GetAccess(p) \/ ForkerWaits(p) \/ GiveAccess(p)
      PROVE  Types'
  BY <1>1, <1>3 DEF GetAccess, ForkerWaits, GiveAccess, Goto, runtime, history, Types, Places
<1>4. ASSUME NEW p \in Process, ScanContexts(p) PROVE Types'
  <2>1. UNCHANGED <<buffer, running, halting, fresh, wanted>>
    BY <1>4 DEF ScanContexts, history
  <2>2. CASE at' = [at EXCEPT ![p] = "give"] /\ UNCHANGED <<fork, context>>
    BY <1>1, <2>1, <2>2 DEF Types, Places
  <2>3. ASSUME NEW c \in Context, at' = [at EXCEPT ![p] = "start"],
               fork' = [fork EXCEPT ![p].to = c],
               Written(c, Rec(fork[p].id, Unused, TRUE, MacroStart(fork[p].id), <<>>))
        PROVE  Types'
    <3>1. fork[p] \in Calls
      BY DEF Types
    <3>2. fork[p].id \in Names /\ [fork[p] EXCEPT !.to = c] \in Calls
      BY <3>1 DEF Calls
    <3>3. Shapes(context')
      BY <1>1, <2>3, <3>2, RecShape, WrittenShapes
    <3>4. fork' \in [Process -> Calls]
      BY <2>3, <3>2 DEF Types
    <3>5. QED
      BY <1>1, <2>1, <2>3, <3>3, <3>4 DEF Types, Places
  <2>4. QED
    BY <1>4, <2>2, <2>3, ScanEffect
<1>5. ASSUME NEW p \in Process, StartContext(p) PROVE Types'
  <2>1. /\ at' = [at EXCEPT ![p] = "give"] /\ fresh' = fresh \cup {fork[p].to}
        /\ wanted' = [wanted EXCEPT ![fork[p].to] = fork[p].echo]
        /\ UNCHANGED <<fork, buffer, running, halting>> /\ at[p] = "start"
    BY <1>5 DEF StartContext, Goto, At
  <2>2. fork[p].to \in Context /\ fork[p].echo \in BOOLEAN
    BY <2>1 DEF ForkPart, Types, Calls
  <2>3. Shapes(context')
    BY <1>1, <1>5, <2>2, StartEffect, RecShape, WrittenShapes DEF Shape
  <2>4. QED
    BY <1>1, <2>1, <2>2, <2>3 DEF Types, Places
<1>6. ASSUME NEW p \in Process, RecordEcho(p) PROVE Types'
  <2>1. /\ at' = [at EXCEPT ![p] = Home(p)] /\ fork' = [fork EXCEPT ![p] = NoFork]
        /\ UNCHANGED <<buffer, running, halting, fresh, wanted>>
    BY <1>6 DEF RecordEcho, Goto, history
  <2>2. NoFork \in Calls
    BY DEF NoFork, Calls, Names
  <2>3. Shapes(context')
    BY <1>1, <1>6, EchoEffect, RecShape, WrittenShapes DEF Shape
  <2>4. QED
    BY <1>1, <2>1, <2>2, <2>3 DEF Types
<1>7. ASSUME NEW p \in Process, ForkerForks(p) PROVE Types'
  <2>1. Calling(p, "get") \/ Calling(p, Home(p))
    BY <1>7, RequestEffect, RequestsAssumption DEF ForkerForks
  <2>2. QED
    BY <1>1, <1>2, <1>7, <2>1 DEF ForkerForks, runtime, history, Types, Places
<1>8. ASSUME MacroReady PROVE Types'
  <2>1. UNCHANGED <<at, fork, halting, wanted>>
    BY <1>8 DEF MacroReady
  <2>2. PICK due \in SUBSET InState(context, Sleep) :
           /\ context' = [c \in Context |-> context'[c]]
           /\ \A c \in Context : LET u == context[c] IN
                context'[c] = IF c \in due THEN Rec(u.id, Run, u.echo, u.pc, u.stack) ELSE u
           /\ \/ UNCHANGED <<buffer, running, fresh>>
              \/ /\ running' \in Context /\ fresh' = fresh \ {running'}
                 /\ buffer' = context'[running'] /\ buffer'.state = Run
    BY <1>8, ReadyEffect
  <2>3. \A c \in Context : Shape(context'[c])
    BY <1>1, <2>2, RecShape DEF Shape
  <2>4. Shapes(context')
    BY <2>2, <2>3 DEF Shapes
  <2>5. QED
    BY <1>1, <2>1, <2>2, <2>3, <2>4 DEF Types
<1>9. ASSUME WaitMessage PROVE Types'
  BY <1>9 DEF WaitMessage, runtime, history, Types
<1>10. ASSUME MacroCommand PROVE Types'
  <2>1. UNCHANGED <<context, running, fresh, wanted>>
    BY <1>10 DEF MacroCommand, history
  <2>2. /\ Shape(buffer') /\ halting' \in {NoHalt} \cup Halts
        /\ at' \in [Process -> Places] /\ fork' \in [Process -> Calls]
    BY <1>1, <1>2, <1>10, CommandEffect, Constants DEF Types, Places
  <2>3. QED
    BY <2>1, <2>2 DEF Types
<1>11. ASSUME UplinkRun PROVE Types'
  <2>1. Calling(Commander, "get") \/ Calling(Commander, Home(Commander))
    BY <1>11, RequestEffect, RequestsAssumption, Constants DEF UplinkRun
  <2>2. QED
    BY <1>1, <1>2, <1>11, <2>1, Constants DEF UplinkRun, runtime, history, Types, Places
<1>12. ASSUME UplinkHalt PROVE Types'
  BY <1>1, <1>12, Constants DEF UplinkHalt, StartHalt, Goto, history, Types, Places, Halts
<1>13. ASSUME FlushFirst \/ FlushRest PROVE Types'
  <2>1. running \in Context
    BY <1>13 DEF FlushFirst, FlushRest, At, RunPart, Types
  <2>2. Shapes(context')
    BY <1>1, <1>13, <2>1, FlushEffect, RecShape, WrittenShapes DEF Shape
  <2>3. /\ at' \in [Process -> Places] /\ running' \in Context \cup {None}
        /\ UNCHANGED <<fork, buffer, halting, fresh, wanted>>
    BY <1>1, <1>13, Constants DEF FlushFirst, FlushRest, Goto, history, Types, Places
  <2>4. QED
    BY <2>2, <2>3 DEF Types
<1>14. ASSUME HaltKill PROVE Types'
  <2>1. halting \in Halts
    BY <1>14 DEF HaltKill, At, HaltPart, Searching
  <2>2. /\ at' = [at EXCEPT ![Commander] = "loop"] /\ halting' = NoHalt
        /\ UNCHANGED <<fork, buffer, running, wanted>> /\ fresh' \subseteq fresh
    BY <1>14 DEF HaltKill, Goto
  <2>3. Shapes(context')
    BY <1>1, <1>14, <2>1, KillEffect, RecShape, WrittenShapes DEF Shape, Halts
  <2>4. QED
    BY <1>1, <2>2, <2>3, Constants DEF Types, Places
<1>15. ASSUME HaltMatch \/ HaltState PROVE Types'
  <2>1. halting \in Halts
    BY <1>15 DEF HaltMatch, HaltState, At, HaltPart, Searching
  <2>2. QED
    BY <1>1, <1>15, <2>1, SearchEffect, Constants DEF Types, Places
<1>16. ASSUME NEW s \in Sem, Interrupt(s) PROVE Types'
  BY <1>16 DEF Interrupt, runtime, history, Types
<1>17. CASE UNCHANGED vars
  BY <1>17 DEF vars, runtime, history, Types
<1>18. QED
  BY <1>3, <1>4, <1>5, <1>6, <1>7, <1>8, <1>9, <1>10, <1>11, <1>12, <1>13, <1>14, <1>16,
     <1>17, <1>15, Constants
  DEF Next, ProcessStep, CommandStep, ForkStep

(* Access to the contexts passes from one process to the next. *)
LEMMA StepKernel == IInv /\ [Next]_vars => KernelPart' /\ AccessPart'
<1> DEFINE Goal == KernelPart' /\ AccessPart'
<1> SUFFICES ASSUME IInv, [Next]_vars PROVE Goal
  OBVIOUS
<1>1. /\ \A p \in Process : at[p] \in Places /\ Home(p) \notin Accessing
      /\ at \in [Process -> Places]
  BY Constants DEF IInv, Types, Accessing
<1>2. ASSUME NEW p \in Process, k.cproc = p, UNCHANGED k, NEW l,
             at' = [at EXCEPT ![p] = l], l \in Accessing <=> at[p] \in Accessing
      PROVE  Goal
  BY <1>2, Walks
<1>3. ASSUME UNCHANGED <<k, at>> PROVE Goal
  BY <1>3 DEF IInv, KernelPart, AccessPart, Holders
<1>4. ASSUME NEW p \in Process, k.cproc = p, UNCHANGED k, at[p] \notin Accessing,
             Calling(p, "get") \/ Calling(p, Home(p))
      PROVE  Goal
  <2>1. PICK l \in {"get", Home(p)} : at' = [at EXCEPT ![p] = l]
    BY <1>4 DEF Calling
  <2>2. l \notin Accessing
    BY <1>1 DEF Accessing
  <2>3. QED
    BY <1>2, <1>4, <2>1, <2>2
<1> HIDE DEF Goal
<1>5. ASSUME NEW p \in Process, GetAccess(p) PROVE Goal
  <2>1. MayWait(p, ContextAccess) /\ WaitPlace(ContextAccess) = "scan"
    BY Constants DEF MayWait, WaitPlace
  <2>2. at[p] \notin Accessing
    BY <1>5 DEF GetAccess, At, Accessing
  <2>3. k.cproc = p /\ k' = Wait(k, ContextAccess) /\ at' = [at EXCEPT ![p] = "scan"]
    BY <1>5 DEF GetAccess, At, Goto
  <2>4. QED
    BY <2>1, <2>2, <2>3, Waits, Constants DEF Goal
<1>6. ASSUME NEW p \in Process, ForkerWaits(p) PROVE Goal
  <2>1. MayWait(p, Pulse) /\ WaitPlace(Pulse) = "ready"
    BY <1>6, Constants DEF MayWait, WaitPlace, ForkerWaits
  <2>2. at[p] \notin Accessing
    BY <1>6 DEF ForkerWaits, At, Accessing
  <2>3. k.cproc = p /\ k' = Wait(k, Pulse) /\ at' = [at EXCEPT ![p] = "ready"]
    BY <1>6 DEF ForkerWaits, At, Goto
  <2>4. QED
    BY <2>1, <2>2, <2>3, Waits, Constants DEF Goal
<1>7. ASSUME WaitMessage PROVE Goal
  <2>1. MayWait(Commander, Message) /\ WaitPlace(Message) = "loop"
    BY Constants DEF MayWait, WaitPlace
  <2>2. at[Commander] = "loop" /\ k.cproc = Commander /\ k' = Wait(k, Message) /\ at' = at
    BY <1>7 DEF WaitMessage, At
  <2>3. at[Commander] \notin Accessing /\ at' = [at EXCEPT ![Commander] = "loop"]
    BY <1>1, <2>2 DEF Accessing
  <2>4. QED
    BY <2>1, <2>2, <2>3, Waits, Constants DEF Goal
<1>8. ASSUME NEW p \in Process, GiveAccess(p) PROVE Goal
  <2>1. /\ k.cproc = p /\ k' = Signal(k, ContextAccess) /\ at' = [at EXCEPT ![p] = "echo"]
        /\ at[p] \in Accessing
    BY <1>8 DEF GiveAccess, At, Goto, Accessing
  <2>2. /\ at' \in [Process -> Places] /\ at'[p] \notin Accessing
        /\ \A q \in Process : q # k.cproc => at'[q] = at[q]
    BY <1>1, <2>1 DEF Places, Accessing
  <2>3. QED
    BY <2>1, <2>2, Signals, Constants DEF Goal
<1>9. ASSUME Interrupt(Pulse) \/ Interrupt(Message) PROVE Goal
  <2>1. PICK s \in {Pulse, Message} : k' = Signal(k, s) /\ at' = at
    BY <1>9 DEF Interrupt
  <2>2. QED
    BY <1>1, <2>1, Signals, Constants DEF Goal
<1>10. ASSUME NEW p \in Process, ScanContexts(p) PROVE Goal
  <2>1. k.cproc = p /\ at[p] = "scan" /\ UNCHANGED k
    BY <1>10 DEF ScanContexts, At
  <2>2. PICK l \in {"give", "start"} : at' = [at EXCEPT ![p] = l]
    BY <1>10 DEF ScanContexts, Goto
  <2>3. QED
    BY <1>2, <2>1, <2>2 DEF Accessing
<1>11. ASSUME NEW p \in Process, StartContext(p) PROVE Goal
  <2>1. /\ k.cproc = p /\ at[p] = "start" /\ UNCHANGED k
        /\ at' = [at EXCEPT ![p] = "give"]
    BY <1>11 DEF StartContext, At, Goto
  <2>2. QED
    BY <1>2, <2>1 DEF Accessing
<1>12. ASSUME NEW p \in Process, RecordEcho(p) PROVE Goal
  <2>1. /\ k.cproc = p /\ at[p] = "echo" /\ UNCHANGED k
        /\ at' = [at EXCEPT ![p] = Home(p)]
    BY <1>12 DEF RecordEcho, At, Goto
  <2>2. QED
    BY <1>1, <1>2, <2>1 DEF Accessing
<1>13. ASSUME NEW p \in Process, ForkerForks(p) PROVE Goal
  <2>1. k.cproc = p /\ at[p] = "ready" /\ UNCHANGED k
    BY <1>13 DEF ForkerForks, At
  <2>2. Calling(p, "get") \/ Calling(p, Home(p))
    BY <1>13, RequestEffect, RequestsAssumption DEF ForkerForks, IInv
  <2>3. QED
    BY <1>4, <2>1, <2>2 DEF Accessing
<1>14. ASSUME UplinkRun PROVE Goal
  <2>1. k.cproc = Commander /\ at[Commander] = "loop" /\ UNCHANGED k
    BY <1>14 DEF UplinkRun, At
  <2>2. Calling(Commander, "get") \/ Calling(Commander, Home(Commander))
    BY <1>14, RequestEffect, RequestsAssumption, Constants DEF UplinkRun, IInv
  <2>3. QED
    BY <1>4, <2>1, <2>2, Constants DEF Accessing
<1>15. ASSUME MacroCommand PROVE Goal
  <2>1. k.cproc = Commander /\ at[Commander] = "loop" /\ UNCHANGED k
    BY <1>15 DEF MacroCommand, At
  <2>2. \/ Calling(Commander, "get") \/ Calling(Commander, Home(Commander))
        \/ at' = [at EXCEPT ![Commander] = "flush"]
    BY <1>15, CommandEffect, Constants DEF IInv
  <2>3. "flush" \notin Accessing /\ at[Commander] \notin Accessing
    BY <2>1 DEF Accessing
  <2>4. QED
    BY <1>2, <1>4, <2>1, <2>2, <2>3, Constants
<1>16. ASSUME UplinkHalt \/ FlushFirst \/ FlushRest \/ HaltMatch \/ HaltState \/ HaltKill
       PROVE  Goal
  <2> DEFINE Still == {"loop", "flush", "rest"} \cup Searching
  <2>1. k.cproc = Commander /\ at[Commander] \in Still /\ UNCHANGED k
    BY <1>16 DEF UplinkHalt, FlushFirst, FlushRest, HaltMatch, HaltState, HaltKill, At, Searching
  <2>2. PICK l \in Still : at' = [at EXCEPT ![Commander] = l]
    BY <1>16 DEF UplinkHalt, StartHalt, FlushFirst, FlushRest, HaltMatch, HaltState, HaltKill,
       NextContext, Goto, Searching
  <2>3. QED
    BY <1>2, <2>1, <2>2, Constants DEF Accessing, Searching
<1>17. ASSUME MacroReady \/ UNCHANGED vars PROVE Goal
  BY <1>3, <1>17 DEF MacroReady, vars
<1>18. QED
  BY <1>5, <1>6, <1>7, <1>8, <1>9, <1>10, <1>11, <1>12, <1>13, <1>14, <1>15, <1>16, <1>17
  DEF Next, ProcessStep, CommandStep, ForkStep

(* A process that is about to start a context has access to it; while it   *)
(* has, no other process is about to start one.                            *)
LEMMA Alone ==
  ASSUME KernelPart, AccessPart, NEW p \in Process, at[p] = "start"
  PROVE  \A q \in Process : at[q] \in {"start", "give"} => q = p
<1>1. ASSUME NEW q \in Process, at[q] \in {"start", "give"} PROVE q \in Holders
  <2>1. k.pstate[q] # ContextAccess
    BY <1>1, Constants DEF KernelPart, WaitPlace
  <2>2. QED
    BY <1>1, <2>1 DEF Holders, Accessing
<1>2. k.count[ContextAccess] \in Int
  BY Constants DEF KernelPart, KernelOK, KernelType
<1>3. p \in Holders
  BY <1>1
<1>4. k.count[ContextAccess] <= 0
  BY <1>2, <1>3 DEF AccessPart
<1>5. PICK q \in Process : Holders = {q}
  BY <1>4 DEF AccessPart
<1>6. QED
  BY <1>1, <1>3, <1>5

(* So does a process that runs with access to the contexts. *)
LEMMA AccessAlone ==
  ASSUME IInv, NEW p \in Process, k.cproc = p, at[p] \in Accessing
  PROVE  \A q \in Process : at[q] \in {"start", "give"} => q = p
<1>1. Holders = {p}
  BY RunningProcess
<1>2. ASSUME NEW q \in Process, at[q] \in {"start", "give"} PROVE q \in Holders
  BY <1>2, Constants DEF IInv, KernelPart, WaitPlace, Holders, Accessing
<1>3. QED
  BY <1>1, <1>2

(* A fork finds an unused context, and it stays so until it is started.    *)
LEMMA StepForks == IInv /\ [Next]_vars => ForkPart'
<1> SUFFICES ASSUME IInv, [Next]_vars PROVE ForkPart'
  OBVIOUS
<1> USE DEF IInv
<1>1. /\ at \in [Process -> Places] /\ fork \in [Process -> Calls]
      /\ \A p \in Process : Home(p) = IF p = Commander THEN "loop" ELSE "idle"
      /\ Commander \in Process /\ Commander \notin Forkers
      /\ at[Commander] \notin {"idle", "ready"}
      /\ \A q \in Process :
           /\ at[q] \in {"get", "scan", "start"} => fork[q].id \in Defined
           /\ at[q] = "start" => fork[q].to \in Context /\ context[fork[q].to].state = Unused
  BY Constants DEF Types, ForkPart
\* What is left to show when a process moves and its context is still unused.
<1>2. ASSUME NEW p \in Process, NEW l, at' = [at EXCEPT ![p] = l],
             \A q \in Process : q # p => fork'[q] = fork[q],
             l \in {"get", "scan", "start"} => fork'[p].id \in Defined,
             l = "start" => fork'[p].to \in Context /\ context'[fork'[p].to].state = Unused,
             l \in {"idle", "ready"} => p # Commander,
             \A q \in Process : q # p /\ at[q] = "start" =>
               context'[fork[q].to].state = Unused
      PROVE  ForkPart'
  <2>1. \A q \in Process : at'[q] = IF q = p THEN l ELSE at[q]
    BY <1>1, <1>2
  <2>2. ASSUME NEW q \in Process
        PROVE  /\ at'[q] \in {"get", "scan", "start"} => fork'[q].id \in Defined
               /\ at'[q] = "start" => /\ fork'[q].to \in Context
                                      /\ context'[fork'[q].to].state = Unused
    BY <1>1, <1>2, <2>1
  <2>3. at'[Commander] \notin {"idle", "ready"}
    BY <1>1, <1>2, <2>1
  <2>4. QED
    BY <2>2, <2>3 DEF ForkPart
<1>3. ASSUME NEW p \in Process, UNCHANGED context,
             Calling(p, "get") \/ Calling(p, Home(p))
      PROVE  ForkPart'
  <2>1. PICK l \in {"get", Home(p)} : Calling(p, l)
    BY <1>3
  <2>2. QED
    BY <1>1, <1>2, <1>3, <2>1 DEF Calling
<1>4. ASSUME NEW p \in Process, UNCHANGED <<fork, context>>, NEW l,
             at' = [at EXCEPT ![p] = l], l # "start",
             l \in {"get", "scan"} => at[p] \in {"get", "scan"},
             l \in {"idle", "ready"} => p # Commander
      PROVE  ForkPart'
  BY <1>1, <1>2, <1>4
<1>5. ASSUME NEW p \in Process, GetAccess(p) PROVE ForkPart'
  <2>1. at[p] = "get" /\ at' = [at EXCEPT ![p] = "scan"] /\ UNCHANGED <<fork, context>>
    BY <1>5 DEF GetAccess, At, Goto, runtime
  <2>2. QED
    BY <1>4, <2>1
<1>6. ASSUME NEW p \in Process, ForkerWaits(p) PROVE ForkPart'
  <2>1. /\ p \in Forkers /\ at' = [at EXCEPT ![p] = "ready"]
        /\ UNCHANGED <<fork, context>>
    BY <1>6 DEF ForkerWaits, At, Goto, runtime
  <2>2. QED
    BY <1>1, <1>4, <2>1
<1>7. ASSUME NEW p \in Process, GiveAccess(p) PROVE ForkPart'
  <2>1. at' = [at EXCEPT ![p] = "echo"] /\ UNCHANGED <<fork, context>>
    BY <1>7 DEF GiveAccess, At, Goto, runtime
  <2>2. QED
    BY <1>4, <2>1
<1>8. ASSUME NEW p \in Process, ScanContexts(p) PROVE ForkPart'
  <2>1. k.cproc = p /\ at[p] = "scan"
    BY <1>8 DEF ScanContexts, At
  <2>2. \A q \in Process : at[q] = "start" => q = p
    BY <2>1, AccessAlone DEF Accessing
  <2>3. CASE at' = [at EXCEPT ![p] = "give"] /\ UNCHANGED <<fork, context>>
    BY <1>4, <2>3
  <2>4. ASSUME NEW c \in Context, at' = [at EXCEPT ![p] = "start"],
               fork' = [fork EXCEPT ![p].to = c],
               Written(c, Rec(fork[p].id, Unused, TRUE, MacroStart(fork[p].id), <<>>))
        PROVE  ForkPart'
    <3>1. /\ fork'[p].to = c /\ fork'[p].id = fork[p].id
          /\ \A q \in Process : q # p => fork'[q] = fork[q]
      <4>1. fork[p] \in Calls
        BY <1>1
      <4>2. QED
        BY <1>1, <2>4, <4>1 DEF Calls
    <3>2. context'[c].state = Unused
      BY <2>4 DEF Written, Rec
    <3>3. fork[p].id \in Defined
      BY <1>1, <2>1
    <3>4. QED
      BY <1>2, <2>2, <2>4, <3>1, <3>2, <3>3
  <2>5. QED
    BY <1>8, <2>3, <2>4, ScanEffect
<1>9. ASSUME NEW p \in Process, StartContext(p) PROVE ForkPart'
  <2>1. at[p] = "start" /\ at' = [at EXCEPT ![p] = "give"] /\ UNCHANGED fork
    BY <1>9 DEF StartContext, At, Goto
  <2>2. \A q \in Process : at[q] = "start" => q = p
    BY <2>1, Alone
  <2>3. QED
    BY <1>2, <2>1, <2>2
<1>10. ASSUME NEW p \in Process, RecordEcho(p) PROVE ForkPart'
  <2>1. /\ at' = [at EXCEPT ![p] = Home(p)]
        /\ \A q \in Process : q # p => fork'[q] = fork[q]
    BY <1>1, <1>10 DEF RecordEcho, Goto
  <2>2. \A c \in Context : context'[c].state = context[c].state
    <3>1. CASE context' = context
      BY <3>1
    <3>2. ASSUME NEW c \in Context, NEW e,
                 Written(c, Rec(context[c].id, context[c].state, e, context[c].pc,
                                context[c].stack))
          PROVE  \A d \in Context : context'[d].state = context[d].state
      BY <3>2 DEF Written, Rec
    <3>3. QED
      BY <1>10, <3>1, <3>2, EchoEffect
  <2>3. QED
    BY <1>1, <1>2, <2>1, <2>2
<1>11. ASSUME NEW p \in Process, ForkerForks(p) PROVE ForkPart'
  <2>1. (Calling(p, "get") \/ Calling(p, Home(p))) /\ UNCHANGED context
    BY <1>11, RequestEffect, RequestsAssumption DEF ForkerForks, runtime
  <2>2. QED
    BY <1>3, <2>1
<1>12. ASSUME UplinkRun PROVE ForkPart'
  <2>1. /\ Calling(Commander, "get") \/ Calling(Commander, Home(Commander))
        /\ UNCHANGED context
    BY <1>12, RequestEffect, RequestsAssumption, Constants DEF UplinkRun, runtime
  <2>2. QED
    BY <1>1, <1>3, <2>1
<1>13. ASSUME MacroCommand PROVE ForkPart'
  <2>1. /\ UNCHANGED context
        /\ \/ Calling(Commander, "get") \/ Calling(Commander, "loop")
           \/ at' = [at EXCEPT ![Commander] = "flush"] /\ UNCHANGED fork
    BY <1>13, CommandEffect DEF MacroCommand
  <2>2. CASE Calling(Commander, "get") \/ Calling(Commander, "loop")
    BY <1>1, <1>3, <2>1, <2>2
  <2>3. CASE at' = [at EXCEPT ![Commander] = "flush"] /\ UNCHANGED fork
    BY <1>1, <1>4, <2>1, <2>3
  <2>4. QED
    BY <2>1, <2>2, <2>3
<1>14. ASSUME UplinkHalt PROVE ForkPart'
  <2>1. PICK l \in {"match", "flush"} : at' = [at EXCEPT ![Commander] = l]
    BY <1>14 DEF UplinkHalt, StartHalt, Goto
  <2>2. UNCHANGED <<fork, context>>
    BY <1>14 DEF UplinkHalt
  <2>3. QED
    BY <1>1, <1>4, <2>1, <2>2
<1>15. ASSUME FlushFirst PROVE ForkPart'
  <2>1. /\ at[Commander] = "flush" /\ at' = [at EXCEPT ![Commander] = "rest"]
        /\ UNCHANGED fork
    BY <1>15 DEF FlushFirst, At, Goto
  <2>2. running \in Context /\ context[running].state = Run
    BY <2>1 DEF RunPart, Types
  <2>3. \A c \in Context : c # running => context'[c] = context[c]
    BY <1>15, <2>2, FlushEffect DEF Written
  <2>4. ASSUME NEW q \in Process, at[q] = "start"
        PROVE  context'[fork[q].to].state = Unused
    BY <1>1, <2>2, <2>3, <2>4 DEF Unused, Run
  <2>5. QED
    BY <1>1, <1>2, <2>1, <2>4
<1>16. ASSUME FlushRest PROVE ForkPart'
  <2>1. /\ at[Commander] = "rest" /\ UNCHANGED fork
        /\ \E l \in {"loop", "match"} : at' = [at EXCEPT ![Commander] = l]
    BY <1>16 DEF FlushRest, At, Goto
  <2>2. running \in Context
    BY <2>1 DEF RunPart, Types
  <2>3. \A c \in Context : context'[c].state = context[c].state
    BY <1>16, <2>2, FlushEffect DEF Written, Rec
  <2>4. \A q \in Process : at[q] = "start" => context'[fork[q].to].state = Unused
    BY <1>1, <2>3
  <2>5. QED
    BY <1>1, <1>2, <2>1, <2>4
<1>17. ASSUME HaltKill PROVE ForkPart'
  <2>1. at' = [at EXCEPT ![Commander] = "loop"] /\ UNCHANGED fork /\ halting \in Halts
    BY <1>17 DEF HaltKill, At, Goto, HaltPart, Searching
  <2>2. \A c \in Context : context[c].state = Unused => context'[c].state = Unused
    BY <1>17, <2>1, KillEffect DEF Written, Rec, Halts
  <2>3. QED
    BY <1>1, <1>2, <2>1, <2>2
<1>18. ASSUME HaltMatch \/ HaltState PROVE ForkPart'
  <2>1. PICK l \in {"loop"} \cup Searching : at' = [at EXCEPT ![Commander] = l]
    BY <1>18 DEF HaltMatch, HaltState, NextContext, Goto, Searching
  <2>2. UNCHANGED <<fork, context>>
    BY <1>18 DEF HaltMatch, HaltState
  <2>3. QED
    BY <1>1, <1>4, <2>1, <2>2 DEF Searching
<1>19. ASSUME MacroReady PROVE ForkPart'
  <2>1. UNCHANGED <<at, fork>>
    BY <1>19 DEF MacroReady
  <2>2. \A c \in Context : context[c].state = Unused => context'[c] = context[c]
    BY <1>19, ReadyEffect DEF InState, Unused, Sleep
  <2>3. QED
    BY <1>1, <2>1, <2>2 DEF ForkPart
<1>20. ASSUME WaitMessage \/ Interrupt(Pulse) \/ Interrupt(Message) \/ UNCHANGED vars
       PROVE  ForkPart'
  BY <1>20 DEF WaitMessage, Interrupt, vars, runtime, ForkPart
<1>21. QED
  BY <1>5, <1>6, <1>7, <1>8, <1>9, <1>10, <1>11, <1>12, <1>13, <1>14, <1>15, <1>16, <1>17,
     <1>19, <1>20, <1>18
  DEF Next, ProcessStep, CommandStep, ForkStep

\* The contexts in use keep their name and state.
UsedKept ==
  \A c \in Context : context[c].state # Unused =>
    context'[c].state = context[c].state /\ context'[c].id = context[c].id

(* No fork disturbs a context in use. *)
LEMMA ForksKeepUsed ==
  ASSUME IInv, NEW p \in Process, ForkStep(p)
  PROVE  /\ UsedKept /\ UNCHANGED <<buffer, running, halting>>
         /\ \E l \in Places \ ({"flush", "rest"} \cup Searching) : at' = [at EXCEPT ![p] = l]
         /\ at[p] \in {"get", "scan", "start", "give", "echo"}
<1> USE DEF Searching
<1>1. Types /\ ForkPart /\ Home(p) \in Places \ ({"flush", "rest"} \cup Searching)
  BY Constants DEF IInv, Places
<1>2. CASE GetAccess(p) \/ GiveAccess(p)
  BY <1>2 DEF GetAccess, GiveAccess, At, Goto, runtime, UsedKept, Places
<1>3. CASE ScanContexts(p)
  <2>1. UsedKept
    <3>1. CASE context' = context
      BY <3>1 DEF UsedKept
    <3>2. ASSUME NEW c \in Context, context[c].state = Unused,
                 Written(c, Rec(fork[p].id, Unused, TRUE, MacroStart(fork[p].id), <<>>))
          PROVE  UsedKept
      BY <3>2 DEF Written, UsedKept, Unused, Run
    <3>3. QED
      BY <1>1, <1>3, <3>1, <3>2, ScanEffect
  <2>2. \E l \in {"give", "start"} : at' = [at EXCEPT ![p] = l]
    BY <1>3 DEF ScanContexts, Goto
  <2>3. QED
    BY <1>3, <2>1, <2>2 DEF ScanContexts, At, Places
<1>4. CASE StartContext(p)
  <2>1. at[p] = "start" /\ at' = [at EXCEPT ![p] = "give"]
    BY <1>4 DEF StartContext, At, Goto
  <2>2. fork[p].to \in Context /\ context[fork[p].to].state = Unused
    BY <1>1, <2>1 DEF ForkPart
  <2>3. UsedKept
    BY <1>1, <1>4, <2>2, StartEffect DEF Written, UsedKept, Unused, Run
  <2>4. QED
    BY <1>4, <2>1, <2>3 DEF StartContext, Places
<1>5. CASE RecordEcho(p)
  <2>1. UsedKept
    <3>1. CASE context' = context
      BY <3>1 DEF UsedKept
    <3>2. ASSUME NEW c \in Context, NEW e,
                 Written(c, Rec(context[c].id, context[c].state, e, context[c].pc,
                                context[c].stack))
          PROVE  UsedKept
      BY <3>2 DEF Written, Rec, UsedKept
    <3>3. QED
      BY <1>1, <1>5, <3>1, <3>2, EchoEffect
  <2>2. QED
    BY <1>1, <1>5, <2>1 DEF RecordEcho, At, Goto
<1>6. QED
  BY <1>2, <1>3, <1>4, <1>5 DEF ForkStep

(* The context of the running macro says that it runs, and which it is. *)
LEMMA StepRuns == IInv /\ [Next]_vars => RunPart'
<1> SUFFICES ASSUME IInv, [Next]_vars PROVE RunPart'
  OBVIOUS
<1> USE DEF IInv, Searching
<1> DEFINE Flushing == {"flush", "rest"} \cup Searching
<1>1. /\ at \in [Process -> Places] /\ Commander \in Process
      /\ running \in Context \cup {None} /\ None \notin Context
      /\ Home(Commander) = "loop" /\ \A p \in Process : Home(p) \notin Flushing
  BY Constants DEF Types
<1>2. ASSUME UNCHANGED <<buffer, running>>, UsedKept,
             \/ at'[Commander] = at[Commander]
             \/ at[Commander] \notin Flushing /\ at'[Commander] \notin Flushing
      PROVE  RunPart'
  BY <1>1, <1>2 DEF RunPart, UsedKept, Run, Unused
<1>3. ASSUME NEW p \in Process, ForkStep(p) PROVE RunPart'
  <2>1. /\ UsedKept /\ UNCHANGED <<buffer, running>>
        /\ \E l \in Places \ Flushing : at' = [at EXCEPT ![p] = l]
        /\ at[p] \notin Flushing
    BY <1>3, ForksKeepUsed
  <2>2. \/ at'[Commander] = at[Commander]
        \/ at[Commander] \notin Flushing /\ at'[Commander] \notin Flushing
    BY <1>1, <2>1
  <2>3. QED
    BY <1>2, <2>1, <2>2
<1>4. ASSUME NEW p \in Process, at[p] \notin Flushing, UNCHANGED <<context, buffer, running>>,
             Calling(p, "get") \/ Calling(p, Home(p))
      PROVE  RunPart'
  <2>1. \/ at'[Commander] = at[Commander]
        \/ at[Commander] \notin Flushing /\ at'[Commander] \notin Flushing
    BY <1>1, <1>4 DEF Calling
  <2>2. UsedKept
    BY <1>4 DEF UsedKept
  <2>3. QED
    BY <1>2, <1>4, <2>1, <2>2
<1>5. ASSUME NEW p \in Process, ForkerForks(p) PROVE RunPart'
  <2>1. /\ Calling(p, "get") \/ Calling(p, Home(p))
        /\ at[p] = "ready" /\ UNCHANGED <<context, buffer, running>>
    BY <1>5, RequestEffect, RequestsAssumption DEF ForkerForks, At, runtime
  <2>2. QED
    BY <1>4, <2>1
<1>6. ASSUME UplinkRun PROVE RunPart'
  <2>1. /\ Calling(Commander, "get") \/ Calling(Commander, Home(Commander))
        /\ at[Commander] = "loop" /\ UNCHANGED <<context, buffer, running>>
    BY <1>1, <1>6, RequestEffect, RequestsAssumption DEF UplinkRun, At, runtime
  <2>2. QED
    BY <1>1, <1>4, <2>1
<1>7. ASSUME NEW p \in Process, ForkerWaits(p) PROVE RunPart'
  <2>1. at' = [at EXCEPT ![p] = "ready"] /\ at[p] = "idle"
    BY <1>7 DEF ForkerWaits, At, Goto
  <2>2. UNCHANGED <<context, buffer, running>>
    BY <1>7 DEF ForkerWaits, runtime
  <2>3. UsedKept
    BY <2>2 DEF UsedKept
  <2>4. \/ at'[Commander] = at[Commander]
        \/ at[Commander] \notin Flushing /\ at'[Commander] \notin Flushing
    BY <1>1, <2>1
  <2>5. QED
    BY <1>2, <2>2, <2>3, <2>4
<1>8. ASSUME WaitMessage \/ Interrupt(Pulse) \/ Interrupt(Message) \/ UNCHANGED vars
      PROVE  RunPart'
  BY <1>8 DEF WaitMessage, Interrupt, vars, runtime, RunPart
<1>9. ASSUME MacroReady PROVE RunPart'
  <2>1. at[Commander] = "loop" /\ running = None /\ UNCHANGED at
    BY <1>9 DEF MacroReady, At
  <2>2. \/ UNCHANGED <<buffer, running>>
        \/ /\ running' \in Context /\ buffer' = context'[running']
           /\ buffer'.state = Run
    BY <1>9, ReadyEffect
  <2>3. QED
    BY <2>1, <2>2 DEF RunPart
<1>10. ASSUME MacroCommand PROVE RunPart'
  <2>1. /\ at[Commander] = "loop" /\ running # None /\ UNCHANGED <<context, running>>
        /\ buffer'.id = buffer.id
        /\ \/ /\ Calling(Commander, "get") \/ Calling(Commander, "loop")
              /\ buffer.state = Run => buffer'.state = Run
           \/ at' = [at EXCEPT ![Commander] = "flush"] /\ UNCHANGED fork
    BY <1>10, CommandEffect DEF MacroCommand, At
  <2>2. \/ at'[Commander] \in {"get", "loop"} /\ buffer'.state = Run
        \/ at'[Commander] = "flush"
    BY <1>1, <2>1 DEF Calling, RunPart
  <2>3. QED
    BY <2>1, <2>2 DEF RunPart
<1>11. ASSUME UplinkHalt PROVE RunPart'
  <2>1. /\ at[Commander] = "loop" /\ UNCHANGED <<context, buffer, running>>
        /\ at' = [at EXCEPT ![Commander] = IF running = None THEN "match" ELSE "flush"]
    BY <1>11 DEF UplinkHalt, StartHalt, At, Goto
  <2>2. QED
    BY <1>1, <2>1 DEF RunPart
<1>12. ASSUME FlushFirst PROVE RunPart'
  <2>1. /\ at[Commander] = "flush" /\ at' = [at EXCEPT ![Commander] = "rest"]
        /\ UNCHANGED running
    BY <1>12 DEF FlushFirst, At, Goto
  <2>2. QED
    BY <1>1, <2>1 DEF RunPart
<1>13. ASSUME FlushRest PROVE RunPart'
  <2>1. running' = None /\ \E l \in {"loop", "match"} : at' = [at EXCEPT ![Commander] = l]
    BY <1>13 DEF FlushRest, Goto
  <2>2. QED
    BY <1>1, <2>1 DEF RunPart
<1>14. ASSUME HaltMatch \/ HaltState \/ HaltKill PROVE RunPart'
  <2>1. /\ at[Commander] \in Searching /\ UNCHANGED running
        /\ \E l \in {"loop"} \cup Searching : at' = [at EXCEPT ![Commander] = l]
    BY <1>14 DEF HaltMatch, HaltState, HaltKill, NextContext, At, Goto, Searching
  <2>2. QED
    BY <1>1, <2>1 DEF RunPart, Searching
<1>15. QED
  BY <1>3, <1>5, <1>6, <1>7, <1>8, <1>9, <1>10, <1>11, <1>12, <1>13, <1>14
  DEF Next, ProcessStep, CommandStep

(* A halt begins and ends with its search. *)
LEMMA StepHalts == IInv /\ [Next]_vars => HaltPart'
<1> SUFFICES ASSUME IInv, [Next]_vars PROVE HaltPart'
  OBVIOUS
<1> USE DEF IInv
<1> DEFINE Flushing == {"flush", "rest"} \cup Searching
<1>1. /\ at \in [Process -> Places] /\ Commander \in Process
      /\ Home(Commander) = "loop" /\ \A p \in Process : Home(p) \notin Flushing
      /\ halting \in {NoHalt} \cup Halts
  BY Constants DEF Types, Searching
<1>2. ASSUME UNCHANGED halting, UsedKept,
             \/ at'[Commander] = at[Commander]
             \/ at[Commander] \notin Flushing /\ at'[Commander] \notin Flushing
      PROVE  HaltPart'
  BY <1>1, <1>2 DEF HaltPart, UsedKept, Searching, Halts
<1>3. ASSUME NEW p \in Process, ForkStep(p) PROVE HaltPart'
  <2>1. /\ UsedKept /\ UNCHANGED halting
        /\ \E l \in Places \ Flushing : at' = [at EXCEPT ![p] = l]
        /\ at[p] \notin Flushing
    BY <1>3, ForksKeepUsed DEF Searching
  <2>2. \/ at'[Commander] = at[Commander]
        \/ at[Commander] \notin Flushing /\ at'[Commander] \notin Flushing
    BY <1>1, <2>1
  <2>3. QED
    BY <1>2, <2>1, <2>2
<1>4. ASSUME NEW p \in Process, ForkerWaits(p) \/ ForkerForks(p) PROVE HaltPart'
  <2>1. /\ at[p] \in {"idle", "ready"} /\ UNCHANGED <<context, halting>>
        /\ \E l \in Places \ Flushing : at' = [at EXCEPT ![p] = l]
    <3>1. "ready" \in Places \ Flushing /\ "get" \in Places \ Flushing
          /\ Home(p) \in Places \ Flushing
      BY <1>1, Constants DEF Places, Searching
    <3> HIDE DEF Flushing
    <3>2. QED
      BY <1>4, <3>1 DEF ForkerWaits, ForkerForks, RequestFork, At, Goto, runtime
  <2>2. \/ at'[Commander] = at[Commander]
        \/ at[Commander] \notin Flushing /\ at'[Commander] \notin Flushing
    BY <1>1, <2>1 DEF Searching
  <2>3. QED
    BY <1>2, <2>1, <2>2 DEF UsedKept
<1>5. ASSUME UplinkRun PROVE HaltPart'
  <2>1. /\ at[Commander] = "loop" /\ UNCHANGED <<context, halting>>
        /\ \E l \in {"get", "loop"} : at' = [at EXCEPT ![Commander] = l]
    BY <1>1, <1>5 DEF UplinkRun, RequestFork, At, Goto, runtime
  <2>2. QED
    BY <1>1, <1>2, <2>1 DEF UsedKept, Searching
<1>6. ASSUME WaitMessage \/ Interrupt(Pulse) \/ Interrupt(Message) \/ UNCHANGED vars
      PROVE  HaltPart'
  BY <1>6 DEF WaitMessage, Interrupt, vars, runtime, HaltPart
<1>7. ASSUME MacroReady PROVE HaltPart'
  BY <1>7 DEF MacroReady, At, HaltPart, Searching
<1>8. ASSUME MacroCommand PROVE HaltPart'
  <2>1. at[Commander] = "loop" /\ halting = NoHalt
    BY <1>8 DEF MacroCommand, At, HaltPart, Searching
  <2>2. \/ at'[Commander] \in {"get", "loop"} /\ UNCHANGED halting
        \/ at'[Commander] = "flush"
    BY <1>1, <1>8, CommandEffect DEF Calling
  <2>3. QED
    BY <2>1, <2>2 DEF HaltPart, Searching
<1>9. ASSUME UplinkHalt PROVE HaltPart'
  <2>1. /\ halting' \in Halts /\ UNCHANGED context
        /\ at' = [at EXCEPT ![Commander] = IF running = None THEN "match" ELSE "flush"]
    BY <1>9, Constants DEF UplinkHalt, StartHalt, Goto, Halts
  <2>2. QED
    BY <1>1, <2>1 DEF HaltPart, Searching
<1>10. ASSUME FlushFirst PROVE HaltPart'
  BY <1>1, <1>10 DEF FlushFirst, Goto, HaltPart, Searching
<1>11. ASSUME FlushRest PROVE HaltPart'
  BY <1>1, <1>11 DEF FlushRest, Goto, HaltPart, Searching
<1>12. ASSUME HaltMatch \/ HaltState PROVE HaltPart'
  <2>1. halting \in Halts
    BY <1>12 DEF HaltMatch, HaltState, At, HaltPart, Searching
  <2>2. QED
    BY <1>1, <1>12, <2>1, SearchEffect DEF HaltPart, Searching
<1>13. ASSUME HaltKill PROVE HaltPart'
  BY <1>1, <1>13 DEF HaltKill, Goto, HaltPart, Searching
<1>14. QED
  BY <1>3, <1>4, <1>5, <1>6, <1>7, <1>8, <1>9, <1>10, <1>11, <1>12, <1>13
  DEF Next, ProcessStep, CommandStep

(* The invariant holds at the start. *)
LEMMA InitInv == Init => IInv
<1> SUFFICES ASSUME Init PROVE IInv
  OBVIOUS
<1>1. /\ k.list = Priority /\ k.cproc = Priority[1]
      /\ k.pstate = [p \in Proc |-> Runnable]
      /\ k.count = [s \in Sem |-> IF s = ContextAccess THEN 1 ELSE 0]
      /\ k = [list |-> Priority, cproc |-> Priority[1],
              pstate |-> [p \in Proc |-> Runnable],
              count |-> [s \in Sem |-> IF s = ContextAccess THEN 1 ELSE 0]]
  BY DEF Init
<1>2. /\ at = [p \in Process |-> Home(p)] /\ fork = [p \in Process |-> NoFork]
      /\ context = [c \in Context |-> NoContext] /\ buffer = NoContext
      /\ running = None /\ halting = NoHalt /\ fresh = {}
      /\ wanted = [c \in Context |-> FALSE]
  BY DEF Init
<1>3. Types
  <2>1. NoFork \in Calls /\ Shape(NoContext)
    BY DEF NoFork, Calls, Names, Shape, IsContext, NoContext
  <2>2. \A p \in Process : Home(p) \in Places
    BY Constants DEF Places
  <2>3. Shapes(context)
    BY <1>2, <2>1 DEF Shapes
  <2>4. QED
    BY <1>2, <2>1, <2>2, <2>3 DEF Types
<1>4. KernelPart
  <2>1. /\ Priority \in Seq(Proc) /\ 1 \in DOMAIN Priority /\ Priority[1] \in Proc
    BY ProcessAssumption
  <2>2. k \in KernelType
    BY <1>1, <2>1 DEF KernelType
  <2>3. KernelOK(k) /\ k.cproc \in Listed(k)
    BY <1>1, <2>1, <2>2, ProcessAssumption, NullAssumption DEF KernelOK, Distinct, Listed
  <2>4. \A p \in Proc, s \in Sem : k.pstate[p] # s
    BY <1>1, Constants
  <2>5. Waiters(k, ContextAccess) = {}
    BY <2>1, <2>4, <1>1, Constants DEF Waiters, Listed
  <2>6. Balanced(k, ContextAccess)
    BY <1>1, <2>5, FS_EmptySet, Constants DEF Balanced
  <2>7. QED
    BY <1>1, <2>3, <2>4, <2>6 DEF KernelPart
<1>5. AccessPart
  <2>1. Holders = {}
    BY <1>2, Constants DEF Holders, Accessing
  <2>2. QED
    BY <1>1, <2>1, Constants DEF AccessPart
<1>6. ForkPart /\ RunPart /\ HaltPart
  BY <1>2, Constants DEF ForkPart, RunPart, HaltPart, Searching
<1>7. QED
  BY <1>3, <1>4, <1>5, <1>6 DEF IInv

(* Every step keeps the invariant. *)
LEMMA StepInv == IInv /\ [Next]_vars => IInv'
  BY StepTypes, StepKernel, StepForks, StepRuns, StepHalts DEF IInv

(* The invariant holds always. *)
LEMMA Invariance == Spec => []IInv
  BY InitInv, StepInv, PTL DEF Spec

(* No two forks fill the same context, and the context that a fork fills   *)
(* stays unused until it is started, whatever the priorities of the        *)
(* processes are and whatever the macros do (get-context, fork-macro).     *)
THEOREM MacroForksApart == Spec => []ForksApart
<1>1. IInv => ForksApart
  <2> SUFFICES ASSUME IInv, NEW p \in Process, NEW q \in Process, at[p] = "start"
               PROVE  /\ context[fork[p].to].state = Unused
                      /\ p # q => at[q] \notin {"start", "give"}
    BY DEF ForksApart
  <2>1. QED
    BY Alone DEF IInv, ForkPart
<1>2. QED
  BY <1>1, Invariance, PTL

(* Whenever the command process looks, macro-running stands for a runnable *)
(* macro in run-context whose context in remote memory is marked so        *)
(* (macro-ready?, get-mac-cmd, flush-context).                             *)
THEOREM MacroRunningValid == Spec => []RunningValid
<1>1. IInv => RunningValid
  BY DEF IInv, RunPart, RunningValid
<1>2. QED
  BY <1>1, Invariance, PTL
-----------------------------------------------------------------------------
(* The command process above those that fork. *)

\* Whoever is above the running process waits.
TopRuns == \A p \in Proc : Above(k, p, k.cproc) => k.pstate[p] # Runnable

(* The kernel never leaves a runnable process above the running one. *)
LEMMA StepTop == IInv /\ TopRuns /\ [Next]_vars => TopRuns'
<1> SUFFICES ASSUME IInv, TopRuns, [Next]_vars PROVE TopRuns'
  OBVIOUS
<1>1. /\ KernelOK(k) /\ k.cproc \in Listed(k)
      /\ \A p \in Proc : Above(k, p, k.cproc) /\ k.pstate[p] = Runnable => p \in {}
  BY DEF IInv, KernelPart, TopRuns
<1>2. ASSUME NEW s \in Sem, k.cproc \in Process, k' = Wait(k, s) PROVE TopRuns'
  <2>1. k.cproc # NullProc
    BY <1>2, Constants
  <2>2. \A p \in Proc : Above(k', p, k'.cproc) /\ k'.pstate[p] = Runnable
                          => p \in {} \ {k'.cproc}
    BY <1>1, <1>2, <2>1, WaitPriority
  <2>3. QED
    BY <2>2 DEF TopRuns
<1>3. ASSUME NEW s \in Sem, k' = Signal(k, s) PROVE TopRuns'
  <2>1. \A p \in Proc : Above(k', p, k'.cproc) /\ k'.pstate[p] = Runnable
                          => p \in {} \ {k'.cproc}
    BY <1>1, <1>3, SignalPriority
  <2>2. QED
    BY <2>1 DEF TopRuns
<1>4. ASSUME UNCHANGED k PROVE TopRuns'
  BY <1>4 DEF TopRuns
<1>5. ASSUME NEW p \in Process, ForkStep(p) \/ ForkerWaits(p) \/ ForkerForks(p)
      PROVE  TopRuns'
  BY <1>2, <1>3, <1>4, <1>5, Constants
  DEF ForkStep, GetAccess, ScanContexts, StartContext, GiveAccess, RecordEcho, ForkerWaits,
      ForkerForks, At
<1>6. ASSUME CommandStep PROVE TopRuns'
  BY <1>2, <1>4, <1>6, Constants
  DEF CommandStep, MacroReady, WaitMessage, MacroCommand, UplinkRun, UplinkHalt, FlushFirst,
      FlushRest, HaltMatch, HaltState, HaltKill, At
<1>7. ASSUME Interrupt(Pulse) \/ Interrupt(Message) PROVE TopRuns'
  BY <1>3, <1>7, Constants DEF Interrupt
<1>8. QED
  BY <1>4, <1>5, <1>6, <1>7 DEF Next, ProcessStep, vars

(* While a forker runs, the command process waits: it is not in the middle *)
(* of a flush or a search.                                                 *)
LEMMA ForkersWait ==
  ASSUME CommanderAbove, IInv, TopRuns, k.cproc \in Forkers
  PROVE  at[Commander] \in {"loop", "scan"}
<1>1. Above(k, Commander, k.cproc)
  <2>1. PICK i \in DOMAIN Priority :
          /\ Priority[i] = Commander
          /\ \A j \in DOMAIN Priority : Priority[j] \in Forkers => i < j
    BY DEF CommanderAbove
  <2>2. PICK j \in DOMAIN k.list : k.list[j] = k.cproc
    BY DEF IInv, KernelPart, Listed
  <2>3. k.list = Priority
    BY DEF IInv, KernelPart
  <2>4. QED
    BY <2>1, <2>2, <2>3 DEF Above
<1>2. Commander \in Proc /\ k.pstate[Commander] # Runnable
  BY <1>1, Constants DEF TopRuns
<1>3. k.pstate[Commander] \in Sem
  BY <1>2 DEF IInv, KernelPart, KernelOK, KernelType
<1>4. /\ MayWait(Commander, k.pstate[Commander])
      /\ at[Commander] = WaitPlace(k.pstate[Commander])
  BY <1>2, <1>3 DEF IInv, KernelPart
<1>5. QED
  BY <1>4, Constants DEF MayWait, WaitPlace

(* A command process above those that fork is not disturbed in the middle *)
(* of a flush or of a look at a context (flush-context, match-context).    *)
THEOREM MacroUndisturbed ==
  ASSUME CommanderAbove
  PROVE  Spec => []Undisturbed
<1>1. IInv /\ TopRuns => Undisturbed
  BY ForkersWait DEF Undisturbed, At
<1>2. Init => TopRuns
  <2> SUFFICES ASSUME Init PROVE TopRuns
    OBVIOUS
  <2>1. /\ k.list = Priority /\ k.cproc = Priority[1] /\ 1 \in DOMAIN Priority
        /\ DOMAIN Priority = 1..Len(Priority)
    BY ProcessAssumption DEF Init
  <2>2. ASSUME NEW i \in DOMAIN Priority, NEW j \in DOMAIN Priority, i < j,
               Priority[j] = Priority[1]
        PROVE  FALSE
    <3>1. j = 1
      BY <2>1, <2>2, ProcessAssumption
    <3>2. QED
      BY <2>1, <2>2, <3>1, ProcessAssumption
  <2>3. QED
    BY <2>1, <2>2 DEF TopRuns, Above
<1>3. QED
  BY <1>1, <1>2, StepTop, Invariance, PTL DEF Spec
-----------------------------------------------------------------------------
(* A command process that is not disturbed. *)

\* A context starts at the first command of its macro: from the moment it is
\* filled in until it is first loaded nobody writes into it.  Nothing comes in
\* between the two parts of flush-context, nor between the look at the name of
\* a context and the end of the search.
StartPart ==
  /\ \A c \in fresh : /\ context[c].state # Unused /\ c # running
                      /\ context[c].pc = MacroStart(context[c].id) /\ context[c].stack = <<>>
  /\ \A p \in Process : at[p] = "start" =>
       LET u == context[fork[p].to]
       IN  /\ fork[p].to # running
           /\ u.id = fork[p].id /\ u.pc = MacroStart(u.id) /\ u.stack = <<>>
  /\ at[Commander] = "rest" =>
       context[running].id = buffer.id /\ context[running].state = buffer.state
  /\ at[Commander] \in {"state", "kill"} => context[halting.at].id = halting.id

JInv == IInv /\ StartPart

(* Steps that change neither the contexts nor which one runs. *)
LEMMA StartKept ==
  ASSUME IInv, StartPart, UNCHANGED <<context, running, fresh>>,
         NEW p \in Process, NEW l, at' = [at EXCEPT ![p] = l], l \notin {"start", "rest", "state", "kill"},
         \A q \in Process : q # p => fork'[q] = fork[q],
         p = Commander \/ UNCHANGED <<buffer, halting>>
  PROVE  StartPart'
<1>1. at \in [Process -> Places] /\ Commander \in Process
  BY Constants DEF IInv, Types
<1>2. \A q \in Process : at'[q] = IF q = p THEN l ELSE at[q]
  BY <1>1
<1>3. QED
  BY <1>1, <1>2 DEF StartPart

(* Every step keeps StartPart. *)
LEMMA StepStart == JInv /\ Undisturbed /\ [Next]_vars => StartPart'
<1> SUFFICES ASSUME JInv, Undisturbed, [Next]_vars PROVE StartPart'
  OBVIOUS
<1>1. /\ IInv /\ StartPart /\ HaltPart /\ Types /\ ForkPart /\ RunPart
      /\ at \in [Process -> Places] /\ Commander \in Process /\ fresh \subseteq Context
      /\ running \in Context \cup {None} /\ None \notin Context
      /\ \A p \in Process : Home(p) \in {"loop", "idle"}
  BY Constants DEF JInv, IInv, Types
<1>2. /\ \A c \in fresh :
           /\ context[c].state # Unused /\ c # running /\ c \in Context
           /\ context[c].pc = MacroStart(context[c].id) /\ context[c].stack = <<>>
      /\ \A q \in Process : at[q] = "start" =>
           LET u == context[fork[q].to]
           IN  /\ fork[q].to # running /\ fork[q].to \in Context /\ u.state = Unused
               /\ u.id = fork[q].id /\ u.pc = MacroStart(u.id) /\ u.stack = <<>>
      /\ at[Commander] = "rest" =>
           context[running].id = buffer.id /\ context[running].state = buffer.state
      /\ at[Commander] \in {"state", "kill"} =>
           context[halting.at].id = halting.id /\ halting.at \in Context
  BY <1>1 DEF StartPart, ForkPart, HaltPart, Halts, Searching
<1>3. ASSUME NEW p \in Process, GetAccess(p) \/ GiveAccess(p) \/ ForkerWaits(p)
      PROVE  StartPart'
  <2>1. PICK l \in {"scan", "echo", "ready"} : at' = [at EXCEPT ![p] = l]
    BY <1>3 DEF GetAccess, GiveAccess, ForkerWaits, Goto
  <2>2. UNCHANGED <<fork, context, buffer, running, halting, fresh>>
    BY <1>3 DEF GetAccess, GiveAccess, ForkerWaits, runtime, history
  <2>3. QED
    BY <1>1, <2>1, <2>2, StartKept
<1>4. ASSUME NEW p \in Process, ForkerForks(p) PROVE StartPart'
  <2>1. /\ Calling(p, "get") \/ Calling(p, Home(p))
        /\ UNCHANGED <<context, buffer, running, halting, fresh>>
    BY <1>1, <1>4, RequestEffect, RequestsAssumption DEF ForkerForks, runtime, history
  <2>2. PICK l \in {"get", "loop", "idle"} : Calling(p, l)
    BY <1>1, <2>1
  <2>3. QED
    BY <1>1, <2>1, <2>2, StartKept DEF Calling
<1>5. ASSUME UplinkRun PROVE StartPart'
  <2>1. /\ Calling(Commander, "get") \/ Calling(Commander, Home(Commander))
        /\ UNCHANGED <<context, buffer, running, fresh>>
    BY <1>1, <1>5, RequestEffect, RequestsAssumption DEF UplinkRun, runtime, history
  <2>2. PICK l \in {"get", "loop", "idle"} : Calling(Commander, l)
    BY <1>1, <2>1
  <2>3. QED
    BY <1>1, <2>1, <2>2, StartKept DEF Calling
<1>6. ASSUME MacroCommand PROVE StartPart'
  <2>1. /\ UNCHANGED <<context, running, fresh>>
        /\ \/ Calling(Commander, "get") \/ Calling(Commander, "loop")
           \/ at' = [at EXCEPT ![Commander] = "flush"] /\ UNCHANGED fork
    BY <1>1, <1>6, CommandEffect DEF MacroCommand, history
  <2>2. PICK l \in {"get", "loop", "flush"} :
          /\ at' = [at EXCEPT ![Commander] = l]
          /\ \A q \in Process : q # Commander => fork'[q] = fork[q]
    BY <2>1 DEF Calling
  <2>3. QED
    BY <1>1, <2>1, <2>2, StartKept
<1>7. ASSUME UplinkHalt PROVE StartPart'
  <2>1. PICK l \in {"match", "flush"} : at' = [at EXCEPT ![Commander] = l]
    BY <1>7 DEF UplinkHalt, StartHalt, Goto
  <2>2. UNCHANGED <<fork, context, buffer, running, fresh>>
    BY <1>7 DEF UplinkHalt, history
  <2>3. QED
    BY <1>1, <2>1, <2>2, StartKept
<1>8. ASSUME WaitMessage \/ Interrupt(Pulse) \/ Interrupt(Message) \/ UNCHANGED vars
      PROVE  StartPart'
  BY <1>1, <1>8 DEF WaitMessage, Interrupt, vars, runtime, history, StartPart
<1>9. ASSUME NEW p \in Process, ScanContexts(p) PROVE StartPart'
  <2>1. k.cproc = p /\ at[p] = "scan" /\ UNCHANGED <<buffer, running, halting, fresh>>
    BY <1>9 DEF ScanContexts, At, history
  <2>2. at[Commander] \notin {"rest", "state"}
    BY <2>1 DEF Process, Undisturbed, At
  <2>3. CASE at' = [at EXCEPT ![p] = "give"] /\ UNCHANGED <<fork, context>>
    <3>1. "give" \notin {"start", "rest", "state", "kill"} /\ \A q \in Process : fork'[q] = fork[q]
      BY <2>3
    <3>2. QED
      BY <1>1, <2>1, <2>3, <3>1, StartKept
  <2>4. ASSUME NEW c \in Context, context[c].state = Unused,
               at' = [at EXCEPT ![p] = "start"], fork' = [fork EXCEPT ![p].to = c],
               Written(c, Rec(fork[p].id, Unused, TRUE, MacroStart(fork[p].id), <<>>))
        PROVE  StartPart'
    <3>1. \A q \in Process : q # p => at'[q] # "start"
      <4>1. \A q \in Process : at[q] = "start" => q = p
        BY <1>1, <2>1, AccessAlone DEF Accessing
      <4>2. QED
        BY <1>1, <2>4, <4>1
    <3>2. fork'[p].to = c /\ fork'[p].id = fork[p].id
      <4>1. fork[p] \in Calls
        BY <1>1 DEF Types
      <4>2. QED
        BY <1>1, <2>4, <4>1 DEF Calls, Types
    <3>3. c # running
      BY <1>1, <2>2, <2>4 DEF RunPart, Unused, Run
    <3>4. context'[c] = Rec(fork[p].id, Unused, TRUE, MacroStart(fork[p].id), <<>>)
      BY <2>4 DEF Written
    <3>5. /\ context'[c].id = fork[p].id /\ context'[c].stack = <<>>
          /\ context'[c].pc = MacroStart(fork[p].id)
      BY <3>4 DEF Rec
    <3>6. \A d \in fresh : context'[d] = context[d]
      BY <1>2, <2>4 DEF Written
    <3>7. at'[Commander] \notin {"rest", "state"}
      BY <1>1, <2>2, <2>4
    <3>8. at'[Commander] = "kill" => context'[halting.at].id = halting.id
      <4>1. at'[Commander] = "kill" => at[Commander] = "kill"
        BY <1>1, <2>4
      <4>2. at[Commander] = "kill" => halting.at # c
        BY <1>1, <2>4 DEF HaltPart
      <4>3. QED
        BY <1>2, <2>4, <4>1, <4>2 DEF Written
    <3>9. QED
      BY <1>2, <2>1, <2>4, <3>1, <3>2, <3>3, <3>5, <3>6, <3>7, <3>8 DEF StartPart
  <2>5. QED
    BY <1>1, <1>9, <2>3, <2>4, ScanEffect
<1>10. ASSUME NEW p \in Process, StartContext(p) PROVE StartPart'
  <2> DEFINE c == fork[p].to
             u == context[c]
  <2>1. /\ at[p] = "start" /\ at' = [at EXCEPT ![p] = "give"] /\ fresh' = fresh \cup {c}
        /\ UNCHANGED <<fork, buffer, running, halting>>
    BY <1>10 DEF StartContext, At, Goto
  <2>2. /\ c \in Context /\ c # running /\ u.state = Unused
        /\ u.pc = MacroStart(u.id) /\ u.stack = <<>>
    BY <1>2, <2>1
  <2>3. Written(c, Rec(u.id, Run, u.echo, u.pc, u.stack))
    BY <1>1, <1>10, <2>2, StartEffect
  <2>4. /\ context'[c].state # Unused /\ context'[c].pc = MacroStart(context'[c].id)
        /\ context'[c].stack = <<>> /\ context'[c].id = context[c].id
    BY <2>2, <2>3 DEF Written, Rec, Unused, Run
  <2>5. \A d \in Context : d # c => context'[d] = context[d]
    BY <2>3 DEF Written
  <2>6. \A q \in Process : at'[q] # "start"
    <3>1. \A q \in Process : at[q] = "start" => q = p
      BY <1>1, <2>1, Alone DEF IInv
    <3>2. QED
      BY <1>1, <2>1, <3>1
  <2>7. /\ at'[Commander] \in {"rest", "state", "kill"} => at'[Commander] = at[Commander]
        /\ at[Commander] = "rest" => running \in Context
    BY <1>1, <2>1 DEF RunPart
  <2> HIDE DEF c, u
  <2>8. QED
    BY <1>1, <1>2, <2>1, <2>2, <2>4, <2>5, <2>6, <2>7 DEF StartPart
<1>11. ASSUME NEW p \in Process, RecordEcho(p) PROVE StartPart'
  <2>1. /\ at' = [at EXCEPT ![p] = Home(p)] /\ UNCHANGED <<buffer, running, halting, fresh>>
        /\ \A q \in Process : q # p => fork'[q] = fork[q]
    BY <1>1, <1>11 DEF RecordEcho, Goto, history, Types
  <2> DEFINE Same(d) ==
        /\ context'[d].state = context[d].state /\ context'[d].id = context[d].id
        /\ context'[d].pc = context[d].pc /\ context'[d].stack = context[d].stack
  <2>2. \A d \in Context : Same(d)
    <3>1. CASE context' = context
      BY <3>1
    <3>2. ASSUME NEW c \in Context, NEW e,
                 Written(c, Rec(context[c].id, context[c].state, e, context[c].pc,
                                context[c].stack))
          PROVE  \A d \in Context : Same(d)
      BY <3>2 DEF Written, Rec
    <3>3. QED
      BY <1>1, <1>11, <3>1, <3>2, EchoEffect
  <2>3. \A q \in Process : at'[q] = IF q = p THEN Home(p) ELSE at[q]
    BY <1>1, <2>1
  <2>4. at[Commander] = "rest" => running \in Context
    BY <1>1 DEF RunPart
  <2>5. QED
    BY <1>1, <1>2, <2>1, <2>2, <2>3, <2>4 DEF StartPart
<1>12. ASSUME MacroReady PROVE StartPart'
  <2>1. UNCHANGED <<at, fork>> /\ at[Commander] = "loop" /\ running = None
    BY <1>12 DEF MacroReady, At
  <2>2. PICK due \in SUBSET InState(context, Sleep) :
           /\ \A c \in Context : LET u == context[c] IN
                context'[c] = IF c \in due THEN Rec(u.id, Run, u.echo, u.pc, u.stack) ELSE u
           /\ \/ UNCHANGED <<buffer, running, fresh>>
              \/ /\ running' \in Context /\ fresh' = fresh \ {running'}
                 /\ buffer' = context'[running'] /\ buffer'.state = Run
    BY <1>1, <1>12, ReadyEffect
  <2>3. \A c \in Context :
          /\ context[c].state = Unused => context'[c] = context[c]
          /\ context[c].state # Unused => context'[c].state # Unused
          /\ context'[c].id = context[c].id /\ context'[c].pc = context[c].pc
          /\ context'[c].stack = context[c].stack
    <3>1. \A c \in due : context[c].state = Sleep
      BY <2>2 DEF InState
    <3>2. ASSUME NEW c \in Context, c \in due
          PROVE  /\ context'[c].state = Run /\ context'[c].id = context[c].id
                 /\ context'[c].pc = context[c].pc /\ context'[c].stack = context[c].stack
      <4>1. context'[c] = Rec(context[c].id, Run, context[c].echo, context[c].pc,
                              context[c].stack)
        BY <2>2, <3>2
      <4>2. QED
        BY <4>1 DEF Rec
    <3>3. QED
      BY <2>2, <3>1, <3>2 DEF Unused, Sleep, Run
  <2>4. /\ fresh' \subseteq fresh /\ running' \notin fresh'
        /\ running' # None => context'[running'].state = Run
    BY <1>1, <2>1, <2>2
  <2>5. QED
    BY <1>1, <1>2, <2>1, <2>3, <2>4 DEF StartPart, Unused, Run
<1>13. ASSUME FlushFirst PROVE StartPart'
  <2>1. /\ at[Commander] = "flush" /\ at' = [at EXCEPT ![Commander] = "rest"]
        /\ UNCHANGED <<fork, buffer, running, fresh>>
    BY <1>13 DEF FlushFirst, At, Goto, history
  <2>2. running \in Context
    BY <1>1, <2>1 DEF RunPart
  <2>3. /\ context'[running].id = buffer.id /\ context'[running].state = buffer.state
        /\ \A d \in Context : d # running => context'[d] = context[d]
    BY <1>1, <1>13, <2>2, FlushEffect DEF Written, Rec
  <2>4. \A q \in Process : at'[q] = "start" => at[q] = "start"
    BY <1>1, <2>1
  <2>5. QED
    BY <1>1, <1>2, <2>1, <2>2, <2>3, <2>4 DEF StartPart
<1>14. ASSUME FlushRest PROVE StartPart'
  <2>1. /\ at[Commander] = "rest" /\ running' = None /\ UNCHANGED <<fork, buffer, fresh>>
        /\ \E l \in {"loop", "match"} : at' = [at EXCEPT ![Commander] = l]
    BY <1>14 DEF FlushRest, At, Goto, history
  <2>2. running \in Context
    BY <1>1, <2>1 DEF RunPart
  <2>3. \A d \in Context : d # running => context'[d] = context[d]
    BY <1>1, <1>14, <2>2, FlushEffect DEF Written
  <2>4. at'[Commander] # "rest" /\ \A q \in Process : at'[q] = "start" => at[q] = "start"
    BY <1>1, <2>1
  <2>5. QED
    BY <1>1, <1>2, <2>1, <2>2, <2>3, <2>4 DEF StartPart
<1>15. ASSUME HaltMatch \/ HaltState PROVE StartPart'
  <2>1. halting \in Halts
    BY <1>1, <1>15 DEF HaltMatch, HaltState, At, HaltPart, Searching
  <2>2. /\ UNCHANGED <<fork, context, buffer, running, fresh>>
        /\ \E l \in {"state", "kill", "match", "loop"} :
             /\ at' = [at EXCEPT ![Commander] = l]
             /\ l \in {"state", "kill"} =>
                  UNCHANGED halting /\ context[halting.at].id = halting.id
    BY <1>1, <1>2, <1>15, <2>1, SearchEffect
  <2>3. QED
    BY <1>1, <1>2, <2>2 DEF StartPart
<1>16. ASSUME HaltKill PROVE StartPart'
  <2> DEFINE c == halting.at
  <2>1. /\ at' = [at EXCEPT ![Commander] = "loop"] /\ at[Commander] = "kill"
        /\ UNCHANGED <<fork, buffer, running>> /\ fresh' = fresh \ {c}
    BY <1>16 DEF HaltKill, At, Goto
  <2>2. halting \in Halts /\ context[c].state # Unused
    BY <1>1, <2>1 DEF HaltPart, Searching
  <2>3. /\ at'[Commander] = "loop"
        /\ \A q \in Process : at'[q] = "start" => at[q] = "start"
    BY <1>1, <2>1
  <2>4. \A d \in Context : d # c => context'[d] = context[d]
    BY <1>1, <1>16, <2>2, KillEffect DEF Written
  <2>5. \A q \in Process : at[q] = "start" => fork[q].to # c
    BY <1>2, <2>2
  <2>6. QED
    BY <1>1, <1>2, <2>1, <2>3, <2>4, <2>5 DEF StartPart
<1>17. QED
  BY <1>3, <1>4, <1>5, <1>6, <1>7, <1>8, <1>9, <1>10, <1>11, <1>12, <1>13, <1>14, <1>15, <1>16
  DEF Next, ProcessStep, CommandStep, ForkStep

(* The invariant of a command process that is not disturbed. *)
LEMMA StartInvariance == Spec /\ []Undisturbed => []JInv
<1>1. Init => JInv
  BY InitInv, Constants DEF Init, JInv, StartPart
<1>2. JInv /\ Undisturbed /\ [Next]_vars => JInv'
  BY StepInv, StepStart DEF JInv
<1>3. QED
  BY <1>1, <1>2, PTL DEF Spec

(* A macro that is forked begins at its first command with an empty stack, *)
(* whichever process forks it and whatever the priorities are, as long as  *)
(* no context is filled in while an ended one is copied back in two parts  *)
(* (fork-macro, flush-context).                                            *)
THEOREM MacroStartsAtBeginning == Spec /\ []Undisturbed => []StartsAtBeginning
<1>1. JInv => StartsAtBeginning
  BY DEF JInv, StartPart, StartsAtBeginning
<1>2. QED
  BY <1>1, StartInvariance, PTL

-----------------------------------------------------------------------------
(* The threads that the contexts and run-context stand for. *)

\* The thread that b holds.
Held(b) == IF b.state = Unused THEN [state |-> Unused] ELSE Core(b)

(* Where the thread of a context is. *)
LEMMA ThreadHeld ==
  /\ \A c : ThreadOf(c) = Held(View(c))
  /\ \A c : ThreadOf(c).state = View(c).state
<1>1. ASSUME NEW c
      PROVE  ThreadOf(c) = Held(View(c)) /\ ThreadOf(c).state = View(c).state
  <2> DEFINE b == View(c)
  <2>1. ThreadOf(c) = Held(b)
    BY DEF ThreadOf, Held, Core
  <2> HIDE DEF b
  <2>2. Held(b).state = b.state
    BY DEF Held, Core
  <2>3. QED
    BY <2>1, <2>2 DEF b
<1>2. QED
  BY <1>1

(* The threads execute the same commands. *)
LEMMA SameCode ==
  /\ \A t : Threads!AfterCommand(t) = AfterCommand(t)
  /\ \A m : Threads!NewThread(m) = NewThread(m)
  /\ Threads!Unused = Unused /\ Threads!Run = Run /\ Threads!Sleep = Sleep
  /\ Threads!Defined = Defined /\ Threads!NoMacro = NoMacro
  /\ \A pc : Threads!CommandAt(pc) = CommandAt(pc)
<1>1. \A pc : Threads!CommandAt(pc) = CommandAt(pc) /\ Threads!MacroStep(pc) = MacroStep(pc)
  BY DEF Threads!CommandAt, CommandAt, Threads!MacroStep, MacroStep, Threads!InCode, InCode,
     Threads!Garbage, Garbage, Threads!Astray, Astray, Threads!Defined, Defined
<1>2. /\ \A m : Threads!NewThread(m) = NewThread(m)
      /\ Threads!Unused = Unused /\ Threads!Run = Run /\ Threads!Sleep = Sleep
      /\ Threads!Defined = Defined /\ Threads!NoMacro = NoMacro
  BY DEF Threads!NoMacro, NoMacro, Threads!NewThread, NewThread, Threads!MacroStart, MacroStart, Threads!Unused, Unused,
     Threads!Run, Run, Threads!Sleep, Sleep, Threads!Defined, Defined
<1>3. /\ \A a, b : Threads!ToPc(a, b) = ToPc(a, b)
      /\ \A x, n : Threads!Top(x, n) = Top(x, n) /\ Threads!Pop(x, n) = Pop(x, n)
      /\ \A pc : Threads!PcCells(pc) = PcCells(pc)
      /\ \A m : Threads!MacroStart(m) = MacroStart(m)
  BY DEF Threads!ToPc, ToPc, Threads!Top, Top, Threads!Pop, Pop, Threads!PcCells, PcCells,
     Threads!MacroStart, MacroStart, Threads!Astray, Astray
<1>4. /\ \A t, m : Threads!NestMacro(t, m) = NestMacro(t, m)
      /\ \A t : Threads!EndMacro(t) = EndMacro(t)
      /\ \A t, n : Threads!LoopMacro(t, n) = LoopMacro(t, n)
  BY <1>2, <1>3, Zenon
  DEF Threads!NestMacro, NestMacro, Threads!EndMacro, EndMacro, Threads!LoopMacro, LoopMacro
<1>5. ASSUME NEW t PROVE Threads!UnloopMacro(t) = UnloopMacro(t)
  <2> DEFINE a == Top(t.stack, 0)
             p == ToPc(Top(t.stack, 2), Top(t.stack, 1))
             l == Pop(t.stack, 3)
             left == (a.count - 1) % CellSize
  <2>1. /\ Threads!Top(t.stack, 0) = a /\ Threads!Pop(t.stack, 3) = l
        /\ Threads!ToPc(Threads!Top(t.stack, 2), Threads!Top(t.stack, 1)) = p
        /\ Threads!CellSize = CellSize
    BY <1>3 DEF Threads!CellSize, CellSize
  <2>2. UnloopMacro(t) =
          IF left # 0 THEN [t EXCEPT !.stack[Len(t.stack)] = [count |-> left], !.pc = p]
                      ELSE [t EXCEPT !.stack = l]
    BY Zenon DEF UnloopMacro
  <2> HIDE DEF a, p, l
  <2>3. Threads!UnloopMacro(t) =
          IF left # 0 THEN [t EXCEPT !.stack[Len(t.stack)] = [count |-> left], !.pc = p]
                      ELSE [t EXCEPT !.stack = l]
    BY <2>1, Zenon DEF Threads!UnloopMacro
  <2>4. QED
    BY <2>2, <2>3, Zenon
<1>6. \A t, o : Threads!Execute(t, o) = Execute(t, o)
  BY <1>2, <1>4, <1>5 DEF Threads!Execute, Execute
<1>7. \A t : Threads!AfterCommand(t) = AfterCommand(t)
  BY <1>1, <1>6 DEF Threads!AfterCommand, AfterCommand, Threads!Loaded, Loaded
<1>8. QED
  BY <1>1, <1>2, <1>7
-----------------------------------------------------------------------------
(* Steps of the threads. *)

\* The thread of c became t, and the others are as they were.
Became(c, t) ==
  \A d \in Context : ThreadOf(d)' = IF d = c THEN t ELSE ThreadOf(d)

\* Steps that leave the threads alone, and what they are asked.
SameThreads == \A d \in Context : ThreadOf(d)' = ThreadOf(d)
SameAsked == halting'.id = halting.id
Kept == SameThreads /\ SameAsked

(* What makes a step of MacroThreads. *)
LEMMA ThreadSteps ==
  /\ Kept => UNCHANGED <<[c \in Context |-> ThreadOf(c)], halting.id>>
  /\ \A c \in Context :
       /\ \A m \in Defined :
            View(c).state = Unused /\ Became(c, NewThread(m)) /\ SameAsked
              => Threads!ForkThread(c, m)
       /\ \A t : /\ View(c).state = Run /\ AfterCommand(Core(View(c))) = t
                 /\ Became(c, IF t.state = Unused THEN [state |-> Unused] ELSE t)
                 /\ halting.id = NoMacro
                 /\ halting'.id = Threads!Asks(CommandAt(View(c).pc))
                 => Threads!ExecuteThread(c)
       /\ /\ View(c).state # Unused /\ View(c).id = halting.id
          /\ Became(c, [state |-> Unused]) /\ halting'.id = NoMacro
          => Threads!HaltThread(c)
  /\ \A S \in SUBSET Context :
       /\ \A c \in S : View(c).state = Sleep
       /\ \A c \in Context :
            ThreadOf(c)' = IF c \in S THEN [Core(View(c)) EXCEPT !.state = Run] ELSE ThreadOf(c)
       /\ SameAsked
       => Threads!WakeThreads(S)
  /\ \A m \in Defined :
       SameThreads /\ halting.id = NoMacro /\ halting'.id = m => Threads!AskHalt(m)
  /\ SameThreads /\ halting.id # NoMacro /\ halting'.id = NoMacro => Threads!HaltNone
<1> DEFINE T == [c \in Context |-> ThreadOf(c)]
<1>1. /\ \A c \in Context : T[c] = ThreadOf(c) /\ T'[c] = ThreadOf(c)'
      /\ T = [c \in Context |-> T[c]] /\ T' = [c \in Context |-> T'[c]]
  OBVIOUS
<1>2. Threads!NoThread = [state |-> Unused]
  BY SameCode DEF Threads!NoThread
<1>3. ASSUME NEW c \in Context
      PROVE  /\ View(c).state = Unused => T[c] = [state |-> Unused]
             /\ View(c).state # Unused => T[c] = Core(View(c))
             /\ T[c].state = View(c).state
  BY <1>1, ThreadHeld DEF Held
<1>4. ASSUME NEW c \in Context, NEW t, Became(c, t) PROVE T' = [T EXCEPT ![c] = t]
  BY <1>1, <1>4 DEF Became
<1>5. ASSUME SameThreads PROVE T' = T
  BY <1>1, <1>5 DEF SameThreads
<1> HIDE DEF T
<1>6. ASSUME NEW c \in Context, NEW m \in Defined, View(c).state = Unused,
             Became(c, NewThread(m)), SameAsked
      PROVE  Threads!ForkThread(c, m)
  BY <1>2, <1>3, <1>4, <1>6, SameCode DEF Threads!ForkThread, T, SameAsked
<1>7. ASSUME NEW c \in Context, View(c).state # Unused, View(c).id = halting.id,
             Became(c, [state |-> Unused]), halting'.id = NoMacro
      PROVE  Threads!HaltThread(c)
  <2>1. T[c] # [state |-> Unused] /\ T[c].id = halting.id
    <3>1. T[c] = Core(View(c)) /\ T[c].state # Unused
      BY <1>3, <1>7
    <3>2. Core(View(c)).id = View(c).id
      BY DEF Core
    <3>3. QED
      BY <1>7, <3>1, <3>2
  <2>2. QED
    BY <1>2, <1>4, <1>7, <2>1, SameCode DEF Threads!HaltThread, T
<1>8. ASSUME NEW c \in Context, NEW t, View(c).state = Run, AfterCommand(Core(View(c))) = t,
             Became(c, IF t.state = Unused THEN [state |-> Unused] ELSE t),
             halting.id = NoMacro, halting'.id = Threads!Asks(CommandAt(View(c).pc))
      PROVE  Threads!ExecuteThread(c)
  <2>1. T[c] = Core(View(c)) /\ T[c].state = Run
    BY <1>3, <1>8 DEF Run, Unused
  <2>2. T' = [T EXCEPT ![c] = IF t.state = Unused THEN [state |-> Unused] ELSE t]
    BY <1>4, <1>8
  <2>3. Threads!AfterCommand(T[c]) = t
    BY <1>8, <2>1, SameCode
  <2>4. halting'.id = Threads!Asks(Threads!CommandAt(T[c].pc))
    BY <1>8, <2>1, SameCode DEF Core
  <2>5. QED
    BY <1>2, <1>8, <2>1, <2>2, <2>3, <2>4, SameCode DEF Threads!ExecuteThread, T
<1>9. ASSUME NEW S \in SUBSET Context, \A c \in S : View(c).state = Sleep, SameAsked,
             \A c \in Context :
               ThreadOf(c)' = IF c \in S THEN [Core(View(c)) EXCEPT !.state = Run] ELSE ThreadOf(c)
      PROVE  Threads!WakeThreads(S)
  <2>1. \A c \in S : T[c] = Core(View(c)) /\ T[c].state = Sleep
    BY <1>3, <1>9 DEF Sleep, Unused
  <2>2. T' = [c \in Context |-> IF c \in S THEN [T[c] EXCEPT !.state = Run] ELSE T[c]]
    BY <1>1, <1>9, <2>1
  <2>3. QED
    BY <1>9, <2>1, <2>2, SameCode DEF Threads!WakeThreads, T, SameAsked
<1>10. ASSUME NEW m \in Defined, SameThreads, halting.id = NoMacro, halting'.id = m
       PROVE  Threads!AskHalt(m)
  BY <1>5, <1>10, SameCode DEF Threads!AskHalt, T
<1>11. ASSUME SameThreads, halting.id # NoMacro, halting'.id = NoMacro PROVE Threads!HaltNone
  BY <1>5, <1>11, SameCode DEF Threads!HaltNone, T
<1>12. Kept => UNCHANGED <<T, halting.id>>
  BY <1>5 DEF Kept, SameAsked
<1>13. QED
  BY <1>6, <1>7, <1>8, <1>9, <1>10, <1>11, <1>12 DEF T

(* Steps that neither write into a context nor load or drop one. *)
LEMMA KeepsThreads == UNCHANGED <<context, buffer, running>> => SameThreads
  BY DEF SameThreads, ThreadOf, View

(* A step that writes into one context. *)
LEMMA WrittenThread ==
  ASSUME Types, NEW c \in Context, NEW r, Written(c, r), UNCHANGED <<buffer, running>>
  PROVE  /\ \A d \in Context : d # c => ThreadOf(d)' = ThreadOf(d)
         /\ c = running => SameThreads
         /\ c # running => ThreadOf(c)' = Held(r)
<1>1. /\ \A d \in Context : context'[d] = IF d = c THEN r ELSE context[d]
      /\ buffer' = buffer /\ running' = running
  BY DEF Written
<1>2. \A d : ThreadOf(d)' = Held(IF running' = d THEN buffer' ELSE context'[d])
  BY DEF ThreadOf, View, Held, Core
<1>3. \A d : ThreadOf(d) = Held(IF running = d THEN buffer ELSE context[d])
  BY ThreadHeld DEF View
<1>4. QED
  BY <1>1, <1>2, <1>3 DEF SameThreads

(* What a fork does to the threads: it starts one when it starts the       *)
(* context, and nothing else of it is seen.                                *)
LEMMA ForkThreads ==
  ASSUME JInv, NEW p \in Process, ForkStep(p)
  PROVE  /\ SameAsked
         /\ SameThreads \/ \E c \in Context, m \in Defined : Threads!ForkThread(c, m)
<1>1. Types /\ ForkPart /\ StartPart /\ SameAsked
  BY ForksKeepUsed DEF JInv, IInv, SameAsked
<1>2. CASE GetAccess(p) \/ GiveAccess(p)
  <2>1. UNCHANGED <<context, buffer, running>>
    BY <1>2 DEF GetAccess, GiveAccess, runtime
  <2>2. QED
    BY <1>1, <2>1, KeepsThreads
<1>3. CASE ScanContexts(p)
  <2>1. UNCHANGED <<buffer, running>>
    BY <1>3 DEF ScanContexts
  <2>2. CASE UNCHANGED context
    BY <1>1, <2>1, <2>2, KeepsThreads
  <2>3. ASSUME NEW c \in Context, context[c].state = Unused, NEW r, r.state = Unused,
               Written(c, r)
        PROVE  SameThreads
    <3>1. c # running => ThreadOf(c) = [state |-> Unused]
      BY <2>3, ThreadHeld DEF Held, View
    <3>2. Held(r) = [state |-> Unused]
      BY <2>3 DEF Held
    <3>3. QED
      BY <1>1, <2>1, <2>3, <3>1, <3>2, WrittenThread DEF SameThreads
  <2>4. \/ UNCHANGED context
        \/ \E c \in Context : \E r : context[c].state = Unused /\ r.state = Unused /\ Written(c, r)
    <3>1. CASE UNCHANGED context
      BY <3>1
    <3>2. ASSUME NEW c \in Context, context[c].state = Unused,
                 Written(c, Rec(fork[p].id, Unused, TRUE, MacroStart(fork[p].id), <<>>))
          PROVE  \E r : r.state = Unused /\ Written(c, r)
      <4> DEFINE r == Rec(fork[p].id, Unused, TRUE, MacroStart(fork[p].id), <<>>)
      <4>1. r.state = Unused
        BY DEF Rec
      <4>2. Written(c, r)
        BY <3>2
      <4> HIDE DEF r
      <4>3. QED
        BY <4>1, <4>2
    <3>3. QED
      BY <1>1, <1>3, <3>1, <3>2, ScanEffect, Zenon
  <2>5. QED
    BY <1>1, <2>2, <2>3, <2>4
<1>4. CASE StartContext(p)
  <2> DEFINE c == fork[p].to
             u == context[c]
             r == Rec(u.id, Run, u.echo, u.pc, u.stack)
  <2>1. at[p] = "start" /\ UNCHANGED <<buffer, running>>
    BY <1>4 DEF StartContext, At
  <2>2. /\ c \in Context /\ u.state = Unused /\ c # running
        /\ u.id \in Defined /\ u.pc = MacroStart(u.id) /\ u.stack = <<>>
    BY <1>1, <2>1 DEF ForkPart, StartPart
  <2>3. Written(c, r)
    BY <1>1, <1>4, <2>2, StartEffect
  <2>4. Held(r) = NewThread(u.id)
    BY <2>2 DEF Held, Core, Rec, NewThread, Run, Unused
  <2>5. View(c).state = Unused
    BY <2>2 DEF View
  <2> HIDE DEF c, u, r
  <2>6. Became(c, NewThread(u.id))
    BY <1>1, <2>1, <2>2, <2>3, <2>4, WrittenThread DEF Became
  <2>7. QED
    BY <1>1, <2>2, <2>5, <2>6, ThreadSteps
<1>5. CASE RecordEcho(p)
  <2>1. UNCHANGED <<buffer, running>>
    BY <1>5 DEF RecordEcho
  <2>2. CASE context' = context
    BY <1>1, <2>1, <2>2, KeepsThreads
  <2>3. ASSUME NEW c \in Context, NEW e,
               Written(c, Rec(context[c].id, context[c].state, e, context[c].pc,
                              context[c].stack))
        PROVE  SameThreads
    <3> DEFINE u == context[c]
    <3>1. Held(Rec(u.id, u.state, e, u.pc, u.stack)) = Held(u)
      BY DEF Held, Core, Rec
    <3>2. c # running => ThreadOf(c) = Held(u)
      BY ThreadHeld DEF View
    <3> HIDE DEF u
    <3>3. QED
      BY <1>1, <2>1, <2>3, <3>1, <3>2, WrittenThread DEF SameThreads, u
  <2>4. QED
    BY <1>1, <1>5, <2>2, <2>3, EchoEffect
<1>6. QED
  BY <1>1, <1>2, <1>3, <1>4, <1>5 DEF ForkStep

(* What the command process does to the threads. *)
LEMMA CommandThreads ==
  ASSUME JInv, CommandStep
  PROVE  Kept \/ Threads!Next
<1>1. /\ Types /\ StartPart /\ RunPart /\ HaltPart /\ running \in Context \cup {None} /\ None \notin Context
      /\ \A c \in Context : View(c) = IF running = c THEN buffer ELSE context[c]
      /\ \A c : ThreadOf(c) = Held(View(c)) /\ ThreadOf(c).state = View(c).state
  BY ThreadHeld, Constants DEF JInv, IInv, Types, View
<1>2. CASE WaitMessage \/ UplinkRun
  <2>1. UNCHANGED <<context, buffer, running, halting>>
    BY <1>2 DEF WaitMessage, UplinkRun, runtime
  <2>2. QED
    BY <2>1, KeepsThreads DEF Kept, SameAsked
<1>3. CASE UplinkHalt
  <2>1. UNCHANGED <<context, buffer, running>> /\ halting.id = NoMacro
    BY <1>1, <1>3 DEF UplinkHalt, At, HaltPart, Searching, NoHalt
  <2>2. PICK m \in Defined : halting'.id = m
    BY <1>3 DEF UplinkHalt, StartHalt
  <2>3. Threads!AskHalt(m)
    BY <2>1, <2>2, KeepsThreads, ThreadSteps
  <2>4. QED
    BY <2>3, SameCode DEF Threads!Next
<1>4. CASE MacroReady
  <2>1. running = None /\ SameAsked
    BY <1>4 DEF MacroReady, SameAsked
  <2>2. PICK due \in SUBSET InState(context, Sleep) :
           /\ \A c \in Context : LET u == context[c] IN
                context'[c] = IF c \in due THEN Rec(u.id, Run, u.echo, u.pc, u.stack) ELSE u
           /\ \/ UNCHANGED <<buffer, running, fresh>>
              \/ /\ running' \in Context /\ fresh' = fresh \ {running'}
                 /\ buffer' = context'[running'] /\ buffer'.state = Run
    BY <1>1, <1>4, ReadyEffect
  <2>3. /\ due \in SUBSET Context
        /\ \A c \in Context : View(c) = context[c]
        /\ \A c \in due : View(c).state = Sleep
    BY <1>1, <2>1 DEF InState
  <2>4. \A c \in Context : ThreadOf(c)' = Held(context'[c])
    BY <1>1, <2>1, <2>2 DEF ThreadOf, View, Held, Core
  <2>5. ASSUME NEW c \in Context
        PROVE  ThreadOf(c)' = IF c \in due THEN [Core(View(c)) EXCEPT !.state = Run]
                              ELSE ThreadOf(c)
    <3> DEFINE u == context[c]
    <3>1. Held(Rec(u.id, Run, u.echo, u.pc, u.stack)) = [Core(u) EXCEPT !.state = Run]
      BY DEF Held, Core, Rec, Run, Unused
    <3> HIDE DEF u
    <3>2. c \in due => context'[c] = Rec(u.id, Run, u.echo, u.pc, u.stack)
      BY <2>2 DEF u
    <3>3. c \notin due => context'[c] = u
      BY <2>2 DEF u
    <3>4. View(c) = u /\ ThreadOf(c) = Held(u)
      BY <1>1, <2>3 DEF u
    <3>5. QED
      BY <2>4, <3>1, <3>2, <3>3, <3>4, Zenon
  <2>6. Threads!WakeThreads(due)
    BY <2>1, <2>3, <2>5, ThreadSteps
  <2>7. QED
    BY <2>3, <2>6 DEF Threads!Next
<1>5. CASE MacroCommand
  <2>1. /\ running \in Context /\ at[Commander] = "loop" /\ UNCHANGED <<context, running>>
        /\ Core(buffer') = AfterCommand(Core(buffer)) /\ halting.id = NoMacro
        /\ halting'.id = Threads!Asks(CommandAt(buffer.pc))
    BY <1>1, <1>5, CommandEffect DEF MacroCommand, At, HaltPart, Searching, NoHalt
  <2>2. View(running) = buffer /\ buffer.state = Run
    BY <1>1, <2>1 DEF RunPart
  <2>3. \A d \in Context : d # running => ThreadOf(d)' = ThreadOf(d)
    BY <2>1 DEF ThreadOf, View
  <2>4. ThreadOf(running)' = Held(buffer')
    BY <2>1 DEF ThreadOf, View, Held, Core
  <2>5. Core(buffer').state = buffer'.state
    BY DEF Core
  <2>6. Became(running, IF Core(buffer').state = Unused THEN [state |-> Unused] ELSE Core(buffer'))
    BY <2>1, <2>3, <2>4, <2>5 DEF Became, Held
  <2>7. Threads!ExecuteThread(running)
    BY <2>1, <2>2, <2>6, ThreadSteps
  <2>8. QED
    BY <2>1, <2>7 DEF Threads!Next
<1>6. CASE FlushFirst
  <2>1. running \in Context /\ UNCHANGED <<buffer, running, halting>>
    BY <1>1, <1>6 DEF FlushFirst, At, RunPart
  <2>2. \E r : Written(running, r)
    BY <1>1, <1>6, <2>1, FlushEffect
  <2>3. QED
    BY <1>1, <2>1, <2>2, WrittenThread DEF Kept, SameAsked
<1>7. CASE FlushRest
  <2>1. /\ running \in Context /\ running' = None /\ UNCHANGED <<buffer, halting>>
        /\ context[running].id = buffer.id /\ context[running].state = buffer.state
    BY <1>1, <1>7 DEF FlushRest, At, RunPart, StartPart
  <2>2. Written(running, Rec(buffer.id, buffer.state, buffer.echo, buffer.pc, buffer.stack))
    BY <1>1, <1>7, <2>1, FlushEffect
  <2>3. \A d \in Context : ThreadOf(d)' = Held(context'[d])
    BY <1>1, <2>1 DEF ThreadOf, View, Held, Core
  <2>4. Held(Rec(buffer.id, buffer.state, buffer.echo, buffer.pc, buffer.stack)) = Held(buffer)
    BY DEF Held, Core, Rec
  <2>5. /\ context'[running] =
             Rec(buffer.id, buffer.state, buffer.echo, buffer.pc, buffer.stack)
        /\ \A d \in Context : d # running => context'[d] = context[d]
    BY <2>1, <2>2 DEF Written
  <2>6. QED
    BY <1>1, <2>1, <2>3, <2>4, <2>5 DEF Kept, SameThreads, SameAsked
<1>8. CASE HaltMatch \/ HaltState
  <2>1. halting \in Halts
    BY <1>1, <1>8 DEF HaltMatch, HaltState, At, HaltPart, Searching
  <2>2. /\ UNCHANGED <<context, buffer, running>>
        /\ halting'.id = halting.id \/ halting'.id = NoMacro
    BY <1>1, <1>8, <2>1, SearchEffect DEF NoHalt
  <2>3. Kept \/ Threads!HaltNone
    BY <2>2, KeepsThreads, ThreadSteps DEF Kept, SameAsked
  <2>4. QED
    BY <2>3 DEF Threads!Next
<1>9. CASE HaltKill
  <2> DEFINE c == halting.at
             r == Rec(context[c].id, Unused, context[c].echo, context[c].pc, context[c].stack)
  <2>1. /\ at[Commander] = "kill" /\ UNCHANGED <<buffer, running>> /\ halting'.id = NoMacro
    BY <1>9 DEF HaltKill, At, NoHalt
  <2>2. /\ running = None /\ halting \in Halts /\ c \in Context
        /\ context[c].state # Unused /\ context[c].id = halting.id
    BY <1>1, <2>1 DEF RunPart, HaltPart, StartPart, Searching, Halts
  <2>3. Written(c, r)
    BY <1>1, <1>9, <2>2, KillEffect
  <2>4. Held(r) = [state |-> Unused]
    BY DEF Held, Rec
  <2> HIDE DEF r, c
  <2>5. Became(c, [state |-> Unused])
    BY <1>1, <2>1, <2>2, <2>3, <2>4, WrittenThread DEF Became
  <2>6. Threads!HaltThread(c)
    BY <1>1, <2>1, <2>2, <2>5, ThreadSteps
  <2>7. QED
    BY <2>2, <2>6 DEF Threads!Next
<1>10. QED
  BY <1>2, <1>4, <1>5, <1>6, <1>7, <1>8, <1>9, <1>3 DEF CommandStep

(* Every step of the run-time is a step of the threads, or none. *)
LEMMA StepThreads == JInv /\ [Next]_vars => Kept \/ Threads!Next
<1> SUFFICES ASSUME JInv, [Next]_vars PROVE Kept \/ Threads!Next
  OBVIOUS
<1>1. ASSUME NEW p \in Process, ForkStep(p) PROVE Kept \/ Threads!Next
  BY <1>1, ForkThreads, SameCode DEF Threads!Next, Kept
<1>2. ASSUME NEW p \in Process, ForkerWaits(p) \/ ForkerForks(p) PROVE Kept
  BY <1>2, KeepsThreads DEF ForkerWaits, ForkerForks, runtime, Kept, SameAsked
<1>3. ASSUME Interrupt(Pulse) \/ Interrupt(Message) \/ UNCHANGED vars PROVE Kept
  BY <1>3, KeepsThreads DEF Interrupt, vars, runtime, Kept, SameAsked
<1>4. QED
  BY <1>1, <1>2, <1>3, CommandThreads DEF Next, ProcessStep

(* The run-time implements threads that run atomically and apart, whatever *)
(* the priorities are, as long as no context is filled in while an ended   *)
(* one is copied back or between the two reads of one in a search: a fork  *)
(* takes a free context and starts its macro at the first command, each    *)
(* command is executed by one thread, a halt kills a thread of the macro   *)
(* asked for, and the copying between a context and run-context is never   *)
(* seen (macro-ready?, macro-step, flush-context, fork-macro, halt-macro). *)
THEOREM MacroOwnThreads == Spec /\ []Undisturbed => OwnThreads
<1>1. Init => Threads!Init
  <2> SUFFICES ASSUME Init PROVE Threads!Init
    OBVIOUS
  <2>1. \A c \in Context : View(c).state = Unused
    BY Constants DEF Init, View, NoContext
  <2>2. \A c \in Context : ThreadOf(c) = Threads!NoThread
    BY <2>1, SameCode DEF ThreadOf, Threads!NoThread
  <2>3. halting.id = Threads!NoMacro
    BY SameCode DEF Init, NoHalt
  <2>4. QED
    BY <2>2, <2>3 DEF Threads!Init
<1>2. JInv /\ [Next]_vars => [Threads!Next]_<<[c \in Context |-> ThreadOf(c)], halting.id>>
  BY StepThreads, ThreadSteps
<1>3. QED
  BY <1>1, <1>2, StartInvariance, PTL DEF Spec, OwnThreads, Threads!Spec
-----------------------------------------------------------------------------
(* Program counters and stacks. *)

\* Every context, and run-context, has the stack for the place that it is at.
PlacesOK(depth) ==
  (\A c \in Context : PlaceOK(context[c], depth)) /\ PlaceOK(buffer, depth)

(* Places go with the program counter and the stack. *)
LEMMA SamePlace ==
  \A depth, a, b : a.pc = b.pc /\ a.stack = b.stack /\ PlaceOK(b, depth) => PlaceOK(a, depth)
  BY DEF PlaceOK

(* Every step keeps the stacks right: a program counter is never copied    *)
(* without its stack.                                                      *)
LEMMA StepPlaces ==
  ASSUME NEW depth, LoopsNest(depth)
  PROVE  IInv /\ PlacesOK(depth) /\ [Next]_vars => PlacesOK(depth)'
<1> SUFFICES ASSUME IInv, PlacesOK(depth), [Next]_vars PROVE PlacesOK(depth)'
  OBVIOUS
<1>1. /\ Types /\ ForkPart /\ RunPart /\ running \in Context \cup {None} /\ None \notin Context
      /\ \A c \in Context : PlaceOK(context[c], depth)
      /\ PlaceOK(buffer, depth)
  BY Constants DEF IInv, Types, PlacesOK
<1>2. ASSUME UNCHANGED <<context, buffer>> PROVE PlacesOK(depth)'
  BY <1>1, <1>2 DEF PlacesOK
\* A place that is written, or a part of a context that is no place.
<1>3. ASSUME NEW c \in Context, NEW r, Written(c, r), PlaceOK(r, depth), UNCHANGED buffer
      PROVE  PlacesOK(depth)'
  BY <1>1, <1>3 DEF PlacesOK, Written
<1>4. ASSUME NEW i, NEW st, NEW e, NEW b, PlaceOK(b, depth)
      PROVE  PlaceOK(Rec(i, st, e, b.pc, b.stack), depth)
  BY <1>4, SamePlace DEF Rec
<1>5. ASSUME NEW p \in Process,
             GetAccess(p) \/ GiveAccess(p) \/ ForkerWaits(p) \/ ForkerForks(p)
      PROVE  PlacesOK(depth)'
  BY <1>2, <1>5 DEF GetAccess, GiveAccess, ForkerWaits, ForkerForks, runtime
<1>6. ASSUME \/ WaitMessage \/ UplinkRun \/ UplinkHalt \/ HaltMatch \/ HaltState
             \/ Interrupt(Pulse) \/ Interrupt(Message) \/ UNCHANGED vars
      PROVE  PlacesOK(depth)'
  BY <1>2, <1>6
  DEF WaitMessage, UplinkRun, UplinkHalt, HaltMatch, HaltState, Interrupt, vars, runtime
<1>7. ASSUME NEW p \in Process, ScanContexts(p) PROVE PlacesOK(depth)'
  <2> DEFINE m == fork[p].id
             r == Rec(m, Unused, TRUE, MacroStart(m), <<>>)
  <2>1. m \in Defined /\ UNCHANGED buffer
    BY <1>1, <1>7 DEF ScanContexts, At, ForkPart
  <2>2. PlaceOK([pc |-> MacroStart(m), stack |-> <<>>], depth)
    <3>1. /\ InCode(MacroStart(m)) /\ MacroStart(m) \in Pc
          /\ LevelOf(depth, MacroStart(m)) = [macro |-> m, loops |-> 0]
      BY <2>1, CodeLevels
    <3>2. Framed(<<>>, depth, [macro |-> m, loops |-> 0])
      BY <2>1, EmptyFramed
    <3> HIDE DEF m
    <3>3. QED
      BY <3>1, <3>2 DEF PlaceOK, Framed
  <2>3. r.pc = MacroStart(m) /\ r.stack = <<>>
    BY DEF Rec
  <2>4. \/ UNCHANGED context
        \/ \E c \in Context : Written(c, r)
    BY <1>1, <1>7, ScanEffect, Zenon
  <2> HIDE DEF r, m
  <2>5. PlaceOK(r, depth)
    BY <2>2, <2>3 DEF PlaceOK
  <2>6. QED
    BY <1>2, <1>3, <2>1, <2>4, <2>5
<1>8. ASSUME NEW p \in Process, StartContext(p) PROVE PlacesOK(depth)'
  <2> DEFINE c == fork[p].to
             u == context[c]
  <2>1. c \in Context /\ UNCHANGED buffer
    BY <1>1, <1>8 DEF StartContext, At, ForkPart
  <2>2. Written(c, Rec(u.id, Run, u.echo, u.pc, u.stack))
    BY <1>1, <1>8, <2>1, StartEffect
  <2>3. PlaceOK(u, depth)
    BY <1>1, <2>1
  <2> HIDE DEF c, u
  <2>4. QED
    BY <1>3, <1>4, <2>1, <2>2, <2>3
<1>9. ASSUME NEW p \in Process, RecordEcho(p) PROVE PlacesOK(depth)'
  <2>1. UNCHANGED buffer
    BY <1>9 DEF RecordEcho
  <2>2. ASSUME NEW c \in Context, NEW e,
               Written(c, Rec(context[c].id, context[c].state, e, context[c].pc,
                              context[c].stack))
        PROVE  PlacesOK(depth)'
    BY <1>1, <1>3, <1>4, <2>1, <2>2
  <2>3. QED
    BY <1>1, <1>2, <1>9, <2>1, <2>2, EchoEffect
<1>10. ASSUME MacroReady PROVE PlacesOK(depth)'
  <2>1. PICK due \in SUBSET InState(context, Sleep) :
           /\ \A c \in Context : LET u == context[c] IN
                context'[c] = IF c \in due THEN Rec(u.id, Run, u.echo, u.pc, u.stack) ELSE u
           /\ \/ UNCHANGED <<buffer, running, fresh>>
              \/ /\ running' \in Context /\ fresh' = fresh \ {running'}
                 /\ buffer' = context'[running'] /\ buffer'.state = Run
    BY <1>1, <1>10, ReadyEffect
  <2>2. ASSUME NEW c \in Context PROVE PlaceOK(context'[c], depth)
    BY <1>1, <1>4, <2>1
  <2>3. PlaceOK(buffer', depth)
    BY <1>1, <2>1, <2>2
  <2>4. QED
    BY <2>2, <2>3 DEF PlacesOK
<1>11. ASSUME MacroCommand PROVE PlacesOK(depth)'
  <2>1. Core(buffer') = AfterCommand(Core(buffer)) /\ UNCHANGED context
    BY <1>1, <1>11, CommandEffect DEF MacroCommand
  <2>2. IsThread(Core(buffer)) /\ PlaceOK(Core(buffer), depth)
    BY <1>1, SamePlace DEF Core, IsThread
  <2>3. PlaceOK(Core(buffer'), depth)
    BY <2>1, <2>2, CommandKeepsPlace
  <2>4. PlaceOK(buffer', depth)
    BY <2>3, SamePlace DEF Core
  <2>5. QED
    BY <1>1, <2>1, <2>4 DEF PlacesOK
<1>12. ASSUME FlushFirst PROVE PlacesOK(depth)'
  <2> DEFINE u == context[running]
  <2>1. running \in Context /\ UNCHANGED buffer
    BY <1>1, <1>12 DEF FlushFirst, At, RunPart
  <2>2. Written(running, Rec(buffer.id, buffer.state, u.echo, u.pc, u.stack))
    BY <1>1, <1>12, <2>1, FlushEffect
  <2>3. PlaceOK(u, depth)
    BY <1>1, <2>1
  <2> HIDE DEF u
  <2>4. QED
    BY <1>3, <1>4, <2>1, <2>2, <2>3
<1>13. ASSUME FlushRest PROVE PlacesOK(depth)'
  <2>1. running \in Context /\ UNCHANGED buffer
    BY <1>1, <1>13 DEF FlushRest, At, RunPart
  <2>2. Written(running, Rec(context[running].id, context[running].state, buffer.echo,
                             buffer.pc, buffer.stack))
    BY <1>1, <1>13, <2>1, FlushEffect
  <2>3. QED
    BY <1>1, <1>3, <1>4, <2>1, <2>2
<1>14. ASSUME HaltKill PROVE PlacesOK(depth)'
  <2> DEFINE c == halting.at
             u == context[c]
  <2>1. c \in Context /\ halting \in Halts /\ UNCHANGED buffer
    BY <1>14 DEF HaltKill, At, IInv, HaltPart, Searching, Halts
  <2>2. Written(c, Rec(u.id, Unused, u.echo, u.pc, u.stack))
    BY <1>1, <1>14, <2>1, KillEffect
  <2>3. PlaceOK(u, depth)
    BY <1>1, <2>1
  <2> HIDE DEF c, u
  <2>4. QED
    BY <1>3, <1>4, <2>1, <2>2, <2>3
<1>15. QED
  BY <1>5, <1>6, <1>7, <1>8, <1>9, <1>10, <1>11, <1>12, <1>13, <1>14
  DEF Next, ProcessStep, CommandStep, ForkStep

(* At the start no context is in any code. *)
LEMMA InitPlaces ==
  ASSUME NEW depth
  PROVE  Init => PlacesOK(depth)
<1> SUFFICES ASSUME Init PROVE PlacesOK(depth)
  OBVIOUS
<1>1. \A m \in Defined : 0 \notin DOMAIN Code[m]
  BY CodeAssumption
<1>2. PlaceOK(NoContext, depth)
  BY <1>1 DEF PlaceOK, NoContext, Astray, Pc, InCode
<1>3. QED
  BY <1>2 DEF Init, PlacesOK

(* The stacks are always right. *)
LEMMA PlacesInvariance ==
  ASSUME NEW depth, LoopsNest(depth)
  PROVE  Spec => []PlacesOK(depth)
<1>1. PlacesOK(depth) /\ IInv /\ [Next]_vars => PlacesOK(depth)'
  BY StepPlaces
<1>2. Init => PlacesOK(depth)
  BY InitPlaces
<1>3. QED
  BY <1>1, <1>2, Invariance, PTL DEF Spec

(* Every variable has its type when macros nest their loops properly: the  *)
(* stack of a context holds saved program counters and loop counters, and  *)
(* what is popped as a program counter was pushed as one (nest-macro,      *)
(* end-macro, loop-macro, unloop-macro).                                   *)
THEOREM MacroTypeOK ==
  ASSUME NEW depth, LoopsNest(depth)
  PROVE  Spec => []TypeOK
<1>1. ASSUME NEW b, Shape(b), PlaceOK(b, depth) PROVE b \in ContextType
  <2>1. /\ b = [id |-> b.id, state |-> b.state, echo |-> b.echo, pc |-> b.pc, stack |-> b.stack]
        /\ b.id \in MacroId \cup {NoMacro} /\ b.state \in {Unused, Run, Sleep}
        /\ b.echo \in BOOLEAN /\ b.pc \in Pc /\ b.stack \in Seq(Cell)
    BY <1>1 DEF Shape, IsContext, Names, PlaceOK
  <2>2. QED
    BY <2>1, Zenon DEF ContextType
<1>2. IInv /\ PlacesOK(depth) => TypeOK
  <2> SUFFICES ASSUME IInv, PlacesOK(depth) PROVE TypeOK
    OBVIOUS
  <2>1. k \in KernelType
    BY DEF IInv, KernelPart, KernelOK
  <2>2. context \in [Context -> ContextType] /\ buffer \in ContextType
    BY <1>1 DEF IInv, Types, Shapes, PlacesOK
  <2>3. QED
    BY <2>1, <2>2 DEF TypeOK, IInv, Types, Places, Calls, Names, Halts
<1>3. QED
  BY <1>2, Invariance, PlacesInvariance, PTL
-----------------------------------------------------------------------------
(* Threads stay in the code. *)

\* The threads that are not unused are at commands of defined macros.
CodePart ==
  \A c \in Context : ThreadOf(c).state # Unused => InCode(ThreadOf(c).pc)

(* No step of a thread leaves the code. *)
LEMMA ThreadsStayInCode ==
  ASSUME NEW depth, LoopsNest(depth), Types, PlacesOK(depth), CodePart,
         Kept \/ Threads!Next
  PROVE  CodePart'
<1> DEFINE T == [c \in Context |-> ThreadOf(c)]
           In(t) == t.state # Unused => InCode(t.pc)
<1>1. /\ \A c \in Context : T[c] = ThreadOf(c) /\ In(T[c])
      /\ \A c \in Context : T'[c] = ThreadOf(c)'
  BY DEF CodePart
<1>2. SUFFICES ASSUME NEW c \in Context PROVE In(T'[c])
  BY <1>1 DEF CodePart
<1>3. In([state |-> Unused])
  OBVIOUS
<1>4. CASE Kept
  BY <1>1, <1>4 DEF Kept, SameThreads
<1>5. ASSUME NEW d \in Context, Threads!ExecuteThread(d) PROVE In(T'[c])
  <2> DEFINE t == AfterCommand(T[d])
  <2>1. T[d].state = Run /\ T' = [T EXCEPT ![d] = IF t.state = Unused THEN [state |-> Unused] ELSE t]
    BY <1>5, SameCode DEF Threads!ExecuteThread, Threads!NoThread
  <2>2. T[d] = Core(View(d)) /\ InCode(T[d].pc)
    BY <1>1, <2>1, ThreadHeld DEF Held, Run, Unused
  <2>3. PlaceOK(View(d), depth)
    BY DEF PlacesOK, View
  <2>4. IsThread(T[d]) /\ PlaceOK(T[d], depth)
    BY <2>2, <2>3, SamePlace DEF IsThread, Core
  <2>5. t.state = Unused \/ InCode(t.pc)
    BY <2>2, <2>4, CommandKeepsPlace
  <2> HIDE DEF t, T
  <2>6. c # d => T'[c] = T[c]
    BY <2>1
  <2>7. c = d => T'[c] = IF t.state = Unused THEN [state |-> Unused] ELSE t
    BY <2>1 DEF T
  <2>8. QED
    BY <1>1, <1>3, <2>5, <2>6, <2>7 DEF T
<1>6. ASSUME NEW d \in Context, Threads!HaltThread(d) PROVE In(T'[c])
  <2>1. T' = [T EXCEPT ![d] = [state |-> Unused]]
    BY <1>6, SameCode DEF Threads!HaltThread, Threads!NoThread
  <2>2. T'[c] = T[c] \/ T'[c] = [state |-> Unused]
    BY <2>1
  <2> HIDE DEF T
  <2>3. QED
    BY <1>1, <1>3, <2>2 DEF T
<1>7. ASSUME NEW d \in Context, NEW m \in Defined, Threads!ForkThread(d, m) PROVE In(T'[c])
  <2>1. T' = [T EXCEPT ![d] = NewThread(m)]
    BY <1>7, SameCode DEF Threads!ForkThread
  <2>2. In(NewThread(m))
    BY CodeLevels DEF NewThread
  <2>3. T'[c] = T[c] \/ T'[c] = NewThread(m)
    BY <2>1
  <2> HIDE DEF T
  <2>4. QED
    BY <1>1, <2>2, <2>3 DEF T
<1>8. ASSUME NEW S \in SUBSET Context, Threads!WakeThreads(S) PROVE In(T'[c])
  <2>1. /\ \A d \in S : T[d].state = Sleep
        /\ T' = [d \in Context |-> IF d \in S THEN [T[d] EXCEPT !.state = Run] ELSE T[d]]
    BY <1>8, SameCode DEF Threads!WakeThreads
  <2>2. c \notin S => T'[c] = T[c]
    BY <2>1
  <2>3. c \in S => T'[c].pc = T[c].pc /\ T[c].state # Unused
    <3>1. c \in S => T[c] = Core(View(c)) /\ T[c].state # Unused
      BY <1>1, <2>1, ThreadHeld DEF Held, Sleep, Unused
    <3>2. [Core(View(c)) EXCEPT !.state = Run].pc = Core(View(c)).pc
      BY DEF Core
    <3> HIDE DEF T
    <3>3. QED
      BY <2>1, <3>1, <3>2
  <2> HIDE DEF T
  <2>4. QED
    BY <1>1, <2>2, <2>3 DEF T
<1>9. ASSUME NEW m, Threads!AskHalt(m) \/ Threads!HaltNone PROVE In(T'[c])
  <2>1. T' = T
    BY <1>9 DEF Threads!AskHalt, Threads!HaltNone
  <2> HIDE DEF T
  <2>2. QED
    BY <1>1, <2>1 DEF T
<1>10. QED
  BY <1>4, <1>5, <1>6, <1>7, <1>8, <1>9, SameCode DEF Threads!Next

(* No macro leaves the code that it was compiled to, when macros nest      *)
(* their loops properly and no context is filled in while an ended one is  *)
(* copied back: the next command is one of a defined macro (macro-step,    *)
(* get-mac-cmd).                                                           *)
THEOREM MacroStaysInCode ==
  ASSUME NEW depth, LoopsNest(depth)
  PROVE  Spec /\ []Undisturbed => []StaysInCode
<1>1. Init => CodePart
  BY Constants DEF Init, CodePart, ThreadOf, View, NoContext
<1>2. CodePart /\ JInv /\ PlacesOK(depth) /\ [Next]_vars => CodePart'
  BY StepThreads, ThreadsStayInCode DEF JInv, IInv
<1>3. JInv /\ CodePart => StaysInCode
  <2> SUFFICES ASSUME JInv, CodePart, at[Commander] = "loop", running # None
               PROVE  InCode(buffer.pc)
    BY DEF StaysInCode
  <2>1. running \in Context /\ buffer.state = Run
    BY DEF JInv, IInv, Types, RunPart
  <2>2. ThreadOf(running) = Core(buffer) /\ buffer.state # Unused
    BY <2>1, ThreadHeld DEF Held, View, Run, Unused
  <2>3. InCode(Core(buffer).pc)
    BY <2>1, <2>2 DEF CodePart, Core
  <2>4. QED
    BY <2>3 DEF Core
<1>4. QED
  BY <1>1, <1>2, <1>3, StartInvariance, PlacesInvariance, PTL DEF Spec
=============================================================================
