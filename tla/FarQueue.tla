------------------------------ MODULE FarQueue ------------------------------
(***************************************************************************)
(* Queues of far memory blocks (chips/instr/lib16/farqueue.fr), as         *)
(* operators.  A queue is a header, a record of the head and tail cells;   *)
(* "next" gives the link cell of every element.  Only a null head says     *)
(* that a queue is empty: the tail is left as it was.  Each operator runs  *)
(* with interrupts disabled.                                               *)
(***************************************************************************)
EXTENDS Integers, Sequences

CONSTANTS Block,     \* the elements
          Null       \* the null pointer

EmptyQueue(q) == [q EXCEPT !.head = Null]

\* farq-put: the links and the header afterwards.
PutLinks(next, q, b) ==
  IF q.head = Null THEN [next EXCEPT ![b] = Null]
  ELSE [next EXCEPT ![b] = Null, ![q.tail] = b]
PutHeader(q, b) == [head |-> IF q.head = Null THEN b ELSE q.head, tail |-> b]

\* farq-get: the element is the head, if the queue is not empty.
GetHeader(next, q) == [q EXCEPT !.head = next[q.head]]

\* farq-append of the elements linked from first to last.
AppendLinks(next, q, first) ==
  IF q.head = Null THEN next ELSE [next EXCEPT ![q.tail] = first]
\* (The first is a mutant: the tail is left as it was.)
AppendKeepsTail(q, first, last) ==
  [head |-> IF q.head = Null THEN first ELSE q.head, tail |-> q.tail]
AppendHeader(q, first, last) ==
  [head |-> IF q.head = Null THEN first ELSE q.head, tail |-> last]
-----------------------------------------------------------------------------
(* The elements that links reach from a pointer, in order. *)

\* n steps from pointer b.
Walk(next, b, n) ==
  LET w[i \in 0..n] == IF i = 0 THEN b
                       ELSE IF w[i - 1] = Null THEN Null ELSE next[w[i - 1]]
  IN  w[n]

\* The list that b points to: of the size at which it ends, or cut at a bound.
Ends(next, b, n) == Walk(next, b, n) = Null /\ \A i \in 0..n - 1 : Walk(next, b, i) # Null
Chain(next, b, bound) ==
  LET sizes == {i \in 0..bound : Ends(next, b, i)}
      n == IF sizes = {} THEN bound ELSE CHOOSE i \in sizes : TRUE
  IN  [i \in 1..n |-> Walk(next, b, i - 1)]
=============================================================================
