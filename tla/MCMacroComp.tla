---------------------------- MODULE MCMacroComp ----------------------------
(***************************************************************************)
(* Instances of MacroComp: a short command, one that fills more than a     *)
(* block, and one that is too big.  Macro identifiers are interchangeable. *)
(***************************************************************************)
EXTENDS MacroComp

CONSTANTS m1, m2

ShortAndLong == {[label |-> "short", len |-> 1], [label |-> "long", len |-> 4],
                 [label |-> "big", len |-> 9]}

MacroSymmetry == Permutations({m1, m2})
=============================================================================
