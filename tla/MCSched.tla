------------------------------ MODULE MCSched ------------------------------
(***************************************************************************)
(* Instances of Sched: the default process, the null process, up to three  *)
(* processes that the application starts, and two semaphores, which are    *)
(* interchangeable.                                                        *)
(***************************************************************************)
EXTENDS Sched, TLC

CONSTANTS def, null, p1, p2, p3, s1, s2

SemSymmetry == Permutations({s1, s2})
=============================================================================
