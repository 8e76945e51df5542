---------------------------- MODULE MCTimeTracer ----------------------------
(* Small instances of TimeTracer: messages and contexts are model values   *)
(* that no definition tells apart.                                         *)
EXTENDS TimeTracer, TLC

Symmetry == Permutations(Requests) \cup Permutations(Contexts)
=============================================================================
