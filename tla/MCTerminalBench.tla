-------------------------- MODULE MCTerminalBench --------------------------
(* Small instances of TerminalBench: the messages of the context are model *)
(* values that no definition tells apart.                                  *)
EXTENDS TerminalBench, TLC

Symmetry == Permutations(Requests)
=============================================================================
