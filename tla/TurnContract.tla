---------------------------- MODULE TurnContract ----------------------------
(***************************************************************************)
(* What Agent.run and the turn handler agree on: a turn is one call per    *)
(* message that starts once, runs, and then either answers or raises, for  *)
(* good.  Module TerminalBench is shown to offer no more than this, and    *)
(* module Executor, which does not look inside a turn, to rely on no more. *)
(***************************************************************************)
CONSTANT Messages

VARIABLE turn  \* per message: "due", "running", "answered" or "raised"

Init == turn = [m \in Messages |-> "due"]

Start(m) == turn[m] = "due" /\ turn' = [turn EXCEPT ![m] = "running"]

Answer(m) == turn[m] = "running" /\ turn' = [turn EXCEPT ![m] = "answered"]

(* A message that does not parse raises before the turn's first await.     *)
Raise(m) == turn[m] \in {"due", "running"} /\ turn' = [turn EXCEPT ![m] = "raised"]

Next == \E m \in Messages : Start(m) \/ Answer(m) \/ Raise(m)

Spec == Init /\ [][Next]_turn
=============================================================================
