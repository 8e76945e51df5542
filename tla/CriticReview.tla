---------------------------- MODULE CriticReview ----------------------------
(***************************************************************************)
(* The contract as a state machine: one review after another, each ending  *)
(* with a verdict the contract allows, or raising on a blank command.      *)
(***************************************************************************)
EXTENDS CriticContract

VARIABLES phase,   \* "idle", "reviewing" or "answered"
          class,   \* the class of the command under review, or "none"
          answer   \* the verdict, "raised", or "none"

vars == <<phase, class, answer>>

Init == phase = "idle" /\ class = "none" /\ answer = "none"

Submit(c) ==
    /\ phase = "idle"
    /\ class' = c
    /\ IF c = "blank" THEN phase' = "answered" /\ answer' = "raised"
                      ELSE phase' = "reviewing" /\ answer' = "none"

Decide(v) ==
    /\ phase = "reviewing"
    /\ v \in CriticOutcomes(class)
    /\ phase' = "answered"
    /\ answer' = v
    /\ UNCHANGED class

Dismiss ==
    /\ phase = "answered"
    /\ phase' = "idle"
    /\ class' = "none"
    /\ answer' = "none"

Next == (\E c \in Commands : Submit(c)) \/ (\E v \in Verdicts : Decide(v)) \/ Dismiss

Spec == Init /\ [][Next]_vars
=============================================================================
