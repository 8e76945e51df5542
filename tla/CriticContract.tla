--------------------------- MODULE CriticContract ---------------------------
(***************************************************************************)
(* What the turn handler relies on in CriticAgent.invoke: the verdict it   *)
(* may get for a command, by what the static checker makes of the command. *)
(* Module Critic, which models the code of invoke, is shown to keep it.    *)
(***************************************************************************)

(* The static checker passes the command ("clean"), refuses it             *)
(* ("flagged"), or trips over it ("blank": only whitespace).               *)
Commands == {"clean", "flagged", "blank"}

Verdicts == {"none", "approve", "reject"}

(* A refused command is never approved; a clean one may go either way      *)
(* (the reviewer LLM, or an error, decides); a blank one has no verdict,   *)
(* because invoke raises before its first await.                           *)
CriticOutcomes(command) ==
    { v \in {"approve", "reject"} : /\ v = "approve" => command = "clean"
                                   /\ command # "blank" }
=============================================================================
