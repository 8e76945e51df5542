------------------------- MODULE ExecRequestChecker -------------------------
(***************************************************************************)
(* The static gate in front of the reviewer LLM                            *)
(* (tools/exec_request_checker.py), as operators.  A command is abstracted *)
(* to what the filters look at; its timeout is left out, since the Critic  *)
(* has every command checked with 300 s (_validate_command).               *)
(***************************************************************************)

CommandShapes ==
    [ text        : {"empty", "blank", "words"},
      first       : {"interactive", "repl", "other"},  \* its first word
      alone       : BOOLEAN,      \* nothing follows the first word
      destructive : BOOLEAN,      \* a destructive pattern occurs in it
      grammatical : BOOLEAN ]     \* a working `bash -n` accepts it

(* A text without words has no first word and no pattern in it, and a lone *)
(* REPL name is a harmless, grammatical command line.                      *)
CheckedCommands ==
    { c \in CommandShapes :
        /\ c.text # "words" => /\ c.first = "other" /\ ~c.alone
                               /\ ~c.destructive /\ c.grammatical
        /\ c.alone /\ c.first # "other" => ~c.destructive /\ c.grammatical }

(* _bash_available: None, True, False; shared by all agents of the process.*)
BashStates == {"unprobed", "usable", "unusable"}

(* The first command that gets as far as the grammar check probes `bash`;  *)
(* the answer is kept for the life of the process.                         *)
ProbeBash(bash) == IF bash = "unprobed" THEN {"usable", "unusable"} ELSE {bash}

(* The pure Python filters: an empty command, an interactive program, a    *)
(* bare REPL, a destructive pattern.                                       *)
Filtered(c) ==
    \/ c.text = "empty"
    \/ c.first = "interactive"
    \/ c.first = "repl" /\ c.alone
    \/ c.destructive

(* tokens[0] of a whitespace-only command: IndexError, which is not the    *)
(* exception that stands for a refusal.                                    *)
Trips(c) == c.text = "blank"

(* What `bash -n` makes of a command that passed the filters.  Unusable    *)
(* bash skips the check; a run of usable bash may still fail or time out,  *)
(* which refuses the command.                                              *)
GrammarOutcomes(c, bash) ==
    IF bash = "unusable" THEN {"clean"}
    ELSE {"flagged"} \cup {IF c.grammatical THEN "clean" ELSE "flagged"}

(* check_command_syntax: the possible results, each with the state of the  *)
(* probe cache it leaves behind.                                           *)
CheckOutcomes(c, bash) ==
    IF Trips(c) THEN {[class |-> "blank", bash |-> bash]}
    ELSE IF Filtered(c) THEN {[class |-> "flagged", bash |-> bash]}
    ELSE UNION { { [class |-> k, bash |-> b] : k \in GrammarOutcomes(c, b) }
                 : b \in ProbeBash(bash) }
=============================================================================
