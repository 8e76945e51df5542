--------------------------- MODULE ShellProtocol ---------------------------
(***************************************************************************)
(* What the purple agent promises its client, without its memory, its      *)
(* LLMs or its rounds: a session alternates between the agent's turns and  *)
(* the client's executions; the agent issues a command at most once; and   *)
(* when its next turn starts, the output of the last command is in its     *)
(* log, under that command and after the earlier ones.  Module Session is  *)
(* shown to implement it.                                                  *)
(***************************************************************************)
EXTENDS Sequences

CONSTANTS Commands,  \* the commands the agent may issue
          None       \* no command outstanding

VARIABLES phase,        \* whose move it is
          outstanding,  \* the command the client is executing
          issued,       \* the commands sent so far
          log           \* the commands whose output the agent has recorded

vars == <<phase, outstanding, issued, log>>

Init == phase = "new" /\ outstanding = None /\ issued = {} /\ log = <<>>

Start == /\ phase = "new"
         /\ phase' = "turn"
         /\ UNCHANGED <<outstanding, issued, log>>

(* The agent sends a command it has never sent.                            *)
Issue(c) == /\ phase = "turn"
            /\ c \notin issued
            /\ phase' = "client"
            /\ outstanding' = c
            /\ issued' = issued \cup {c}
            /\ UNCHANGED log

(* The agent has nothing to execute yet and sends the no-op.               *)
Skip == /\ phase = "turn"
        /\ phase' = "client"
        /\ UNCHANGED <<outstanding, issued, log>>

(* The client reports, and the agent records, in one step.                 *)
Report == /\ phase = "client"
          /\ phase' = "turn"
          /\ log' = IF outstanding = None THEN log ELSE Append(log, outstanding)
          /\ outstanding' = None
          /\ UNCHANGED issued

(* The agent declares the task complete or fails, or the client gives up.  *)
Finish == /\ phase = "turn"
          /\ phase' = "over"
          /\ UNCHANGED <<outstanding, issued, log>>

Next == Start \/ (\E c \in Commands : Issue(c)) \/ Skip \/ Report \/ Finish

Spec == Init /\ [][Next]_vars
-----------------------------------------------------------------------------
(* Every command that was ever issued is the outstanding one or in the     *)
(* log, nothing else is, and nothing is logged twice: a command's output   *)
(* is recorded exactly once, and before the next one is issued.            *)
ExactlyOnce ==
    /\ \A i, j \in DOMAIN log : log[i] = log[j] => i = j
    /\ { log[i] : i \in DOMAIN log } = issued \ {outstanding}
    /\ phase # "client" => outstanding = None
=============================================================================
