------------------------------ MODULE Session ------------------------------
(***************************************************************************)
(* One terminal-bench session: the turn handler of TerminalBench driven by *)
(* the client of the repository's own loop (tests/custom/                  *)
(* test_terminal_bench_loop.py and messenger.py).  The client sends the    *)
(* task, executes what it is asked to execute, reports the output in the   *)
(* next message, and never has two messages under way.  It stops on        *)
(* "final", on a failed A2A task (talk_to_agent raises), or when its       *)
(* request times out while the turn still runs.                            *)
(***************************************************************************)
EXTENDS TerminalBench

VARIABLES client,   \* "new", "waiting" for an answer, "done" or "aborted"
          waiting,  \* the message whose answer the client waits for
          sent      \* what each message was, and which call it reports on

clientVars  == <<client, waiting, sent>>
sessionVars == <<vars, clientVars>>

Messages == [ kind : {"none", "task", "exec_result"}, of : CallIds \cup {NoCall} ]

Message(kind, c) == [kind |-> kind, of |-> c]

SessionTypeOK ==
    /\ TypeOK
    /\ client \in {"new", "waiting", "done", "aborted"}
    /\ waiting \in Requests \cup {NoReq}
    /\ sent \in [Requests -> Messages]

SessionInit ==
    /\ Init
    /\ client = "new"
    /\ waiting = NoReq
    /\ sent = [r \in Requests |-> Message("none", NoCall)]
-----------------------------------------------------------------------------
SendTask(r) ==
    /\ client = "new"
    /\ BeginTask(r)
    /\ client' = "waiting"
    /\ waiting' = r
    /\ sent' = [sent EXCEPT ![r] = Message("task", NoCall)]

(* The client executes the command of the last answer and reports it; for  *)
(* the no-op request the report belongs to no call.                        *)
SendExecResult(r) ==
    /\ client = "waiting"
    /\ resp[waiting].kind \in {"exec", "noop"}
    /\ BeginExecResult(r)
    /\ waiting' = r
    /\ sent' = [sent EXCEPT ![r] = Message("exec_result", resp[waiting].of)]
    /\ UNCHANGED client

ReceiveFinal ==
    /\ client = "waiting"
    /\ resp[waiting].kind = "final"
    /\ client' = "done"
    /\ UNCHANGED <<vars, waiting, sent>>

ReceiveFailure ==
    /\ client = "waiting"
    /\ resp[waiting].kind = "failed"
    /\ client' = "aborted"
    /\ UNCHANGED <<vars, waiting, sent>>

(* The request timeout of send_message; the turn goes on in the server.    *)
TimeOut ==
    /\ client = "waiting"
    /\ resp[waiting].kind = "none"
    /\ client' = "aborted"
    /\ UNCHANGED <<vars, waiting, sent>>

AgentStep(r) == Continue(r) /\ UNCHANGED clientVars

SessionNext ==
    \/ \E r \in Requests : SendTask(r) \/ SendExecResult(r) \/ AgentStep(r)
    \/ ReceiveFinal \/ ReceiveFailure \/ TimeOut

SessionSpec == SessionInit /\ [][SessionNext]_sessionVars

(* As in FairSpec: every LLM call ends.  The client may time out or stop;  *)
(* its turn goes on.                                                       *)
FairSessionSpec ==
    SessionSpec /\ \A r \in Requests : WF_sessionVars(AgentStep(r))
-----------------------------------------------------------------------------
(* The call whose result is awaited is the one whose placeholder is open,  *)
(* and there is no other: the scan for "the last placeholder" and the id   *)
(* of "the pending call" can only mean the same call.  A stale pending     *)
(* call, left behind by a rejection or an error, never meets a             *)
(* placeholder (terminal_bench.py fills by position and by pending id).    *)
PlaceholderIsPending ==
    \A i \in Placeholders(history) :
        /\ \A j \in Placeholders(history) : i = j
        /\ history[i].of = pending
        /\ resp[waiting] = Response("exec", pending)

(* Every output the history shows as the response to a tool call is the    *)
(* output of that very call, although exec_results carry no call id and    *)
(* the handler matches them by position.                                   *)
Attribution ==
    \A i \in DOMAIN history :
        history[i].body = "result" =>
            /\ history[i].of = sent[history[i].src].of
            /\ history[i].role = "tool" => history[i - 1].of = history[i].of

(* The output of an approved command is never lost: once the client has    *)
(* reported it, the history the Actor is prompted with holds it.           *)
NoOutputLost ==
    \A r \in Requests :
        sent[r].of # NoCall => \E i \in DOMAIN history : history[i].src = r

(* The heartbeats that keep a client's stream alive during an LLM call go  *)
(* to the turn that makes the call (_updater is one field for all turns).  *)
HeartbeatReachesCaller ==
    \A r \in Requests : pc[r] \in {"planner", "actor", "critic"} => updater = r

(* The session implements the protocol the client relies on.               *)
Phase ==
    IF client = "waiting"
    THEN IF resp[waiting].kind \in {"exec", "noop"} THEN "client" ELSE "turn"
    ELSE IF client = "new" THEN "new" ELSE "over"

Outstanding == IF Phase = "client" THEN resp[waiting].of ELSE NoCall

Issued == IF client = "new" THEN {}
          ELSE ({ sent[r].of : r \in Requests } \cup {Outstanding}) \ {NoCall}

(* The calls whose output the history holds, in its order.                 *)
Executed == { i \in DOMAIN history : history[i].role = "tool" /\ history[i].body = "result" }

Nth(S, k) == CHOOSE i \in S : Cardinality({ j \in S : j <= i }) = k

Log == [ k \in 1..Cardinality(Executed) |-> history[Nth(Executed, k)].of ]

Protocol == INSTANCE ShellProtocol
    WITH Commands <- CallIds, None <- NoCall, phase <- Phase,
         outstanding <- Outstanding, issued <- Issued, log <- Log

(* What the client and the handler do together is what ShellProtocol       *)
(* promises: commands go out once each, and every output is recorded under *)
(* its command before the next turn starts.                                *)
ImplementsProtocol == Protocol!Spec
-----------------------------------------------------------------------------
(* terminal_bench.py:272-274 says the exec_result replaces the placeholder *)
(* "so the Actor sees it", and stores it as a HumanMessage when there is   *)
(* nothing to replace.  With a stale pending call it does neither.         *)
EveryResultStored ==
    \A r \in Requests :
        sent[r].kind = "exec_result" => \E i \in DOMAIN history : history[i].src = r

(* agent_memory.py:129-130 says the history contains tool call / tool      *)
(* response pairs: when the Actor is prompted, every tool message answers  *)
(* the call right before it.                                               *)
ToolMessagesAnswerCalls ==
    (\E r \in Requests : pc[r] = "actor") =>
        \A i \in DOMAIN history :
            history[i].role = "tool" => /\ history[i].of # NoCall
                                        /\ i > 1
                                        /\ history[i - 1].of = history[i].of

(* The Critic's prompt (config.py:156) rejects a whitespace-only command:  *)
(* a rejection, not the end of the session.                                *)
BlankIsRejected ==
    \A r \in Requests : pc[r] = "done" /\ reply[r] = "blank" => resp[r].kind # "failed"
=============================================================================
