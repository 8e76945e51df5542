------------------------------ MODULE Executor ------------------------------
(***************************************************************************)
(* Around the turn handler: Executor.execute (executor.py), which finds or *)
(* makes the Agent of a message's context and answers for its A2A task,    *)
(* and Agent.run (agent.py), which keeps the turn budget.  The server runs *)
(* one execute per message and interleaves them at their awaits; an action *)
(* is the code between two of them.  The turn itself (module               *)
(* TerminalBench) is one call that answers or raises; what the timing      *)
(* decorators and finalize_turn record is added by module TimeTracer.      *)
(***************************************************************************)
EXTENDS Naturals, FiniteSets

CONSTANTS Contexts,      \* context ids the clients use
          Requests,      \* the messages they send
          MaxTurnCount,  \* config.MAX_TURN_COUNT
          None           \* no agent, no context, no task

ASSUME ExecutorAssumption ==
    /\ MaxTurnCount \in Nat
    /\ None \notin Requests \cup Contexts

VARIABLES pc,          \* per message: where its execute is suspended
          ctx,         \* per message: its context
          task,        \* per message: its task, named after the task's first message
          agents,      \* Executor.agents: the Agent of a context, named after
                       \* the message that created it
          agentOf,     \* per message: the Agent it runs on
          turnCount,   \* per Agent: _turn_count
          state,       \* per task: its A2A state
          terminals,   \* per message: terminal events its TaskUpdater sent,
                       \* by the state they announce
          answer       \* per message: what Agent.run made of it

vars == <<pc, ctx, task, agents, agentOf, turnCount, state, terminals, answer>>

Phases == {"idle", "accepted", "started", "running", "replied", "completing",
           "failing", "done", "refused"}

TerminalStates == {"completed", "failed"}  \* the two this server produces

TypeOK ==
    /\ pc \in [Requests -> Phases]
    /\ ctx \in [Requests -> Contexts \cup {None}]
    /\ task \in [Requests -> Requests \cup {None}]
    /\ agents \in [Contexts -> Requests \cup {None}]
    /\ agentOf \in [Requests -> Requests \cup {None}]
    /\ turnCount \in [Requests -> Nat]
    /\ state \in [Requests -> {"none", "submitted", "working"} \cup TerminalStates]
    /\ terminals \in [Requests -> [TerminalStates -> Nat]]
    /\ answer \in [Requests -> {"none", "reply", "budget", "error"}]

Init ==
    /\ pc = [r \in Requests |-> "idle"]
    /\ ctx = [r \in Requests |-> None]
    /\ task = [r \in Requests |-> None]
    /\ agents = [c \in Contexts |-> None]
    /\ agentOf = [r \in Requests |-> None]
    /\ turnCount = [r \in Requests |-> 0]
    /\ state = [r \in Requests |-> "none"]
    /\ terminals = [r \in Requests |-> [s \in TerminalStates |-> 0]]
    /\ answer = [r \in Requests |-> "none"]

GoTo(r, phase) == pc' = [pc EXCEPT ![r] = phase]

(* updater.complete / updater.failed: one terminal event for the task.     *)
EndTask(r, s) ==
    /\ state' = [state EXCEPT ![task[r]] = s]
    /\ terminals' = [terminals EXCEPT ![r][s] = @ + 1]

TerminalEvents(r) == terminals[r]["completed"] + terminals[r]["failed"]
-----------------------------------------------------------------------------
(* A message opens a task in some context ...                              *)
AcceptNew(r, c) ==
    /\ pc[r] = "idle"
    /\ ctx' = [ctx EXCEPT ![r] = c]
    /\ task' = [task EXCEPT ![r] = r]
    /\ state' = [state EXCEPT ![r] = "submitted"]
    /\ GoTo(r, "accepted")
    /\ UNCHANGED <<agents, agentOf, turnCount, terminals, answer>>

(* ... or names one that exists, and is refused if that one has ended.     *)
AcceptFor(r, q) ==
    /\ pc[r] = "idle"
    /\ task[q] = q
    /\ ctx' = [ctx EXCEPT ![r] = ctx[q]]
    /\ task' = [task EXCEPT ![r] = q]
    /\ GoTo(r, IF state[q] \in TerminalStates THEN "refused" ELSE "accepted")
    /\ UNCHANGED <<agents, agentOf, turnCount, state, terminals, answer>>

(* Mutant: the Agent is made without looking for the context's.            *)
FindAgentAlwaysNew(r) ==
    /\ pc[r] = "accepted"
    /\ agents' = [agents EXCEPT ![ctx[r]] = r]
    /\ agentOf' = [agentOf EXCEPT ![r] = r]
    /\ GoTo(r, "started")
    /\ UNCHANGED <<ctx, task, turnCount, state, terminals, answer>>

(* Mutant: any Agent there is will do.                                     *)
FindAgentShared(r) ==
    /\ pc[r] = "accepted"
    /\ \E a \in {r} \cup ({ agents[c] : c \in Contexts } \ {None}) :
          /\ agents' = [agents EXCEPT ![ctx[r]] = a]
          /\ agentOf' = [agentOf EXCEPT ![r] = a]
    /\ GoTo(r, "started")
    /\ UNCHANGED <<ctx, task, turnCount, state, terminals, answer>>

(* The Agent of the context is found or made without an await in between.  *)
FindAgent(r) ==
    /\ pc[r] = "accepted"
    /\ LET c == ctx[r]
           a == IF agents[c] = None THEN r ELSE agents[c]
       IN  /\ agents' = [agents EXCEPT ![c] = a]
           /\ agentOf' = [agentOf EXCEPT ![r] = a]
    /\ GoTo(r, "started")
    /\ UNCHANGED <<ctx, task, turnCount, state, terminals, answer>>

(* Mutant: a turn is counted when it starts as well as when it ends.       *)
CheckBudgetCounting(r) ==
    /\ pc[r] = "started"
    /\ IF turnCount[agentOf[r]] >= MaxTurnCount
       THEN /\ answer' = [answer EXCEPT ![r] = "budget"]
            /\ GoTo(r, "replied")
            /\ UNCHANGED turnCount
       ELSE /\ turnCount' = [turnCount EXCEPT ![agentOf[r]] = @ + 1]
            /\ GoTo(r, "running")
            /\ UNCHANGED answer
    /\ state' = [state EXCEPT ![task[r]] = IF @ \in TerminalStates THEN @ ELSE "working"]
    /\ UNCHANGED <<ctx, task, agents, agentOf, terminals>>

(* updater.start_work is out; Agent.run looks at the budget.               *)
CheckBudget(r) ==
    /\ pc[r] = "started"
    /\ IF turnCount[agentOf[r]] >= MaxTurnCount
       THEN answer' = [answer EXCEPT ![r] = "budget"] /\ GoTo(r, "replied")
       ELSE UNCHANGED answer /\ GoTo(r, "running")
    /\ state' = [state EXCEPT ![task[r]] = IF @ \in TerminalStates THEN @ ELSE "working"]
    /\ UNCHANGED <<ctx, task, agents, agentOf, turnCount, terminals>>

(* The turn answers, or raises.                                            *)
TurnAnswers(r) ==
    /\ pc[r] = "running"
    /\ answer' = [answer EXCEPT ![r] = "reply"]
    /\ GoTo(r, "replied")
    /\ UNCHANGED <<ctx, task, agents, agentOf, turnCount, state, terminals>>

(* Mutant: a turn that raised is run again.                                *)
TurnRetried(r) ==
    /\ pc[r] = "running"
    /\ GoTo(r, "started")
    /\ UNCHANGED <<ctx, task, agents, agentOf, turnCount, state, terminals, answer>>

TurnRaises(r) ==
    /\ pc[r] = "running"
    /\ answer' = [answer EXCEPT ![r] = "error"]
    /\ GoTo(r, "failing")
    /\ UNCHANGED <<ctx, task, agents, agentOf, turnCount, state, terminals>>

(* updater.complete with the answer.                                       *)
Complete(r) ==
    /\ pc[r] = "replied"
    /\ EndTask(r, "completed")
    /\ GoTo(r, "completing")
    /\ UNCHANGED <<ctx, task, agents, agentOf, turnCount, answer>>

CountTurn(r) ==
    turnCount' = IF answer[r] = "reply"
                 THEN [turnCount EXCEPT ![agentOf[r]] = @ + 1]
                 ELSE turnCount

(* Mutant: execute completes the task a second time.                       *)
FinalizeTurnTwice(r) ==
    /\ pc[r] = "completing"
    /\ CountTurn(r)
    /\ EndTask(r, "completed")
    /\ GoTo(r, "done")
    /\ UNCHANGED <<ctx, task, agents, agentOf, answer>>

(* After that await run counts the turn (a budget final is not counted)    *)
(* and returns; the updater has ended its task, so execute sends nothing   *)
(* more.                                                                   *)
FinalizeTurn(r) ==
    /\ pc[r] = "completing"
    /\ CountTurn(r)
    /\ IF TerminalEvents(r) = 0 THEN EndTask(r, "completed")
                                ELSE UNCHANGED <<state, terminals>>
    /\ GoTo(r, "done")
    /\ UNCHANGED <<ctx, task, agents, agentOf, answer>>

(* Mutant: the error branch rejects the task instead of failing it.        *)
FailRejects(r) ==
    /\ pc[r] = "failing"
    /\ EndTask(r, "rejected")
    /\ GoTo(r, "done")
    /\ UNCHANGED <<ctx, task, agents, agentOf, turnCount, answer>>

(* Mutant: the error is logged and nothing is sent.                        *)
FailSilently(r) ==
    /\ pc[r] = "failing"
    /\ GoTo(r, "done")
    /\ UNCHANGED <<ctx, task, agents, agentOf, turnCount, state, terminals, answer>>

(* The error branch of execute: the task fails, finalize_turn is skipped.  *)
Fail(r) ==
    /\ pc[r] = "failing"
    /\ EndTask(r, "failed")
    /\ GoTo(r, "done")
    /\ UNCHANGED <<ctx, task, agents, agentOf, turnCount, answer>>

Accept(r) == (\E c \in Contexts : AcceptNew(r, c)) \/ (\E q \in Requests : AcceptFor(r, q))

Execute(r) ==
    \/ FindAgent(r)  \/ CheckBudget(r) \/ TurnAnswers(r) \/ TurnRaises(r)
    \/ Complete(r)   \/ FinalizeTurn(r) \/ Fail(r)

Next == \E r \in Requests : Accept(r) \/ Execute(r)

Spec == Init /\ [][Next]_vars
-----------------------------------------------------------------------------
(* Messages of one context run on one Agent, and messages of different     *)
(* contexts on different ones, even when the first two messages of a       *)
(* context overlap.                                                        *)
OneAgentPerContext ==
    \A r, q \in Requests :
        agentOf[r] # None /\ agentOf[q] # None =>
            (agentOf[r] = agentOf[q] <=> ctx[r] = ctx[q])

(* A TaskUpdater never sends two terminal events, and a message that was   *)
(* executed to its end has sent one (agent.py:107-109: a second one makes  *)
(* the server err, none makes it answer with an empty message).  The event *)
(* says how the turn ended: a task is failed for a turn that raised and    *)
(* for no other, and completed with a reply or the budget's final.         *)
OneTerminalEvent ==
    \A r \in Requests :
        /\ TerminalEvents(r) <= 1
        /\ pc[r] = "done" => TerminalEvents(r) = 1
        /\ terminals[r]["failed"] > 0 => answer[r] = "error"
        /\ terminals[r]["completed"] > 0 => answer[r] \in {"reply", "budget"}

(* No session is cut short: the budget answers "final" only to a context   *)
(* whose own completed turns have used it up.                              *)
BudgetIsSpent ==
    \A r \in Requests :
        answer[r] = "budget" =>
            Cardinality({ q \in Requests : /\ ctx[q] = ctx[r]
                                           /\ pc[q] = "done"
                                           /\ answer[q] = "reply" }) >= MaxTurnCount

(* What a turn looks like from outside.                                    *)
TurnSeen(r) == IF pc[r] = "running" THEN "running"
               ELSE IF answer[r] = "reply" THEN "answered"
               ELSE IF answer[r] = "error" THEN "raised" ELSE "due"

Turns == INSTANCE TurnContract
    WITH Messages <- Requests, turn <- [r \in Requests |-> TurnSeen(r)]

(* execute and run ask nothing of a turn that the contract does not give:  *)
(* they start it once and take one answer or one error from it.            *)
UsesTurnContract == Turns!Spec

(* Every message is answered or refused, also when its client has stopped  *)
(* waiting for it.                                                         *)
Answered == \A r \in Requests : pc[r] # "idle" ~> pc[r] \in {"done", "refused"}
=============================================================================
