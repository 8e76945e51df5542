--------------------------- MODULE TerminalBench ---------------------------
(***************************************************************************)
(* The turn handler of one A2A context (agents/terminal_bench.py): one     *)
(* TerminalBenchAgent and its AgentMemory, shared by every message the     *)
(* context receives.  The executor does not serialise the messages of a    *)
(* context, so several turns may run at once; asyncio switches between     *)
(* them only at an await, and an action here is the code between two       *)
(* awaits:                                                                 *)
(*                                                                         *)
(*   Begin* -> (PlannerReply -> AddPlan)                                   *)
(*          -> { ActorReply -> HandleReply -> CriticReply -> HandleVerdict }*)
(*                                                                         *)
(* each LLM call and each heartbeat is one await.  The environment is      *)
(* open: any message may arrive at any time; module Session closes it      *)
(* with the client of the repository's tests.                              *)
(***************************************************************************)
EXTENDS AgentMemory, CriticContract, FiniteSets

VARIABLES task,     \* _memory._task: the message it came from, or NoReq
          pending,  \* _memory._pending_tool_call: its id, or NoCall
          history,  \* _memory._chat_history
          updater,  \* _updater: whose stream the heartbeats go to
          pc,       \* per message: where its turn is suspended
          round,    \* per message: the loop variable of the Actor-Critic loop
          reply,    \* per message: the Actor's last answer
          verdict,  \* per message: the Critic's last verdict
          resp      \* per message: what handle_request_iteration returned

shared == <<task, pending, history, updater>>
vars   == <<task, pending, history, updater, pc, round, reply, verdict, resp>>

(* A turn is in an LLM call ("planner", "actor", "critic") or in the       *)
(* heartbeat that follows it ("planned", "acted", "judged").               *)
Phases == {"idle", "planner", "planned", "actor", "acted", "critic", "judged",
           "done"}

(* An Actor answer: no tool call, submit_final, arguments that are not     *)
(* JSON, or a command.                                                     *)
Replies == {"none", "text", "final", "badargs"} \cup Commands

Responses == [ kind : {"none", "exec", "noop", "final", "failed"},
               of   : CallIds \cup {NoCall} ]

Response(kind, c) == [kind |-> kind, of |-> c]

ThisCall(r) == <<r, round[r]>>

TypeOK ==
    /\ task \in Requests \cup {NoReq}
    /\ pending \in CallIds \cup {NoCall}
    /\ history \in Seq(Entries)
    /\ updater \in Requests \cup {NoReq}
    /\ pc \in [Requests -> Phases]
    /\ round \in [Requests -> 1..MaxRounds]
    /\ reply \in [Requests -> Replies]
    /\ verdict \in [Requests -> Verdicts]
    /\ resp \in [Requests -> Responses]

Init ==
    /\ task = NoReq
    /\ pending = NoCall
    /\ history = <<>>
    /\ updater = NoReq
    /\ pc = [r \in Requests |-> "idle"]
    /\ round = [r \in Requests |-> 1]
    /\ reply = [r \in Requests |-> "none"]
    /\ verdict = [r \in Requests |-> "none"]
    /\ resp = [r \in Requests |-> Response("none", NoCall)]
-----------------------------------------------------------------------------
GoTo(r, phase) == pc' = [pc EXCEPT ![r] = phase]

Return(r, kind, c) ==
    /\ GoTo(r, "done")
    /\ resp' = [resp EXCEPT ![r] = Response(kind, c)]

(* Mutant: the loop counts its rounds but checks them one too late.        *)
NextRoundUnchecked(r) ==
    /\ round[r] <= MaxRounds
    /\ GoTo(r, "actor")
    /\ round' = [round EXCEPT ![r] = @ + 1]
    /\ UNCHANGED resp

(* Mutant: a "continue" that forgets to count its round.                   *)
NextRoundUncounted(r) ==
    /\ GoTo(r, "actor")
    /\ UNCHANGED <<round, resp>>

(* The loop's "continue": the next round, or the no-op request once the    *)
(* rounds are used up.                                                     *)
NextRound(r) ==
    \/ /\ round[r] < MaxRounds
       /\ GoTo(r, "actor")
       /\ round' = [round EXCEPT ![r] = @ + 1]
       /\ UNCHANGED resp
    \/ /\ round[r] = MaxRounds
       /\ Return(r, "noop", NoCall)
       /\ UNCHANGED round

(* An LLM call that raised: a rate limit, a timeout or an empty generation *)
(* becomes the no-op request, everything else fails the A2A task.  What    *)
(* the turn already wrote to the memory stays, the pending call included.  *)
CallFails(r) ==
    /\ \E kind \in {"noop", "failed"} : Return(r, kind, NoCall)
    /\ UNCHANGED <<shared, round, reply, verdict>>
-----------------------------------------------------------------------------
(* kind = "task": the message becomes the task and the Planner is called.  *)
BeginTask(r) ==
    /\ pc[r] = "idle"
    /\ updater' = r
    /\ task' = r
    /\ GoTo(r, "planner")
    /\ UNCHANGED <<pending, history, round, reply, verdict, resp>>

(* Mutant: only a task message sets the updater.                           *)
BeginExecResultKeepsUpdater(r) ==
    /\ pc[r] = "idle"
    /\ history' = IF pending # NoCall
                  THEN FillLastPlaceholder(history, pending, r)
                  ELSE AddMessage(history, HumanResult(r))
    /\ pending' = NoCall
    /\ GoTo(r, "actor")
    /\ UNCHANGED <<task, updater, round, reply, verdict, resp>>

(* kind = "exec_result": with a pending call the output replaces the last  *)
(* placeholder, if there is one, and the call stops being pending; without *)
(* one it is kept as a HumanMessage.  Then the loop calls the Actor.       *)
BeginExecResult(r) ==
    /\ pc[r] = "idle"
    /\ updater' = r
    /\ history' = IF pending # NoCall
                  THEN FillLastPlaceholder(history, pending, r)
                  ELSE AddMessage(history, HumanResult(r))
    /\ pending' = NoCall
    /\ GoTo(r, "actor")
    /\ UNCHANGED <<task, round, reply, verdict, resp>>

(* Any other kind is logged and the loop runs all the same.                *)
BeginUnknown(r) ==
    /\ pc[r] = "idle"
    /\ updater' = r
    /\ GoTo(r, "actor")
    /\ UNCHANGED <<task, pending, history, round, reply, verdict, resp>>

(* A text that is not a JSON object raises before the memory is touched.   *)
BeginGarbage(r) ==
    /\ pc[r] = "idle"
    /\ updater' = r
    /\ Return(r, "failed", NoCall)
    /\ UNCHANGED <<task, pending, history, round, reply, verdict>>

Begin(r) == BeginTask(r) \/ BeginExecResult(r) \/ BeginUnknown(r) \/ BeginGarbage(r)
-----------------------------------------------------------------------------
PlannerReply(r) ==
    /\ pc[r] = "planner"
    /\ \/ GoTo(r, "planned") /\ UNCHANGED <<shared, round, reply, verdict, resp>>
       \/ CallFails(r)

AddPlan(r) ==
    /\ pc[r] = "planned"
    /\ history' = AddMessage(history, PlanEntry)
    /\ GoTo(r, "actor")
    /\ UNCHANGED <<task, pending, updater, round, reply, verdict, resp>>

ActorReply(r) ==
    /\ pc[r] = "actor"
    /\ \/ /\ \E a \in Replies \ {"none"} : reply' = [reply EXCEPT ![r] = a]
          /\ GoTo(r, "acted")
          /\ UNCHANGED <<shared, round, verdict, resp>>
       \/ CallFails(r)

(* No tool call: the answer and a nudge go into the history, next round.   *)
HandleText(r) ==
    /\ reply[r] = "text"
    /\ history' = AddMessage(AddMessage(history, ActorEntry("text", NoCall)),
                             ToolEntry("nudge", NoCall))
    /\ NextRound(r)
    /\ UNCHANGED <<task, pending, updater, reply, verdict>>

(* submit_final: only the call is recorded, the turn answers "final".      *)
HandleFinal(r) ==
    /\ reply[r] = "final"
    /\ history' = AddMessage(history, ActorEntry("final", ThisCall(r)))
    /\ Return(r, "final", NoCall)
    /\ UNCHANGED <<task, pending, updater, round, reply, verdict>>

(* Arguments that are not JSON are answered without asking the Critic.     *)
HandleBadArguments(r) ==
    /\ reply[r] = "badargs"
    /\ history' = AddToolCallAndResponse(history, ActorEntry("call", ThisCall(r)),
                                         ToolEntry("badargs", ThisCall(r)))
    /\ NextRound(r)
    /\ UNCHANGED <<task, pending, updater, reply, verdict>>

(* Mutant: a call that is still pending is not replaced by the new one.    *)
SubmitKeepsPending(r) ==
    /\ reply[r] \in Commands
    /\ pending' = IF pending = NoCall THEN ThisCall(r) ELSE pending
    /\ IF reply[r] = "blank"
       THEN Return(r, "failed", NoCall)
       ELSE GoTo(r, "critic") /\ UNCHANGED resp
    /\ UNCHANGED <<task, history, updater, round, reply, verdict>>

(* Everything else goes to the Critic.  Its static check runs before its   *)
(* first await, so a blank command raises here, after the call was stored  *)
(* as pending.                                                             *)
SubmitToCritic(r) ==
    /\ reply[r] \in Commands
    /\ pending' = ThisCall(r)
    /\ IF reply[r] = "blank"
       THEN Return(r, "failed", NoCall)
       ELSE GoTo(r, "critic") /\ UNCHANGED resp
    /\ UNCHANGED <<task, history, updater, round, reply, verdict>>

HandleReply(r) ==
    /\ pc[r] = "acted"
    /\ HandleText(r) \/ HandleFinal(r) \/ HandleBadArguments(r) \/ SubmitToCritic(r)

(* The verdict is one the Critic's contract allows for the command.        *)
CriticReply(r) ==
    /\ pc[r] = "critic"
    /\ \E v \in CriticOutcomes(reply[r]) : verdict' = [verdict EXCEPT ![r] = v]
    /\ GoTo(r, "judged")
    /\ UNCHANGED <<shared, round, reply, resp>>

(* Mutant: the call is taken from the shared memory, not from the turn.    *)
ApprovePending(r) ==
    /\ verdict[r] = "approve"
    /\ history' = AddToolCallAndResponse(history, ActorEntry("call", ThisCall(r)),
                                         ToolEntry("placeholder", ThisCall(r)))
    /\ Return(r, "exec", pending)
    /\ UNCHANGED <<task, pending, updater, round, reply, verdict>>

(* Mutant: the verdict is in, so the call stops being pending.             *)
ApproveClearsPending(r) ==
    /\ verdict[r] = "approve"
    /\ history' = AddToolCallAndResponse(history, ActorEntry("call", ThisCall(r)),
                                         ToolEntry("placeholder", ThisCall(r)))
    /\ Return(r, "exec", ThisCall(r))
    /\ pending' = NoCall
    /\ UNCHANGED <<task, updater, round, reply, verdict>>

(* Mutant: the call is recorded without a response to replace.             *)
ApproveWithoutPlaceholder(r) ==
    /\ verdict[r] = "approve"
    /\ history' = AddMessage(history, ActorEntry("call", ThisCall(r)))
    /\ Return(r, "exec", ThisCall(r))
    /\ UNCHANGED <<task, pending, updater, round, reply, verdict>>

(* Approved: the call is recorded with an empty response and sent.         *)
Approve(r) ==
    /\ verdict[r] = "approve"
    /\ history' = AddToolCallAndResponse(history, ActorEntry("call", ThisCall(r)),
                                         ToolEntry("placeholder", ThisCall(r)))
    /\ Return(r, "exec", ThisCall(r))
    /\ UNCHANGED <<task, pending, updater, round, reply, verdict>>

(* Mutant: an empty feedback is stored as it is.                           *)
RejectWithEmptyFeedback(r) ==
    /\ verdict[r] # "approve"
    /\ history' = AddToolCallAndResponse(history, ActorEntry("call", ThisCall(r)),
                                         ToolEntry("placeholder", ThisCall(r)))
    /\ NextRound(r)
    /\ UNCHANGED <<task, pending, updater, reply, verdict>>

(* Mutant: the rejected command is submitted again until it is approved.   *)
RejectResubmits(r) ==
    /\ verdict[r] # "approve"
    /\ GoTo(r, "critic")
    /\ UNCHANGED <<shared, round, reply, verdict, resp>>

(* Rejected: the feedback is the response.  The call stays pending.        *)
Reject(r) ==
    /\ verdict[r] # "approve"
    /\ history' = AddToolCallAndResponse(history, ActorEntry("call", ThisCall(r)),
                                         ToolEntry("rejected", ThisCall(r)))
    /\ NextRound(r)
    /\ UNCHANGED <<task, pending, updater, reply, verdict>>

HandleVerdict(r) == pc[r] = "judged" /\ (Approve(r) \/ Reject(r))
-----------------------------------------------------------------------------
Continue(r) ==
    \/ PlannerReply(r) \/ AddPlan(r)
    \/ ActorReply(r)   \/ HandleReply(r)
    \/ CriticReply(r)  \/ HandleVerdict(r)

Next == \E r \in Requests : Begin(r) \/ Continue(r)

Spec == Init /\ [][Next]_vars

(* Every LLM call ends, with an answer or with the client's request        *)
(* timeout, and the event loop resumes a coroutine whose await is over.    *)
(* Nothing obliges the client to send another message.                     *)
FairSpec == Spec /\ \A r \in Requests : WF_vars(Continue(r))
-----------------------------------------------------------------------------
(* No command reaches the client unreviewed, whatever other turns do to    *)
(* the shared memory meanwhile: what a turn sends is the call its own last *)
(* round proposed, the static checker passed it and the Critic approved it *)
(* (__run_actor_critic_loop__ keeps the call in locals across its awaits). *)
GateSafety ==
    \A r \in Requests :
        resp[r].kind = "exec" =>
            /\ resp[r].of = ThisCall(r)
            /\ reply[r] = "clean"
            /\ verdict[r] = "approve"

(* The responses that stand for an execution, and the call ids they answer *)
(* by their place in the history.                                          *)
IsSlot(e) == e.role = "tool" /\ e.body \in {"placeholder", "result"}

SlotsOf(h) == { i \in DOMAIN h : IsSlot(h[i]) }

SlotCalls == { history[i - 1].of : i \in SlotsOf(history) }

(* The Actor's view of what was executed agrees with what was sent: the    *)
(* calls that have a result slot in the chat history are exactly those     *)
(* that went out as exec_requests, and the output of an exec_result never  *)
(* lands on a rejection, a nudge or an unsent call, even when turns of one *)
(* context overlap.                                                        *)
Sent == { r \in Requests : resp[r].kind = "exec" }

SlotsMatchRequests == SlotCalls = { resp[r].of : r \in Sent }

(* An exec_result is stored in at most one place: two overlapping approved *)
(* commands leave two placeholders, and the scan fills one of them.        *)
ResultStoredOnce ==
    \A i, j \in DOMAIN history :
        history[i].src = history[j].src /\ history[i].src # NoReq => i = j

(* The chat history only grows: a step appends, or turns one placeholder   *)
(* into the result that replaces it; no other message the LLMs have seen   *)
(* is ever rewritten.                                                      *)
HistoryStep ==
    /\ Len(history) <= Len(history')
    /\ \A i \in DOMAIN history :
          \/ history'[i] = history[i]
          \/ IsPlaceholder(history[i]) /\ history'[i].body = "result"

HistoryGrows == [][HistoryStep]_vars

(* What a context's memory may grow to: a turn adds its plan or the output *)
(* it reports once, and two messages per round, whatever is rejected,      *)
(* nudged or refused on the way (nothing ever trims the history, so this   *)
(* and the turn budget are all that bounds a prompt).                      *)
RoundsRun == { c \in CallIds : pc[c[1]] # "idle" /\ c[2] <= round[c[1]] }

HistoryBounded ==
    Len(history) <= Cardinality({ r \in Requests : pc[r] # "idle" })
                    + 2 * Cardinality(RoundsRun)

(* What the executor sees of the turns.                                    *)
TurnOf(r) == IF pc[r] = "idle" THEN "due"
             ELSE IF pc[r] # "done" THEN "running"
             ELSE IF resp[r].kind = "failed" THEN "raised" ELSE "answered"

Turns == INSTANCE TurnContract
    WITH Messages <- Requests, turn <- [r \in Requests |-> TurnOf(r)]

(* handle_request_iteration is called once per message and returns or      *)
(* raises once, whatever the turns of the context do to each other: the    *)
(* call the executor takes a turn for.                                     *)
KeepsTurnContract == Turns!Spec

(* Every message that reaches the handler is answered: the Actor-Critic    *)
(* loop gives up after MaxRounds rounds, and no error leaves a turn        *)
(* hanging.                                                                *)
TurnReturns == \A r \in Requests : pc[r] # "idle" ~> pc[r] = "done"
=============================================================================
