---------------------------- MODULE AgentMemory ----------------------------
(***************************************************************************)
(* The chat history of one A2A context (tools/agent_memory.py), as pure    *)
(* operators on a sequence of entries.  A message is abstracted to what    *)
(* the turn handler and the Actor LLM tell apart:                          *)
(*   role - which message class it is: the plan (AIMessage without a       *)
(*          call), an Actor answer (AIMessage), a ToolResponseMessage, or  *)
(*          a HumanMessage;                                                *)
(*   body - which text it carries;                                         *)
(*   of   - the tool-call id it carries or answers, NoCall when there is   *)
(*          none that another message knows (the nudge gets a fresh uuid); *)
(*   src  - the exec_result message whose output it holds, else NoReq.     *)
(***************************************************************************)
EXTENDS Naturals, Sequences

CONSTANTS Requests,   (* the A2A messages a context receives in its life     *)
          MaxRounds,  (* max_critic_actor_rounds: Actor attempts in one turn *)
          NoCall,     (* "no tool call"                                      *)
          NoReq       (* "no request"                                        *)

ASSUME MemoryAssumption ==
    /\ MaxRounds \in Nat \ {0}
    /\ NoReq \notin Requests
    /\ NoCall \notin Requests \X (1..MaxRounds)
-----------------------------------------------------------------------------
(* The Actor is called at most once in a round of a turn, so the turn and  *)
(* the round name its tool call (the LLM's call ids are unique as well).   *)
CallIds == Requests \X (1..MaxRounds)

Entries ==
    [ role : {"plan", "ai", "tool", "human"},
      body : {"plan", "text", "final", "call", "nudge", "badargs",
              "rejected", "placeholder", "result"},
      of   : CallIds \cup {NoCall},
      src  : Requests \cup {NoReq} ]

PlanEntry == [role |-> "plan", body |-> "plan", of |-> NoCall, src |-> NoReq]

ActorEntry(body, c) == [role |-> "ai", body |-> body, of |-> c, src |-> NoReq]

ToolEntry(body, c) == [role |-> "tool", body |-> body, of |-> c, src |-> NoReq]

ToolResult(c, r) == [role |-> "tool", body |-> "result", of |-> c, src |-> r]

HumanResult(r) == [role |-> "human", body |-> "result", of |-> NoCall, src |-> r]
-----------------------------------------------------------------------------
AddMessage(h, e) == Append(h, e)

(* The AI message and the response to it go in together.                   *)
AddToolCallAndResponse(h, ai, response) == Append(Append(h, ai), response)

(* Only an approved call gets a ToolResponseMessage with empty content.    *)
IsPlaceholder(e) == e.role = "tool" /\ e.body = "placeholder"

Placeholders(h) == {i \in DOMAIN h : IsPlaceholder(h[i])}

(* Mutant: the scan takes the last tool message, empty or not.             *)
FillLastToolMessage(h, c, r) ==
    [ i \in DOMAIN h |->
        IF h[i].role = "tool" /\ \A j \in DOMAIN h : h[j].role = "tool" => j <= i
        THEN ToolResult(c, r)
        ELSE h[i] ]

(* Mutant: the scan goes on after the first placeholder it fills.          *)
FillEveryPlaceholder(h, c, r) ==
    [ i \in DOMAIN h |-> IF IsPlaceholder(h[i]) THEN ToolResult(c, r) ELSE h[i] ]

(* The backward scan for the last empty ToolResponseMessage: it is         *)
(* replaced by the output of exec_result r under the call id c; a history  *)
(* without one stays as it is.                                             *)
FillLastPlaceholder(h, c, r) ==
    [ i \in DOMAIN h |->
        IF /\ IsPlaceholder(h[i])
           /\ \A j \in Placeholders(h) : j <= i
        THEN ToolResult(c, r)
        ELSE h[i] ]
=============================================================================
