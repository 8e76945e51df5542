------------------------------ MODULE LLMCall ------------------------------
(***************************************************************************)
(* One LLM call as the Planner, the Actor and the Critic make it: a client *)
(* call (llm_clients/*.py, which leave retrying to the agents), one more   *)
(* when the failure is worth it (retry.py), and what becomes of an error   *)
(* that remains.  The calls of overlapping turns of one context share the  *)
(* client and its rate-limit flag.  This is where CallFails of module      *)
(* TerminalBench and RetryableError and FinalError of module Critic come   *)
(* from.                                                                   *)
(***************************************************************************)
EXTENDS Naturals, Sequences

CONSTANT Calls  \* the LLM calls a context makes

VARIABLES pc,          \* per call: "idle", "asked", "retried", "ended"
          caller,      \* per call: the agent that makes it
          heard,       \* per call: the errors its client calls raised
          outcome,     \* per call: "answer", or what its error does to the turn
          rateLimited  \* _rate_limited of the shared client

vars == <<pc, caller, heard, outcome, rateLimited>>

Callers == {"planner", "actor", "critic"}

(* An error is its class (429; the request timeout; no connection; a       *)
(* retried 5xx; any other status; everything else) and whether its message *)
(* reports an empty generation or output, which the endpoint does with a   *)
(* 500; the first three have messages of the client library's own.         *)
Errors ==
    [kind : {"rate", "timeout", "connection"}, empty : {FALSE}]
        \cup [kind : {"server", "status", "other"}, empty : BOOLEAN]

(* Mutant: the retried status codes are forgotten.                         *)
IsRetryableStatusless(e) == e.kind \in {"rate", "timeout", "connection"}

IsRetryable(e) == e.kind \in {"rate", "timeout", "connection", "server"}

(* The turn handler continues in the next turn after some errors, and      *)
(* fails the A2A task after the rest; the Critic rejects whatever happens. *)
Consequence(agent, e) ==
    IF agent = "critic" THEN "rejected"
    ELSE IF e.kind \in {"rate", "timeout"} \/ e.empty THEN "noop"
    ELSE "failed"

Init ==
    /\ pc = [c \in Calls |-> "idle"]
    /\ caller = [c \in Calls |-> "planner"]
    /\ heard = [c \in Calls |-> <<>>]
    /\ outcome = [c \in Calls |-> "none"]
    /\ rateLimited = FALSE
-----------------------------------------------------------------------------
Invoke(c, agent) ==
    /\ pc[c] = "idle"
    /\ pc' = [pc EXCEPT ![c] = "asked"]
    /\ caller' = [caller EXCEPT ![c] = agent]
    /\ UNCHANGED <<heard, outcome, rateLimited>>

Asking(c) == pc[c] \in {"asked", "retried"}

ClientAnswers(c) ==
    /\ Asking(c)
    /\ pc' = [pc EXCEPT ![c] = "ended"]
    /\ outcome' = [outcome EXCEPT ![c] = "answer"]
    /\ UNCHANGED <<caller, heard, rateLimited>>

(* Mutant: the flag tells only of the last failure.                        *)
ClientRaisesLast(c, e) ==
    /\ Asking(c)
    /\ heard' = [heard EXCEPT ![c] = Append(@, e)]
    /\ rateLimited' = (e.kind = "rate")
    /\ UNCHANGED caller

(* The client notes a 429, on any of its three methods, and raises.        *)
ClientRaises(c, e) ==
    /\ Asking(c)
    /\ heard' = [heard EXCEPT ![c] = Append(@, e)]
    /\ rateLimited' = (rateLimited \/ e.kind = "rate")
    /\ UNCHANGED caller

(* Mutant: every failure worth it is followed by one more call.            *)
RetryAlways(c, e) ==
    /\ ClientRaises(c, e)
    /\ IsRetryable(e)
    /\ pc' = [pc EXCEPT ![c] = "retried"]
    /\ UNCHANGED outcome

(* Mutant: "while True" in place of the one retry (its log is not kept).   *)
RetryForever(c, e) ==
    /\ Asking(c)
    /\ IsRetryable(e)
    /\ pc' = [pc EXCEPT ![c] = IF @ = "asked" THEN "retried" ELSE "asked"]
    /\ rateLimited' = (rateLimited \/ e.kind = "rate")
    /\ UNCHANGED <<caller, heard, outcome>>

(* The first failure, if worth it, is followed by one more client call.    *)
Retry(c, e) ==
    /\ ClientRaises(c, e)
    /\ pc[c] = "asked"
    /\ IsRetryable(e)
    /\ pc' = [pc EXCEPT ![c] = "retried"]
    /\ UNCHANGED outcome

GiveUp(c, e) ==
    /\ ClientRaises(c, e)
    /\ pc[c] = "retried" \/ ~IsRetryable(e)
    /\ pc' = [pc EXCEPT ![c] = "ended"]
    /\ outcome' = [outcome EXCEPT ![c] = Consequence(caller[c], e)]

(* The three clients (L3S, AcademicCloud, OpenRouter) behave alike.        *)
ClientReturns(c) == ClientAnswers(c) \/ \E e \in Errors : Retry(c, e) \/ GiveUp(c, e)

Next == \E c \in Calls : (\E agent \in Callers : Invoke(c, agent)) \/ ClientReturns(c)

Spec == Init /\ [][Next]_vars

(* An open request ends: with an answer, an error, or the client's request *)
(* timeout (120 s for L3S).                                                *)
FairSpec == Spec /\ \A c \in Calls : WF_vars(ClientReturns(c))
-----------------------------------------------------------------------------
TypeOK ==
    /\ pc \in [Calls -> {"idle", "asked", "retried", "ended"}]
    /\ caller \in [Calls -> Callers]
    /\ heard \in [Calls -> Seq(Errors)]
    /\ \A c \in Calls : Len(heard[c]) <= 2
    /\ outcome \in [Calls -> {"none", "answer", "noop", "rejected", "failed"}]
    /\ rateLimited \in BOOLEAN

LastHeard(c) == heard[c][Len(heard[c])]

Lost(c) == outcome[c] \in {"noop", "rejected", "failed"}

Transient == {"rate", "timeout", "connection", "server"}

(* One bad moment of the endpoint is never enough, whichever agent asks: a *)
(* call given up after a 429, a timeout, a refused connection or a 5xx has *)
(* failed twice, and a second attempt follows no other failure.  And even  *)
(* then the A2A task survives a 429, a timeout, a 500 that reports an      *)
(* empty generation and anything the Critic's own calls run into, whatever *)
(* the first attempt ran into.                                             *)
GivesUpOnlyTwice ==
    \A c \in Calls : Lost(c) =>
        /\ LastHeard(c).kind \in Transient => Len(heard[c]) = 2
        /\ Len(heard[c]) = 2 => heard[c][1].kind \in Transient
        /\ outcome[c] = "failed" =>
              /\ caller[c] # "critic"
              /\ LastHeard(c).kind \notin {"rate", "timeout"} /\ ~LastHeard(c).empty

(* A context that lost a call to rate limiting says so in its session      *)
(* trace, whichever agent and whichever client method met the 429 and      *)
(* whatever the other calls on the client did (finalize_turn reports the   *)
(* flag, and "completed" as its negation).                                 *)
RateLimitReported ==
    (\E c \in Calls : Lost(c) /\ LastHeard(c).kind = "rate") => rateLimited

(* Every call ends: no error class makes an agent ask for ever.            *)
CallEnds == \A c \in Calls : pc[c] = "asked" ~> pc[c] = "ended"
-----------------------------------------------------------------------------
(* l3s.py:73 says the flag is set "when we ultimately give up on 429s": if *)
(* it is set, some call was lost to a rate limit.                          *)
FlagMeansGaveUp ==
    rateLimited =>
        \E c \in Calls :
            \/ Asking(c)
            \/ /\ pc[c] = "ended" /\ outcome[c] # "answer"
               /\ \E i \in DOMAIN heard[c] : heard[c][i].kind = "rate"
=============================================================================
