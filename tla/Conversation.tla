---------------------------- MODULE Conversation ----------------------------
(***************************************************************************)
(* The clients of one server: Messenger.talk_to_agent and send_message     *)
(* (messenger.py), composed with the executor.  A Messenger remembers, per *)
(* url, the context id of the last message that was answered; it never     *)
(* sends a task id, so every message opens a task.  A call ends with an    *)
(* answer, raises on a failed task, or gives up on the http timeout, a     *)
(* lost connection included, while the server goes on.  The caller may     *)
(* catch the error and talk again.                                         *)
(***************************************************************************)
EXTENDS Executor

CONSTANT Clients  \* the Messengers, one url each, called one call at a time

(* A message without a context id gets a fresh uuid: here the message.     *)
ASSUME ConversationAssumption == Requests \subseteq Contexts

VARIABLES stored,  \* per client: _context_ids[url]
          call,    \* per client: the message its talk_to_agent waits for
          last,    \* per client: the message answered last, since reset
          sender,  \* per message: the client that sent it
          from,    \* per message: the answered message it goes on from
          fate     \* per message: how its talk_to_agent went

clientVars == <<stored, call, last, sender, from, fate>>
convVars   == <<vars, clientVars>>

Fates == {"none", "waiting", "answered", "raised", "abandoned"}

ConversationTypeOK ==
    /\ TypeOK
    /\ stored \in [Clients -> Contexts \cup {None}]
    /\ call \in [Clients -> Requests \cup {None}]
    /\ last \in [Clients -> Requests \cup {None}]
    /\ sender \in [Requests -> Clients \cup {None}]
    /\ from \in [Requests -> Requests \cup {None}]
    /\ fate \in [Requests -> Fates]

ConversationInit ==
    /\ Init
    /\ stored = [c \in Clients |-> None]
    /\ call = [c \in Clients |-> None]
    /\ last = [c \in Clients |-> None]
    /\ sender = [r \in Requests |-> None]
    /\ from = [r \in Requests |-> None]
    /\ fate = [r \in Requests |-> "none"]
-----------------------------------------------------------------------------
(* The context id of a message: none with new_conversation or without a    *)
(* stored one, and then the server makes it.                               *)
ContextFor(c, r, fresh) == IF fresh \/ stored[c] = None THEN r ELSE stored[c]

(* Mutant: the message goes out although a call is under way.              *)
TalkWithoutWaiting(c, r, fresh) ==
    /\ AcceptNew(r, ContextFor(c, r, fresh))
    /\ call' = [call EXCEPT ![c] = r]
    /\ sender' = [sender EXCEPT ![r] = c]
    /\ from' = [from EXCEPT ![r] = IF fresh THEN None ELSE last[c]]
    /\ fate' = [fate EXCEPT ![r] = "waiting"]
    /\ UNCHANGED <<stored, last>>

Talk(c, r, fresh) ==
    /\ call[c] = None
    /\ AcceptNew(r, ContextFor(c, r, fresh))
    /\ call' = [call EXCEPT ![c] = r]
    /\ sender' = [sender EXCEPT ![r] = c]
    /\ from' = [from EXCEPT ![r] = IF fresh THEN None ELSE last[c]]
    /\ fate' = [fate EXCEPT ![r] = "waiting"]
    /\ UNCHANGED <<stored, last>>

CallEnds(c, how) ==
    /\ call' = [call EXCEPT ![c] = None]
    /\ fate' = [fate EXCEPT ![call[c]] = how]
    /\ UNCHANGED <<vars, sender, from>>

(* Mutant: an answer that comes after the timeout is taken as well.        *)
ReceiveLate(c) ==
    \E r \in Requests :
        /\ sender[r] = c
        /\ state[r] = "completed"
        /\ fate[r] \in {"waiting", "abandoned"}
        /\ stored' = [stored EXCEPT ![c] = ctx[r]]
        /\ last' = [last EXCEPT ![c] = r]
        /\ fate' = [fate EXCEPT ![r] = "answered"]
        /\ call' = [call EXCEPT ![c] = IF @ = r THEN None ELSE @]
        /\ UNCHANGED <<vars, sender, from>>

(* The task is completed, which it may be before its execute has returned: *)
(* the context id of the answer is stored.                                 *)
Receive(c) ==
    /\ call[c] # None
    /\ state[call[c]] = "completed"
    /\ stored' = [stored EXCEPT ![c] = ctx[call[c]]]
    /\ last' = [last EXCEPT ![c] = call[c]]
    /\ CallEnds(c, "answered")

(* Mutant: the context id is stored before the status is looked at.        *)
RaiseAfterStoring(c) ==
    /\ call[c] # None
    /\ state[call[c]] = "failed"
    /\ stored' = [stored EXCEPT ![c] = ctx[call[c]]]
    /\ CallEnds(c, "raised")
    /\ UNCHANGED last

(* Any status but completed raises before anything is stored.              *)
Raise(c) ==
    /\ call[c] # None
    /\ state[call[c]] = "failed"
    /\ CallEnds(c, "raised")
    /\ UNCHANGED <<stored, last>>

(* The timeout of the http client, wherever the turn is; an answer that is *)
(* already on its way is lost.                                             *)
GiveUp(c) ==
    /\ call[c] # None
    /\ CallEnds(c, "abandoned")
    /\ UNCHANGED <<stored, last>>

Reset(c) ==
    /\ call[c] = None
    /\ stored' = [stored EXCEPT ![c] = None]
    /\ last' = [last EXCEPT ![c] = None]
    /\ UNCHANGED <<vars, call, sender, from, fate>>

Serve(r) == Execute(r) /\ UNCHANGED clientVars

ConversationNext ==
    \/ \E c \in Clients :
          \/ \E r \in Requests, fresh \in BOOLEAN : Talk(c, r, fresh)
          \/ Receive(c) \/ Raise(c) \/ GiveUp(c) \/ Reset(c)
    \/ \E r \in Requests : Serve(r)

ConversationSpec == ConversationInit /\ [][ConversationNext]_convVars

(* The server's coroutines are resumed and its turns end; an http response *)
(* that was sent is received.  No timeout need ever fire.                  *)
FairConversationSpec ==
    /\ ConversationSpec
    /\ \A r \in Requests : WF_convVars(Serve(r))
    /\ \A c \in Clients : WF_convVars(Receive(c) \/ Raise(c))
-----------------------------------------------------------------------------
(* A message that continues a conversation reaches the Agent, and so the   *)
(* memory, that gave the client its last answer, whatever failed, timed    *)
(* out or was answered late in between (messenger.py:118-126).             *)
Continues ==
    \A r \in Requests :
        from[r] # None /\ agentOf[r] # None => agentOf[r] = agentOf[from[r]]

(* Clients never share a memory: an Agent serves the messages of one.      *)
ClientsApart ==
    \A r, q \in Requests :
        agentOf[r] # None /\ agentOf[r] = agentOf[q] => sender[r] = sender[q]

(* Turns of one Agent overlap only after a timeout: this is what module    *)
(* Session assumes of its client, and the hazard of a client that goes on  *)
(* after its request timed out.                                            *)
UnderWay(r) == pc[r] \in {"started", "running", "replied", "failing"}

OverlapOnlyAfterTimeout ==
    \A r, q \in Requests :
        r # q /\ UnderWay(r) /\ UnderWay(q) /\ agentOf[r] = agentOf[q] =>
            "abandoned" \in {fate[r], fate[q]}

(* A conversation that no client holds and no open call is about is over:  *)
(* when the first message of a conversation fails or times out, no later   *)
(* message joins what that turn leaves behind, however late it ends.       *)
Lost(k) ==
    /\ \E r \in Requests : ctx[r] = k
    /\ \A c \in Clients : stored[c] # k /\ (call[c] # None => ctx[call[c]] # k)

LostForGood == [][\A k \in Contexts : Lost(k) => Lost(k)']_convVars

(* Every talk_to_agent returns or raises, without any help of a timeout.   *)
TalkReturns == \A c \in Clients : call[c] # None ~> call[c] = None
=============================================================================
