------------------------- MODULE ConversationProofs -------------------------
(***************************************************************************)
(* The composition of the clients with the executor, for any number of     *)
(* clients and messages: it implements the executor's specification, and   *)
(* what a client continues is its own conversation.                        *)
(***************************************************************************)
EXTENDS Conversation, ExecutorProofs

ClientTypes ==
    /\ stored \in [Clients -> Contexts \cup {None}]
    /\ call \in [Clients -> Requests \cup {None}]
    /\ last \in [Clients -> Requests \cup {None}]
    /\ sender \in [Requests -> Clients \cup {None}]
    /\ from \in [Requests -> Requests \cup {None}]
    /\ fate \in [Requests -> Fates]

(* Every message opens its own task, and a context is named after the      *)
(* message that opened it.                                                 *)
OwnTask ==
    \A r \in Requests :
        /\ pc[r] = "idle" => ctx[r] = None
        /\ pc[r] # "idle" => task[r] = r /\ ctx[r] \in Requests /\ pc[ctx[r]] # "idle"
        /\ state[r] \in TerminalStates => pc[r] \in {"completing", "done"}

(* What a client holds is the context of its last answer, where nobody     *)
(* else sends, and its open call is its own message.                       *)
Held ==
    \A c \in Clients :
        /\ last[c] = None => stored[c] = None
        /\ last[c] # None => stored[c] = ctx[last[c]] /\ agentOf[last[c]] # None
        /\ stored[c] # None =>
              \A q \in Requests : pc[q] # "idle" /\ ctx[q] = stored[c] => sender[q] = c
        /\ call[c] # None =>
              sender[call[c]] = c /\ fate[call[c]] = "waiting" /\ pc[call[c]] # "idle"

(* What became of a message's call.                                        *)
Sent ==
    \A r \in Requests :
        /\ pc[r] # "idle" => sender[r] \in Clients /\ fate[r] # "none"
        /\ pc[r] = "idle" => fate[r] = "none" /\ from[r] = None
        /\ fate[r] = "waiting" => call[sender[r]] = r
        /\ fate[r] \in {"answered", "raised"} => pc[r] \in {"completing", "done"}
        /\ from[r] # None => ctx[r] = ctx[from[r]] /\ agentOf[from[r]] # None

Private ==
    \A r, q \in Requests :
        pc[r] # "idle" /\ pc[q] # "idle" /\ ctx[r] = ctx[q] => sender[r] = sender[q]

ClientInv == ClientTypes /\ OwnTask /\ Held /\ Sent /\ Private

ConversationInv == RoutedInv /\ ClientInv

LEMMA ConversationStarts == ConversationInit => ConversationInv
BY RoutedInit, ExecutorAssumption
   DEF ConversationInit, Init, ConversationInv, ClientInv, ClientTypes, OwnTask, Held, Sent,
       Private, Fates, TerminalStates

(* A message goes to the context it opens or to the one its client holds.  *)
LEMMA TalkIsAccept ==
    ASSUME ConversationInv, NEW c \in Clients, NEW r \in Requests, NEW fresh \in BOOLEAN,
           Talk(c, r, fresh)
    PROVE  /\ ContextFor(c, r, fresh) \in Contexts
           /\ AcceptNew(r, ContextFor(c, r, fresh))
BY ConversationAssumption
   DEF ConversationInv, ClientInv, ClientTypes, ContextFor, Talk

LEMMA ConversationStutters ==
    ConversationInv /\ [ConversationNext]_convVars => [Next]_vars
<1> SUFFICES ASSUME ConversationInv, [ConversationNext]_convVars PROVE [Next]_vars
  OBVIOUS
<1>1. ASSUME NEW c \in Clients, NEW r \in Requests, NEW fresh \in BOOLEAN, Talk(c, r, fresh)
      PROVE  Next
  BY <1>1, TalkIsAccept DEF Next, Accept
<1>2. ASSUME NEW c \in Clients, Receive(c) \/ Raise(c) \/ GiveUp(c) \/ Reset(c)
      PROVE  UNCHANGED vars
  BY <1>2 DEF Receive, Raise, GiveUp, Reset, CallEnds
<1>3. ASSUME NEW r \in Requests, Serve(r) PROVE Next
  BY <1>3 DEF Serve, Next
<1>4. CASE UNCHANGED convVars
  BY <1>4 DEF convVars
<1> QED BY <1>1, <1>2, <1>3, <1>4 DEF ConversationNext

(* What a step of the server leaves of the client's view.                  *)
ServerView ==
    /\ UNCHANGED <<ctx, task>>
    /\ \A q \in Requests :
          /\ pc'[q] = "idle" <=> pc[q] = "idle"
          /\ pc[q] \in {"completing", "done"} => pc'[q] \in {"completing", "done"}
          /\ agentOf[q] # None => agentOf'[q] # None
          /\ OwnTask /\ state'[q] \in TerminalStates => pc'[q] \in {"completing", "done"}

LEMMA ServeView ==
    ASSUME RoutedInv, OwnTask, NEW r \in Requests, Execute(r)
    PROVE  ServerView
<1>1. TypeOK /\ Routed /\ (pc[r] # "idle" => task[r] = r)
  BY DEF RoutedInv, OwnTask
<1> USE <1>1, ExecutorAssumption DEF TypeOK, GoTo, ServerView, OwnTask, TerminalStates
<1>2. CASE FindAgent(r)
  <2>1. ctx[r] \in Contexts
    BY <1>2 DEF FindAgent, Routed
  <2> QED BY <1>2, <2>1 DEF FindAgent
<1>3. CASE CheckBudget(r)
  BY <1>3 DEF CheckBudget
<1>4. CASE TurnAnswers(r) \/ TurnRaises(r)
  BY <1>4 DEF TurnAnswers, TurnRaises
<1>5. CASE Complete(r) \/ Fail(r)
  BY <1>5 DEF Complete, Fail, EndTask
<1>6. CASE FinalizeTurn(r)
  BY <1>6 DEF FinalizeTurn, EndTask
<1> QED BY <1>2, <1>3, <1>4, <1>5, <1>6 DEF Execute
-----------------------------------------------------------------------------
LEMMA ClientTypesStep ==
    ASSUME ConversationInv, [ConversationNext]_convVars PROVE ClientTypes'
<1>0. ClientTypes /\ ctx \in [Requests -> Contexts \cup {None}]
  BY DEF ConversationInv, ClientInv, RoutedInv, TypeOK
<1> USE <1>0 DEF ClientTypes, Fates
<1>1. ASSUME NEW c \in Clients, NEW r \in Requests, NEW fresh \in BOOLEAN, Talk(c, r, fresh)
      PROVE  ClientTypes'
  BY <1>1 DEF Talk
<1>2. ASSUME NEW c \in Clients, Receive(c) \/ Raise(c) \/ GiveUp(c) \/ Reset(c)
      PROVE  ClientTypes'
  BY <1>2 DEF Receive, Raise, GiveUp, Reset, CallEnds
<1>3. ASSUME NEW r \in Requests, Serve(r) PROVE ClientTypes'
  BY <1>3 DEF Serve, clientVars
<1>4. CASE UNCHANGED convVars
  BY <1>4 DEF convVars, clientVars
<1> QED BY <1>1, <1>2, <1>3, <1>4 DEF ConversationNext

(* A new message enters a conversation of its own client.                  *)
LEMMA TalkStep ==
    ASSUME ConversationInv, NEW c \in Clients, NEW r \in Requests, NEW fresh \in BOOLEAN,
           Talk(c, r, fresh)
    PROVE  (OwnTask /\ Held /\ Sent /\ Private)'
<1> DEFINE k == ContextFor(c, r, fresh)
<1>1. TypeOK /\ Routed /\ ClientTypes /\ OwnTask /\ Held /\ Sent /\ Private
  BY DEF ConversationInv, ClientInv, RoutedInv
<1>2. k \in Contexts /\ (k = r \/ (~fresh /\ stored[c] # None /\ k = stored[c]))
  BY TalkIsAccept DEF ContextFor
<1>3. /\ pc[r] = "idle" /\ pc' = [pc EXCEPT ![r] = "accepted"]
      /\ ctx' = [ctx EXCEPT ![r] = k]
      /\ task' = [task EXCEPT ![r] = r]
      /\ state' = [state EXCEPT ![r] = "submitted"]
      /\ call[c] = None /\ call' = [call EXCEPT ![c] = r]
      /\ sender' = [sender EXCEPT ![r] = c]
      /\ from' = [from EXCEPT ![r] = IF fresh THEN None ELSE last[c]]
      /\ fate' = [fate EXCEPT ![r] = "waiting"]
      /\ UNCHANGED <<agentOf, stored, last>>
  BY TalkIsAccept DEF AcceptNew, GoTo, Talk
<1> HIDE DEF k
<1> USE <1>1, ExecutorAssumption DEF TypeOK, ClientTypes, TerminalStates
<1>4. agentOf[r] = None
  BY <1>3 DEF Routed
<1>5. \A d \in Clients : stored[d] # None =>
         /\ last[d] \in Requests /\ agentOf[last[d]] # None /\ ctx[last[d]] = stored[d]
         /\ pc[last[d]] # "idle" /\ sender[last[d]] = d
         /\ stored[d] \in Requests /\ pc[stored[d]] # "idle"
  <2> SUFFICES ASSUME NEW d \in Clients, stored[d] # None
               PROVE  /\ last[d] \in Requests /\ agentOf[last[d]] # None
                      /\ ctx[last[d]] = stored[d]
                      /\ pc[last[d]] # "idle" /\ sender[last[d]] = d
                      /\ stored[d] \in Requests /\ pc[stored[d]] # "idle"
    OBVIOUS
  <2>1. last[d] # None /\ last[d] \in Requests
    BY DEF Held
  <2>2. agentOf[last[d]] # None /\ ctx[last[d]] = stored[d]
    BY <2>1 DEF Held
  <2>3. pc[last[d]] # "idle"
    BY <2>1, <2>2 DEF Routed
  <2>4. sender[last[d]] = d
    BY <2>1, <2>2, <2>3 DEF Held
  <2>5. stored[d] \in Requests /\ pc[stored[d]] # "idle"
    BY <2>1, <2>2, <2>3 DEF OwnTask
  <2> QED BY <2>1, <2>2, <2>3, <2>4, <2>5
<1>6. \A q \in Requests : pc[q] # "idle" => ctx[q] # r
  BY <1>3 DEF OwnTask
<1>7. \A q \in Requests : pc[q] # "idle" /\ ctx[q] = k => sender[q] = c
  BY <1>2, <1>6 DEF Held
<1>8. k \in Requests /\ pc'[k] # "idle"
  BY <1>2, <1>3, <1>5
<1>9. OwnTask'
  BY <1>3, <1>8 DEF OwnTask
<1>10. Held'
  <2> SUFFICES ASSUME NEW d \in Clients
      PROVE /\ last[d] = None => stored[d] = None
            /\ last[d] # None => stored[d] = ctx'[last[d]] /\ agentOf[last[d]] # None
            /\ stored[d] # None =>
                  \A q \in Requests : pc'[q] # "idle" /\ ctx'[q] = stored[d] => sender'[q] = d
            /\ call'[d] # None =>
                  sender'[call'[d]] = d /\ fate'[call'[d]] = "waiting" /\ pc'[call'[d]] # "idle"
    BY <1>3 DEF Held
  <2>1. last[d] = None => stored[d] = None
    BY DEF Held
  <2>2. ASSUME last[d] # None PROVE stored[d] = ctx'[last[d]] /\ agentOf[last[d]] # None
    <3>1. last[d] \in Requests /\ stored[d] = ctx[last[d]] /\ agentOf[last[d]] # None
      BY <2>2 DEF Held
    <3> QED BY <1>3, <1>4, <3>1
  <2>3. ASSUME stored[d] # None, NEW q \in Requests, pc'[q] # "idle", ctx'[q] = stored[d]
        PROVE  sender'[q] = d
    <3>1. CASE q = r
      <4>1. k = stored[d]
        BY <1>3, <2>3, <3>1
      <4>2. k # r
        BY <1>3, <1>5, <2>3, <4>1
      <4>3. sender[last[d]] = c
        BY <1>5, <1>7, <2>3, <4>1
      <4> QED BY <1>3, <1>5, <2>3, <3>1, <4>3
    <3>2. CASE q # r
      BY <1>3, <2>3, <3>2 DEF Held
    <3> QED BY <3>1, <3>2
  <2>4. ASSUME call'[d] # None
        PROVE  sender'[call'[d]] = d /\ fate'[call'[d]] = "waiting" /\ pc'[call'[d]] # "idle"
    <3>1. CASE d = c
      BY <1>3, <3>1
    <3>2. CASE d # c
      BY <1>3, <2>4, <3>2 DEF Held
    <3> QED BY <3>1, <3>2
  <2> QED BY <2>1, <2>2, <2>3, <2>4
<1>11. Sent'
  <2> SUFFICES ASSUME NEW q \in Requests
      PROVE /\ pc'[q] # "idle" => sender'[q] \in Clients /\ fate'[q] # "none"
            /\ pc'[q] = "idle" => fate'[q] = "none" /\ from'[q] = None
            /\ fate'[q] = "waiting" => call'[sender'[q]] = q
            /\ fate'[q] \in {"answered", "raised"} => pc'[q] \in {"completing", "done"}
            /\ from'[q] # None => ctx'[q] = ctx'[from'[q]] /\ agentOf'[from'[q]] # None
    BY DEF Sent
  <2>1. CASE q = r
    <3>1. from'[r] # None => from'[r] = last[c] /\ ~fresh /\ last[c] # None
      BY <1>3
    <3>2. ASSUME ~fresh, last[c] # None
          PROVE  /\ k = stored[c] /\ last[c] # r /\ ctx[last[c]] = stored[c]
                 /\ last[c] \in Requests /\ agentOf[last[c]] # None
      <4>1. stored[c] = ctx[last[c]] /\ agentOf[last[c]] # None /\ last[c] \in Requests
        BY <3>2 DEF Held
      <4>2. pc[last[c]] # "idle"
        BY <4>1 DEF Routed
      <4>3. stored[c] # None
        BY <4>1, <4>2 DEF OwnTask
      <4> QED BY <1>3, <3>2, <4>1, <4>2, <4>3 DEF k, ContextFor
    <3> QED BY <1>3, <2>1, <3>1, <3>2
  <2>2. CASE q # r
    <3>1. from'[q] = from[q] /\ ctx'[q] = ctx[q] /\ sender'[q] = sender[q]
          /\ fate'[q] = fate[q] /\ pc'[q] = pc[q]
      BY <1>3, <2>2
    <3>2. from[q] # None => from[q] # r
      BY <1>4 DEF Sent
    <3>3. fate[q] = "waiting" => call[sender[q]] = q /\ sender[q] \in Clients
      BY DEF Sent
    <3>4. fate[q] = "waiting" => call'[sender[q]] = q
      BY <1>3, <3>3
    <3>5. from[q] # None => ctx'[q] = ctx'[from[q]] /\ agentOf'[from[q]] # None
      BY <1>3, <3>1, <3>2 DEF Sent
    <3> QED BY <3>1, <3>4, <3>5 DEF Sent
  <2> QED BY <2>1, <2>2
<1>12. Private'
  <2> SUFFICES ASSUME NEW p \in Requests, NEW q \in Requests,
                      pc'[p] # "idle", pc'[q] # "idle", ctx'[p] = ctx'[q]
               PROVE  sender'[p] = sender'[q]
    BY DEF Private
  <2> QED BY <1>3, <1>7 DEF Private
<1> QED BY <1>9, <1>10, <1>11, <1>12

(* The end of a call is the client's own affair.                           *)
LEMMA CallEndStep ==
    ASSUME ConversationInv, NEW c \in Clients, Receive(c) \/ Raise(c) \/ GiveUp(c) \/ Reset(c)
    PROVE  (OwnTask /\ Held /\ Sent /\ Private)'
<1>1. TypeOK /\ Routed /\ ClientTypes /\ OwnTask /\ Held /\ Sent /\ Private
  BY DEF ConversationInv, ClientInv, RoutedInv
<1>2. UNCHANGED <<pc, ctx, task, state, agentOf, sender, from>>
  BY DEF Receive, Raise, GiveUp, Reset, CallEnds, vars
<1> USE <1>1, <1>2, ExecutorAssumption DEF TypeOK, ClientTypes, TerminalStates
<1>3. OwnTask' /\ Private'
  BY DEF OwnTask, Private
<1>4. CASE Reset(c)
  BY <1>3, <1>4 DEF Reset, Held, Sent
<1>5. CASE Receive(c) \/ Raise(c) \/ GiveUp(c)
  <2>1. /\ call[c] \in Requests /\ sender[call[c]] = c /\ pc[call[c]] # "idle"
        /\ call' = [call EXCEPT ![c] = None]
    BY <1>5 DEF Receive, Raise, GiveUp, CallEnds, Held
  <2>2. \/ fate' = [fate EXCEPT ![call[c]] = "abandoned"]
        \/ /\ pc[call[c]] \in {"completing", "done"}
           /\ \E how \in {"answered", "raised"} : fate' = [fate EXCEPT ![call[c]] = how]
    BY <1>5, <2>1 DEF Receive, Raise, GiveUp, CallEnds, OwnTask
  <2>3. Sent'
    <3> SUFFICES ASSUME NEW q \in Requests
        PROVE /\ pc[q] # "idle" => fate'[q] # "none"
              /\ pc[q] = "idle" => fate'[q] = "none"
              /\ fate'[q] = "waiting" => call'[sender[q]] = q
              /\ fate'[q] \in {"answered", "raised"} => pc[q] \in {"completing", "done"}
      BY DEF Sent
    <3>1. CASE q = call[c]
      BY <2>1, <2>2, <3>1 DEF Sent
    <3>2. CASE q # call[c]
      <4>1. fate'[q] = fate[q]
        BY <2>1, <2>2, <3>2
      <4>2. fate[q] = "waiting" => sender[q] # c /\ sender[q] \in Clients
        BY <3>2 DEF Sent
      <4> QED BY <2>1, <4>1, <4>2 DEF Sent
    <3> QED BY <3>1, <3>2
  <2>4. \A d \in Clients : call'[d] # None =>
            sender[call'[d]] = d /\ fate'[call'[d]] = "waiting" /\ pc[call'[d]] # "idle"
    <3> SUFFICES ASSUME NEW d \in Clients, call'[d] # None
        PROVE  sender[call'[d]] = d /\ fate'[call'[d]] = "waiting" /\ pc[call'[d]] # "idle"
      OBVIOUS
    <3>1. d # c /\ call'[d] = call[d] /\ call[d] \in Requests
      BY <2>1
    <3>2. sender[call[d]] = d /\ fate[call[d]] = "waiting" /\ pc[call[d]] # "idle"
      BY <3>1 DEF Held
    <3> QED BY <2>1, <2>2, <3>1, <3>2
  <2>5. CASE Receive(c)
    <3>1. /\ stored' = [stored EXCEPT ![c] = ctx[call[c]]]
          /\ last' = [last EXCEPT ![c] = call[c]]
          /\ pc[call[c]] \in {"completing", "done"}
      BY <2>1, <2>5 DEF Receive, OwnTask
    <3>2. agentOf[call[c]] # None
      BY <2>1, <3>1 DEF Routed
    <3>3. \A q \in Requests : pc[q] # "idle" /\ ctx[q] = ctx[call[c]] => sender[q] = c
      BY <2>1 DEF Private
    <3>4. Held'
      <4> SUFFICES ASSUME NEW d \in Clients
          PROVE /\ last'[d] = None => stored'[d] = None
                /\ last'[d] # None => stored'[d] = ctx[last'[d]] /\ agentOf[last'[d]] # None
                /\ stored'[d] # None =>
                      \A q \in Requests : pc[q] # "idle" /\ ctx[q] = stored'[d] => sender[q] = d
        BY <2>4 DEF Held
      <4>1. CASE d = c
        BY <2>1, <3>1, <3>2, <3>3, <4>1
      <4>2. CASE d # c
        BY <3>1, <4>2 DEF Held
      <4> QED BY <4>1, <4>2
    <3> QED BY <1>3, <2>3, <3>4
  <2>6. CASE Raise(c) \/ GiveUp(c)
    BY <1>3, <2>3, <2>4, <2>6 DEF Raise, GiveUp, Held
  <2> QED BY <1>5, <2>5, <2>6
<1> QED BY <1>4, <1>5

(* The server's steps move messages on and leave the clients alone.        *)
LEMMA ServeStep ==
    ASSUME ConversationInv, NEW r \in Requests, Serve(r)
    PROVE  (OwnTask /\ Held /\ Sent /\ Private)'
<1>1. ClientTypes /\ OwnTask /\ Held /\ Sent /\ Private
  BY DEF ConversationInv, ClientInv
<1>2. ServerView
  BY ServeView DEF ConversationInv, ClientInv, Serve
<1>3. UNCHANGED <<stored, call, last, sender, from, fate>>
  BY DEF Serve, clientVars
<1> USE <1>1, <1>2, <1>3 DEF ServerView, ClientTypes
<1>4. OwnTask'
  BY DEF OwnTask
<1>5. Held'
  BY DEF Held
<1>6. Sent'
  BY DEF Sent
<1>7. Private'
  BY DEF Private
<1> QED BY <1>4, <1>5, <1>6, <1>7

LEMMA ConversationStep ==
    ConversationInv /\ [ConversationNext]_convVars => ConversationInv'
<1> SUFFICES ASSUME ConversationInv, [ConversationNext]_convVars PROVE ConversationInv'
  OBVIOUS
<1>1. RoutedInv'
  BY ConversationStutters, RoutedStep DEF ConversationInv
<1>2. ClientTypes'
  BY ClientTypesStep
<1>3. (OwnTask /\ Held /\ Sent /\ Private)'
  <2>1. CASE UNCHANGED convVars
    BY <2>1 DEF convVars, vars, clientVars, ConversationInv, ClientInv, OwnTask, Held, Sent, Private
  <2>2. CASE ConversationNext
    BY <2>2, TalkStep, CallEndStep, ServeStep DEF ConversationNext
  <2> QED BY <2>1, <2>2
<1> QED BY <1>1, <1>2, <1>3 DEF ConversationInv, ClientInv

(* What holds between the clients and the server at every moment.          *)
THEOREM ConversationHolds == ConversationSpec => []ConversationInv
BY ConversationStarts, ConversationStep, PTL DEF ConversationSpec
-----------------------------------------------------------------------------
(* The composition implements the executor's specification: what is proved *)
(* of the executor for any clients holds for these.                        *)
THEOREM ConversationImplementsExecutor == ConversationSpec => Spec
<1>1. ConversationInit => Init
  BY DEF ConversationInit
<1> QED BY <1>1, ConversationStutters, ConversationHolds, PTL DEF ConversationSpec, Spec

(* The types of the clients' and the server's state.                       *)
THEOREM ConversationTypes == ConversationSpec => []ConversationTypeOK
<1>1. ConversationInv => ConversationTypeOK
  BY DEF ConversationInv, ClientInv, ClientTypes, RoutedInv, ConversationTypeOK
<1> QED BY <1>1, ConversationHolds, PTL

(* A continued message reaches the memory that gave the client its last    *)
(* answer, whatever failed, timed out or came late in between.             *)
THEOREM ContinuesHolds == ConversationSpec => []Continues
<1>1. ConversationInv => Continues
  <2> SUFFICES ASSUME ConversationInv, NEW r \in Requests, from[r] # None, agentOf[r] # None
               PROVE  agentOf[r] = agentOf[from[r]]
    BY DEF Continues
  <2>1. from[r] \in Requests
    BY DEF ConversationInv, ClientInv, ClientTypes
  <2>2. ctx[r] = ctx[from[r]] /\ agentOf[from[r]] # None
    BY DEF ConversationInv, ClientInv, Sent
  <2>3. OneAgentPerContext
    BY RoutedOneAgent DEF ConversationInv
  <2> QED BY <2>1, <2>2, <2>3 DEF OneAgentPerContext
<1> QED BY <1>1, ConversationHolds, PTL

LEMMA Apart == ConversationInv => ClientsApart
<1> SUFFICES ASSUME ConversationInv, NEW r \in Requests, NEW q \in Requests,
                    agentOf[r] # None, agentOf[r] = agentOf[q]
             PROVE  sender[r] = sender[q]
  BY DEF ClientsApart
<1>1. pc[r] # "idle" /\ pc[q] # "idle"
  BY DEF ConversationInv, RoutedInv, Routed
<1>2. OneAgentPerContext
  BY RoutedOneAgent DEF ConversationInv
<1>3. ctx[r] = ctx[q]
  BY <1>2 DEF OneAgentPerContext
<1> QED BY <1>1, <1>3 DEF ConversationInv, ClientInv, Private

(* No two clients ever share an Agent, and so a memory.                    *)
THEOREM ClientsApartHolds == ConversationSpec => []ClientsApart
BY Apart, ConversationHolds, PTL

(* Turns of one Agent overlap only when a client gave up on one of them.   *)
THEOREM OverlapHolds == ConversationSpec => []OverlapOnlyAfterTimeout
<1>1. ConversationInv => OverlapOnlyAfterTimeout
  <2> SUFFICES ASSUME ConversationInv, NEW r \in Requests, NEW q \in Requests,
                      UnderWay(r), UnderWay(q), agentOf[r] = agentOf[q],
                      fate[r] # "abandoned", fate[q] # "abandoned"
               PROVE  r = q
    BY DEF OverlapOnlyAfterTimeout
  <2>1. \A m \in {r, q} : fate[m] = "waiting" /\ call[sender[m]] = m
    BY DEF UnderWay, ConversationInv, ClientInv, ClientTypes, Sent, Fates
  <2>2. agentOf[r] # None
    BY DEF UnderWay, ConversationInv, RoutedInv, Routed
  <2>3. sender[r] = sender[q]
    BY <2>2, Apart DEF ClientsApart
  <2> QED BY <2>1, <2>3
<1> QED BY <1>1, ConversationHolds, PTL

(* A conversation no client holds and no open call is about is never taken *)
(* up again, however late its turns end.                                   *)
THEOREM LostForGoodHolds == ConversationSpec => LostForGood
<1>1. ConversationInv /\ [ConversationNext]_convVars
         => [\A k \in Contexts : Lost(k) => Lost(k)']_convVars
  <2> SUFFICES ASSUME ConversationInv, [ConversationNext]_convVars, NEW k \in Contexts, Lost(k)
               PROVE  Lost(k)'
    OBVIOUS
  <2>0. TypeOK /\ ClientTypes /\ OwnTask /\ Held
    BY DEF ConversationInv, ClientInv, RoutedInv
  <2>1. PICK m \in Requests : ctx[m] = k
    BY DEF Lost
  <2>2. pc[m] # "idle" /\ pc[k] # "idle" /\ k \in Requests
    BY <2>0, <2>1, ExecutorAssumption DEF OwnTask
  <2>3. ASSUME NEW c \in Clients, NEW r \in Requests, NEW fresh \in BOOLEAN, Talk(c, r, fresh)
        PROVE  Lost(k)'
    <3>1. /\ pc[r] = "idle" /\ ctx' = [ctx EXCEPT ![r] = ContextFor(c, r, fresh)]
          /\ call' = [call EXCEPT ![c] = r] /\ UNCHANGED stored
      BY <2>3, TalkIsAccept DEF AcceptNew, Talk
    <3>2. ContextFor(c, r, fresh) # k
      BY <2>2, <3>1 DEF ContextFor, Lost
    <3>3. ctx'[m] = k /\ ctx'[r] # k
      BY <2>0, <2>1, <2>2, <3>1, <3>2 DEF TypeOK
    <3>4. \A d \in Clients : call'[d] # None => ctx'[call'[d]] # k
      <4> SUFFICES ASSUME NEW d \in Clients, call'[d] # None PROVE ctx'[call'[d]] # k
        OBVIOUS
      <4>1. CASE d = c
        BY <2>0, <3>1, <3>3, <4>1 DEF ClientTypes
      <4>2. CASE d # c
        <5>1. call'[d] = call[d] /\ call[d] # None /\ pc[call[d]] # "idle"
          BY <2>0, <3>1, <4>2 DEF ClientTypes, Held
        <5> QED BY <2>0, <3>1, <5>1 DEF Lost, TypeOK
      <4> QED BY <4>1, <4>2
    <3> QED BY <3>1, <3>3, <3>4 DEF Lost
  <2>4. ASSUME NEW c \in Clients, Receive(c) \/ Raise(c) \/ GiveUp(c) \/ Reset(c)
        PROVE  Lost(k)'
    <3>1. UNCHANGED ctx /\ (call' = [call EXCEPT ![c] = None] \/ UNCHANGED call)
      BY <2>4 DEF Receive, Raise, GiveUp, Reset, CallEnds, vars
    <3>2. \/ UNCHANGED stored
          \/ stored' = [stored EXCEPT ![c] = None]
          \/ call[c] # None /\ stored' = [stored EXCEPT ![c] = ctx[call[c]]]
      BY <2>4 DEF Receive, Raise, GiveUp, Reset
    <3>3. \A d \in Clients : stored'[d] # k
      BY <2>0, <3>2, ExecutorAssumption DEF Lost, ClientTypes
    <3>4. \A d \in Clients : call'[d] # None => call'[d] = call[d]
      BY <2>0, <3>1 DEF ClientTypes
    <3> QED BY <3>1, <3>3, <3>4 DEF Lost
  <2>5. ASSUME NEW r \in Requests, Serve(r) PROVE Lost(k)'
    <3>1. UNCHANGED <<ctx, stored, call>>
      BY <2>5, ServeView DEF Serve, clientVars, ServerView, ConversationInv, ClientInv
    <3> QED BY <3>1 DEF Lost
  <2>6. CASE UNCHANGED convVars
    BY <2>6 DEF convVars, vars, clientVars, Lost
  <2> QED BY <2>3, <2>4, <2>5, <2>6 DEF ConversationNext
<1> QED BY <1>1, ConversationHolds, PTL DEF ConversationSpec, LostForGood
=============================================================================
