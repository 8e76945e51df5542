--------------------------- MODULE SessionProofs ---------------------------
(***************************************************************************)
(* The session for any number of messages and rounds: with a client that   *)
(* sends one message at a time, matching an output by position and by the  *)
(* pending call means one and the same call.                               *)
(***************************************************************************)
EXTENDS Session, TerminalBenchProofs

(* The handler's own invariants, which hold under any client.              *)
TurnInv == TypeOK /\ GateInv /\ SlotInv /\ SrcInv

ClientTypes ==
    /\ client \in {"new", "waiting", "done", "aborted"}
    /\ waiting \in Requests \cup {NoReq}
    /\ sent \in [Requests -> Messages]

(* One turn at a time: the one of the last message, whose call is pending. *)
OneTurn ==
    \A r \in Requests :
        /\ pc[r] \notin {"idle", "done"} => r = waiting /\ updater = r
        /\ resp[r].kind = "none" <=> pc[r] # "done"
        /\ resp[r].kind # "exec" => resp[r].of = NoCall
        /\ pc[r] \in {"critic", "judged"} => pending = ThisCall(r)
        /\ pc[r] = "idle" => sent[r].of = NoCall

Begun ==
    /\ client = "new" => history = <<>> /\ \A r \in Requests : pc[r] = "idle"
    /\ client # "new" => waiting \in Requests /\ pc[waiting] # "idle"

(* A command that was sent has its placeholder, a slot follows its call,   *)
(* and an output is marked with the message it came in.                    *)
Memory ==
    /\ PlaceholderIsPending
    /\ client # "new" /\ resp[waiting].kind = "exec" =>
          \E i \in DOMAIN history : IsPlaceholder(history[i])
    /\ NoOutputLost
    /\ Attribution
    /\ \A i \in DOMAIN history :
          /\ IsSlot(history[i]) => history[i - 1].of = history[i].of
          /\ history[i].body = "result" <=> history[i].src # NoReq

SessionInv == TurnInv /\ ClientTypes /\ OneTurn /\ Begun /\ Memory
-----------------------------------------------------------------------------
LEMMA SessionStutters == [SessionNext]_sessionVars => [Next]_vars
BY DEF SessionNext, Next, SendTask, SendExecResult, AgentStep, Begin, ReceiveFinal,
       ReceiveFailure, TimeOut, sessionVars

(* The handler's specification is implemented by the session: what is      *)
(* proved of the handler for any client holds for this one.                *)
THEOREM SessionImplementsTurns == SessionSpec => Spec
<1>1. SessionInit => Init
  BY DEF SessionInit
<1> QED BY <1>1, SessionStutters, PTL DEF SessionSpec, Spec

LEMMA TurnInit == Init => GateInv /\ SlotInv /\ SrcInv
BY DEF Init, GateInv, GateSafety, SlotInv, SlotsOf, Sent, SrcInv, ResultStoredOnce, Response

(* The handler's invariants, from its own proofs.                          *)
THEOREM TurnsHold == Spec => []TurnInv
BY TurnInit, TypeCorrect, GateStep, SlotStep, SourceStep, PTL DEF Spec, TurnInv
-----------------------------------------------------------------------------
(* An entry that is neither a slot nor an output.                          *)
Plain(e) == e.body \notin {"placeholder", "result"} /\ e.src = NoReq

(* The history got nothing but plain entries.                              *)
GrownPlain ==
    /\ DOMAIN history \subseteq DOMAIN history'
    /\ \A i \in DOMAIN history : i - 1 \in DOMAIN history \/ i - 1 = 0
    /\ \A i \in DOMAIN history : history'[i] = history[i]
    /\ \A i \in DOMAIN history' : i \in DOMAIN history \/ Plain(history'[i])

LEMMA PlainAppended ==
    ASSUME TypeOK, NEW e \in Entries, NEW f \in Entries, Plain(e), Plain(f),
           \/ UNCHANGED history
           \/ history' = Append(history, e)
           \/ history' = Append(Append(history, e), f)
    PROVE  GrownPlain
<1>1. history \in Seq(Entries) /\ Len(history) \in Nat /\ DOMAIN history = 1..Len(history)
  BY LenProperties DEF TypeOK
<1>2. CASE UNCHANGED history
  BY <1>1, <1>2 DEF GrownPlain
<1>3. CASE history' = Append(history, e)
  <2>1. /\ DOMAIN history' = 1..(Len(history) + 1)
        /\ \A i \in DOMAIN history : history'[i] = history[i]
        /\ history'[Len(history) + 1] = e
    BY <1>1, <1>3, AppendKeeps, LenProperties
  <2> QED BY <1>1, <2>1 DEF GrownPlain
<1>4. CASE history' = Append(Append(history, e), f)
  <2>1. /\ DOMAIN history' = 1..(Len(history) + 2)
        /\ \A i \in DOMAIN history : history'[i] = history[i]
        /\ history'[Len(history) + 1] = e
        /\ history'[Len(history) + 2] = f
    BY <1>1, <1>4, AppendKeeps, LenProperties
  <2> QED BY <1>1, <2>1 DEF GrownPlain
<1> QED BY <1>2, <1>3, <1>4

LEMMA ContinueHistory ==
    ASSUME TypeOK, NEW r \in Requests, Continue(r)
    PROVE  GrownPlain \/ (pc[r] = "judged" /\ Approve(r))
<1> USE DEF AddMessage, AddToolCallAndResponse
<1>1. ThisCall(r) \in CallIds
  BY ControlTypes
<1>2. /\ PlanEntry \in Entries /\ Plain(PlanEntry)
      /\ \A body \in {"text", "final", "call"}, c \in CallIds \cup {NoCall} :
            ActorEntry(body, c) \in Entries /\ Plain(ActorEntry(body, c))
      /\ \A body \in {"nudge", "badargs", "rejected"}, c \in CallIds \cup {NoCall} :
            ToolEntry(body, c) \in Entries /\ Plain(ToolEntry(body, c))
  BY DEF Entries, PlanEntry, ActorEntry, ToolEntry, Plain
<1>3. CASE UNCHANGED history
  BY <1>2, <1>3, PlainAppended
<1>4. CASE AddPlan(r)
  BY <1>2, <1>4, PlainAppended DEF AddPlan
<1>5. CASE HandleText(r)
  BY <1>2, <1>5, PlainAppended DEF HandleText
<1>6. CASE HandleFinal(r)
  BY <1>1, <1>2, <1>6, PlainAppended DEF HandleFinal
<1>7. CASE HandleBadArguments(r)
  BY <1>1, <1>2, <1>7, PlainAppended DEF HandleBadArguments
<1>8. CASE Reject(r)
  BY <1>1, <1>2, <1>8, PlainAppended DEF Reject
<1> QED BY <1>3, <1>4, <1>5, <1>6, <1>7, <1>8
    DEF Continue, PlannerReply, ActorReply, CallFails, HandleReply, SubmitToCritic, CriticReply,
        HandleVerdict, shared
-----------------------------------------------------------------------------
LEMMA ControlStep ==
    ASSUME SessionInv, [SessionNext]_sessionVars PROVE (ClientTypes /\ OneTurn /\ Begun)'
<1>0. /\ TypeOK /\ ClientTypes /\ OneTurn /\ Begun
      /\ \A r \in Requests : resp[r] \in Responses /\ resp[r].of \in CallIds \cup {NoCall}
      /\ NoReq \notin Requests
  BY MemoryAssumption DEF SessionInv, TurnInv, TypeOK, Responses
<1>1. ASSUME NEW r \in Requests, SendTask(r) PROVE (ClientTypes /\ OneTurn /\ Begun)'
  <2>1. /\ client = "new" /\ pc[r] = "idle" /\ updater' = r /\ waiting' = r
        /\ client' = "waiting" /\ pc' = [pc EXCEPT ![r] = "planner"]
        /\ sent' = [sent EXCEPT ![r] = Message("task", NoCall)]
        /\ UNCHANGED <<pending, history, round, resp>>
    BY <1>1 DEF SendTask, BeginTask, GoTo
  <2>2. ClientTypes'
    BY <1>0, <2>1 DEF ClientTypes, Messages, Message
  <2>3. Begun'
    BY <1>0, <2>1 DEF Begun, TypeOK
  <2>4. OneTurn'
    BY <1>0, <2>1 DEF OneTurn, Begun, TypeOK, ThisCall
  <2> QED BY <2>2, <2>3, <2>4
<1>2. ASSUME NEW r \in Requests, SendExecResult(r) PROVE (ClientTypes /\ OneTurn /\ Begun)'
  <2>1. /\ client = "waiting" /\ waiting \in Requests
        /\ resp[waiting].kind \in {"exec", "noop"}
        /\ pc[r] = "idle" /\ updater' = r /\ waiting' = r
        /\ pc' = [pc EXCEPT ![r] = "actor"]
        /\ sent' = [sent EXCEPT ![r] = Message("exec_result", resp[waiting].of)]
        /\ UNCHANGED <<client, round, resp>>
    BY <1>0, <1>2 DEF SendExecResult, BeginExecResult, GoTo, Begun
  <2>2. \A q \in Requests : pc[q] \in {"idle", "done"}
    BY <1>0, <2>1 DEF OneTurn
  <2>3. ClientTypes'
    BY <1>0, <2>1 DEF ClientTypes, Messages, Message
  <2>4. Begun'
    BY <1>0, <2>1 DEF Begun, TypeOK
  <2>5. OneTurn'
    BY <1>0, <2>1, <2>2 DEF OneTurn, TypeOK, ThisCall
  <2> QED BY <2>3, <2>4, <2>5
<1>3. ASSUME NEW r \in Requests, AgentStep(r) PROVE (ClientTypes /\ OneTurn /\ Begun)'
  <2>1. UNCHANGED <<client, waiting, sent>> /\ Continue(r)
    BY <1>3 DEF AgentStep, clientVars
  <2>2. /\ pc[r] \notin {"idle", "done"} /\ pc'[r] # "idle"
        /\ UNCHANGED updater
        /\ \A q \in Requests \ {r} :
              pc'[q] = pc[q] /\ resp'[q] = resp[q] /\ round'[q] = round[q]
        /\ \/ pc'[r] # "done" /\ resp'[r] = resp[r]
           \/ /\ pc'[r] = "done"
              /\ \E kind \in {"noop", "final", "failed"} : resp'[r] = Response(kind, NoCall)
           \/ pc[r] = "judged" /\ Approve(r)
        /\ pc'[r] \in {"critic", "judged"} =>
              /\ round'[r] = round[r]
              /\ \/ pending' = ThisCall(r)
                 \/ UNCHANGED pending /\ pc[r] = "critic"
    BY <1>0, <2>1, ContinueControl
  <2>3. /\ resp'[r].kind = "none" <=> pc'[r] # "done"
        /\ resp'[r].kind # "exec" => resp'[r].of = NoCall
    <3>1. CASE pc'[r] # "done" /\ resp'[r] = resp[r]
      BY <1>0, <2>2, <3>1 DEF OneTurn
    <3>2. CASE pc'[r] = "done" /\ \E kind \in {"noop", "final", "failed"} :
                                     resp'[r] = Response(kind, NoCall)
      BY <3>2 DEF Response
    <3>3. CASE Approve(r)
      <4>1. resp'[r] = Response("exec", ThisCall(r)) /\ pc'[r] = "done"
        BY <1>0, <3>3 DEF Approve, Return, GoTo, TypeOK
      <4> QED BY <4>1 DEF Response
    <3> QED BY <2>2, <3>1, <3>2, <3>3
  <2>4. \A q \in Requests \ {r} : pc[q] \in {"idle", "done"}
    BY <1>0, <2>2 DEF OneTurn
  <2>5. r = waiting /\ updater = r
    BY <1>0, <2>2 DEF OneTurn
  <2>6. pc'[r] \in {"critic", "judged"} => pending' = ThisCall(r)'
    BY <1>0, <2>2 DEF OneTurn, ThisCall
  <2>7. OneTurn'
    BY <1>0, <2>1, <2>2, <2>3, <2>4, <2>5, <2>6 DEF OneTurn
  <2>8. (ClientTypes /\ Begun)'
    BY <1>0, <2>1, <2>2, <2>5 DEF ClientTypes, Begun
  <2> QED BY <2>7, <2>8
<1>4. CASE ReceiveFinal \/ ReceiveFailure \/ TimeOut
  <2>1. /\ UNCHANGED <<waiting, sent, pc, resp, updater, pending, history, round>>
        /\ client = "waiting" /\ client' \in {"done", "aborted"}
    BY <1>4 DEF ReceiveFinal, ReceiveFailure, TimeOut, vars
  <2> QED BY <1>0, <2>1 DEF ClientTypes, OneTurn, Begun, ThisCall
<1>5. CASE UNCHANGED sessionVars
  BY <1>0, <1>5 DEF sessionVars, vars, clientVars, ClientTypes, OneTurn, Begun, ThisCall
<1> QED BY <1>1, <1>2, <1>3, <1>4, <1>5 DEF SessionNext
-----------------------------------------------------------------------------
(* While a turn runs there is no placeholder.                              *)
LEMMA NoneOpen ==
    ASSUME SessionInv, NEW r \in Requests, pc[r] \notin {"idle", "done"}
    PROVE  \A i \in DOMAIN history : ~IsPlaceholder(history[i])
<1>1. r = waiting /\ resp[r].kind = "none"
  BY DEF SessionInv, OneTurn
<1>2. \A i \in Placeholders(history) : resp[waiting].kind = "exec"
  BY DEF SessionInv, Memory, PlaceholderIsPending, Response
<1> QED BY <1>1, <1>2 DEF Placeholders

(* A slot has its call right before it.                                    *)
LEMMA SlotsAfterCalls ==
    ASSUME SessionInv
    PROVE  /\ history \in Seq(Entries) /\ Len(history) \in Nat
           /\ DOMAIN history = 1..Len(history)
           /\ \A i \in DOMAIN history : history[i] \in Entries
           /\ \A i \in DOMAIN history : IsSlot(history[i]) =>
                 i - 1 \in DOMAIN history /\ history[i - 1].role = "ai"
<1>1. history \in Seq(Entries) /\ Len(history) \in Nat /\ DOMAIN history = 1..Len(history)
  BY LenProperties DEF SessionInv, TurnInv, TypeOK
<1>2. \A i \in DOMAIN history : history[i] \in Entries
  BY <1>1, ElementOfSeq
<1>3. \A i \in DOMAIN history : IsSlot(history[i]) => i > 1 /\ history[i - 1].role = "ai"
  BY DEF SessionInv, TurnInv, SlotInv, SlotsOf
<1> QED BY <1>1, <1>2, <1>3

LEMMA MemoryPlain ==
    ASSUME SessionInv, NEW r \in Requests, Continue(r), GrownPlain, ~Approve(r),
           UNCHANGED clientVars
    PROVE  Memory'
<1>0. TypeOK /\ OneTurn /\ Memory /\ Begun
  BY DEF SessionInv, TurnInv
<1>1. \A i \in DOMAIN history : ~IsPlaceholder(history[i])
  BY <1>0, ContinueControl, NoneOpen
<1>2. \A i \in DOMAIN history' : ~IsPlaceholder(history'[i])
  BY <1>1 DEF GrownPlain, Plain, IsPlaceholder
<1>3. r = waiting /\ resp'[r].kind # "exec"
  <2>1. r = waiting /\ resp[r].kind # "exec"
    BY <1>0, ContinueControl DEF OneTurn
  <2>2. \/ resp'[r] = resp[r]
        \/ \E kind \in {"noop", "final", "failed"} : resp'[r] = Response(kind, NoCall)
    BY <1>0, ContinueControl
  <2> QED BY <2>1, <2>2 DEF Response
<1>4. UNCHANGED <<client, waiting, sent>>
  BY DEF clientVars
<1>5. PlaceholderIsPending'
  BY <1>2 DEF PlaceholderIsPending, Placeholders
<1>6. NoOutputLost'
  BY <1>0, <1>4 DEF Memory, NoOutputLost, GrownPlain
<1>7. Attribution'
  <2> SUFFICES ASSUME NEW i \in DOMAIN history', history'[i].body = "result"
      PROVE /\ history'[i].of = sent[history'[i].src].of
            /\ history'[i].role = "tool" => history'[i - 1].of = history'[i].of
    BY <1>4 DEF Attribution
  <2>1. i \in DOMAIN history /\ history'[i] = history[i]
    BY DEF GrownPlain, Plain
  <2>2. /\ history[i].of = sent[history[i].src].of
        /\ history[i].role = "tool" => history[i - 1].of = history[i].of
    BY <1>0, <2>1 DEF Memory, Attribution
  <2>3. history[i].role = "tool" => history'[i - 1] = history[i - 1]
    BY <2>1, SlotsAfterCalls DEF GrownPlain, IsSlot
  <2> QED BY <2>1, <2>2, <2>3
<1>8. \A i \in DOMAIN history' :
         /\ IsSlot(history'[i]) => history'[i - 1].of = history'[i].of
         /\ history'[i].body = "result" <=> history'[i].src # NoReq
  <2> SUFFICES ASSUME NEW i \in DOMAIN history'
      PROVE /\ IsSlot(history'[i]) => history'[i - 1].of = history'[i].of
            /\ history'[i].body = "result" <=> history'[i].src # NoReq
    OBVIOUS
  <2>1. CASE i \in DOMAIN history
    <3>1. history'[i] = history[i]
      BY <2>1 DEF GrownPlain
    <3>2. IsSlot(history[i]) => history'[i - 1] = history[i - 1]
      BY <2>1, SlotsAfterCalls DEF GrownPlain
    <3> QED BY <1>0, <2>1, <3>1, <3>2 DEF Memory
  <2>2. CASE Plain(history'[i])
    BY <2>2 DEF Plain, IsSlot
  <2> QED BY <2>1, <2>2 DEF GrownPlain
<1> QED BY <1>3, <1>4, <1>5, <1>6, <1>7, <1>8 DEF Memory

(* An approval opens the one placeholder, for the pending call.            *)
LEMMA ApprovedHistory ==
    ASSUME SessionInv, NEW r \in Requests, Approve(r)
    PROVE  /\ ThisCall(r) \in CallIds
           /\ DOMAIN history' = 1..(Len(history) + 2) /\ Len(history') = Len(history) + 2
           /\ \A i \in DOMAIN history : history'[i] = history[i]
           /\ history'[Len(history) + 1] = ActorEntry("call", ThisCall(r))
           /\ history'[Len(history) + 2] = ToolEntry("placeholder", ThisCall(r))
<1>1. ThisCall(r) \in CallIds
  BY ControlTypes DEF SessionInv, TurnInv
<1>2. /\ history' = Append(Append(history, ActorEntry("call", ThisCall(r))),
                            ToolEntry("placeholder", ThisCall(r)))
      /\ ActorEntry("call", ThisCall(r)) \in Entries
      /\ ToolEntry("placeholder", ThisCall(r)) \in Entries
  BY <1>1, EntryTypes DEF Approve, AddToolCallAndResponse
<1> QED BY <1>1, <1>2, SlotsAfterCalls, AppendKeeps, LenProperties

LEMMA MemoryApproved ==
    ASSUME SessionInv, NEW r \in Requests, pc[r] = "judged", Approve(r), UNCHANGED clientVars
    PROVE  Memory'
<1> DEFINE n == Len(history)
           c == ThisCall(r)
<1>0. TypeOK /\ OneTurn /\ Memory /\ Begun
  BY DEF SessionInv, TurnInv
<1>1. \A i \in DOMAIN history : ~IsPlaceholder(history[i])
  BY NoneOpen
<1>2. /\ r = waiting /\ pending = c /\ pending' = pending /\ resp'[r] = Response("exec", c)
      /\ UNCHANGED <<client, waiting, sent>>
  BY <1>0 DEF OneTurn, Approve, Return, clientVars, TypeOK
<1>4. /\ DOMAIN history' = 1..(n + 2)
      /\ \A i \in DOMAIN history : history'[i] = history[i]
      /\ history'[n + 1] = ActorEntry("call", c)
      /\ history'[n + 2] = ToolEntry("placeholder", c)
  BY ApprovedHistory
<1> HIDE DEF c
<1>5. /\ n \in Nat /\ DOMAIN history = 1..n
      /\ \A i \in DOMAIN history' : i \in DOMAIN history \/ i = n + 1 \/ i = n + 2
      /\ n + 1 \in DOMAIN history' /\ n + 2 \in DOMAIN history'
      /\ (n + 2) - 1 = n + 1
      /\ \A i \in DOMAIN history : i \in DOMAIN history'
  BY <1>4, SlotsAfterCalls
<1> HIDE DEF n
<1>6. /\ ~IsPlaceholder(history'[n + 1]) /\ ~IsSlot(history'[n + 1])
      /\ IsPlaceholder(history'[n + 2])
      /\ history'[n + 1].of = c /\ history'[n + 2].of = c
      /\ history'[n + 1].body # "result" /\ history'[n + 1].src = NoReq
      /\ history'[n + 2].body # "result" /\ history'[n + 2].src = NoReq
  BY <1>4 DEF ActorEntry, ToolEntry, IsPlaceholder, IsSlot
<1>7. \A i \in DOMAIN history' : IsPlaceholder(history'[i]) => i = n + 2
  BY <1>1, <1>4, <1>5, <1>6
<1>8. PlaceholderIsPending'
  BY <1>2, <1>6, <1>7 DEF PlaceholderIsPending, Placeholders
<1>9. NoOutputLost'
  BY <1>0, <1>2, <1>4, <1>5 DEF Memory, NoOutputLost
<1>10. \A i \in DOMAIN history : IsSlot(history[i]) => history'[i - 1] = history[i - 1]
  BY <1>4, SlotsAfterCalls
<1>11. Attribution'
  <2> SUFFICES ASSUME NEW i \in DOMAIN history', history'[i].body = "result"
      PROVE /\ history'[i].of = sent[history'[i].src].of
            /\ history'[i].role = "tool" => history'[i - 1].of = history'[i].of
    BY <1>2 DEF Attribution
  <2>1. i \in DOMAIN history /\ history'[i] = history[i]
    BY <1>4, <1>5, <1>6
  <2>2. /\ history[i].of = sent[history[i].src].of
        /\ history[i].role = "tool" => history[i - 1].of = history[i].of
    BY <1>0, <2>1 DEF Memory, Attribution
  <2>3. history[i].role = "tool" => IsSlot(history[i])
    BY <2>1 DEF IsSlot
  <2> QED BY <1>10, <2>1, <2>2, <2>3
<1>12. \A i \in DOMAIN history' :
         /\ IsSlot(history'[i]) => history'[i - 1].of = history'[i].of
         /\ history'[i].body = "result" <=> history'[i].src # NoReq
  <2> SUFFICES ASSUME NEW i \in DOMAIN history'
      PROVE /\ IsSlot(history'[i]) => history'[i - 1].of = history'[i].of
            /\ history'[i].body = "result" <=> history'[i].src # NoReq
    OBVIOUS
  <2>1. CASE i \in DOMAIN history
    BY <1>0, <1>4, <1>10, <2>1 DEF Memory
  <2>2. CASE i = n + 1
    BY <1>6, <2>2
  <2>3. CASE i = n + 2
    BY <1>5, <1>6, <2>3
  <2> QED BY <1>5, <2>1, <2>2, <2>3
<1> QED BY <1>5, <1>6, <1>8, <1>9, <1>11, <1>12 DEF Memory

(* Before a message begins: no output in the history is its own, and what  *)
(* it is recorded to report is nothing.                                    *)
LEMMA NotYetSent ==
    ASSUME SessionInv, NEW r \in Requests, pc[r] = "idle", NEW m \in Messages,
           sent' = [sent EXCEPT ![r] = m]
    PROVE  /\ sent' \in [Requests -> Messages] /\ sent'[r] = m
           /\ \A q \in Requests \ {r} : sent'[q] = sent[q]
           /\ resp[r].kind = "none"
           /\ \A i \in DOMAIN history :
                 history[i].src # NoReq =>
                    history[i].src \in Requests /\ sent'[history[i].src] = sent[history[i].src]
<1>1. sent \in [Requests -> Messages] /\ resp[r].kind = "none"
  BY DEF SessionInv, ClientTypes, OneTurn
<1>2. \A i \in DOMAIN history :
         history[i].src # NoReq => history[i].src \in Requests /\ pc[history[i].src] # "idle"
  <2>1. \A i \in DOMAIN history : history[i] \in Entries
    BY SlotsAfterCalls
  <2>2. \A e \in Entries : e.src \in Requests \cup {NoReq}
    BY DEF Entries
  <2> QED BY <2>1, <2>2 DEF SessionInv, TurnInv, SrcInv
<1> QED BY <1>1, <1>2

(* The task message changes no history, and there is none yet.             *)
LEMMA MemoryTask ==
    ASSUME SessionInv, NEW r \in Requests, SendTask(r)
    PROVE  Memory'
<1>1. /\ pc[r] = "idle" /\ history = <<>> /\ UNCHANGED <<history, pending, resp>>
      /\ waiting' = r /\ sent' = [sent EXCEPT ![r] = Message("task", NoCall)]
      /\ Message("task", NoCall) \in Messages /\ Message("task", NoCall).of = NoCall
      /\ \A q \in Requests : sent[q].of = NoCall
  BY DEF SessionInv, Begun, OneTurn, SendTask, BeginTask, Messages, Message
<1>2. \A q \in Requests : sent'[q].of = NoCall
  BY <1>1, NotYetSent
<1>3. DOMAIN history' = {}
  BY <1>1
<1>4. resp'[waiting'].kind # "exec"
  BY <1>1, NotYetSent
<1> QED BY <1>2, <1>3, <1>4
    DEF Memory, PlaceholderIsPending, Placeholders, NoOutputLost, Attribution

(* The output of the approved call meets the one placeholder.              *)
LEMMA FilledHistory ==
    ASSUME SessionInv, NEW r \in Requests, SendExecResult(r), resp[waiting].kind = "exec"
    PROVE  /\ resp[waiting] = Response("exec", pending)
           /\ resp[waiting].of = pending /\ pending \in CallIds /\ pending # NoCall
           /\ DOMAIN history' = DOMAIN history
           /\ \E k \in DOMAIN history :
                 /\ IsPlaceholder(history[k])
                 /\ Placeholders(history) = {k} /\ history[k].of = pending
                 /\ history'[k] = ToolResult(pending, r)
                 /\ \A i \in DOMAIN history : i # k => history'[i] = history[i]
<1>0. TypeOK /\ OneTurn /\ Memory /\ Begun /\ GateSafety /\ waiting \in Requests
  BY DEF SessionInv, TurnInv, GateInv, Begun, SendExecResult
<1>1. /\ client = "waiting"
      /\ history' = IF pending # NoCall
                    THEN FillLastPlaceholder(history, pending, r)
                    ELSE AddMessage(history, HumanResult(r))
  BY DEF SendExecResult, BeginExecResult
<1>2. PICK k \in DOMAIN history : IsPlaceholder(history[k])
  BY <1>0, <1>1 DEF Memory
<1>3. /\ Placeholders(history) = {k} /\ history[k].of = pending
      /\ resp[waiting] = Response("exec", pending)
  BY <1>0, <1>2 DEF Memory, PlaceholderIsPending, Placeholders
<1>4. resp[waiting].of = pending /\ pending \in CallIds /\ pending # NoCall
  <2>1. resp[waiting].of = ThisCall(waiting)
    BY <1>0 DEF GateSafety
  <2>2. ThisCall(waiting) \in CallIds
    BY <1>0, ControlTypes
  <2> QED BY <1>3, <2>1, <2>2, MemoryAssumption DEF Response, CallIds
<1>5. /\ history' = FillLastPlaceholder(history, pending, r)
      /\ DOMAIN history' = DOMAIN history
  BY <1>1, <1>4 DEF FillLastPlaceholder
<1>6. /\ history'[k] = ToolResult(pending, r)
      /\ \A i \in DOMAIN history : i # k => history'[i] = history[i]
  <2>1. \A i \in DOMAIN history :
           history'[i] = IF IsPlaceholder(history[i]) /\ \A j \in Placeholders(history) : j <= i
                         THEN ToolResult(pending, r) ELSE history[i]
    BY <1>5 DEF FillLastPlaceholder
  <2>2. k <= k
    BY <1>2, SlotsAfterCalls
  <2>3. \A i \in DOMAIN history : i # k => ~IsPlaceholder(history[i])
    BY <1>3 DEF Placeholders
  <2> QED BY <1>2, <1>3, <2>1, <2>2, <2>3
<1> QED BY <1>2, <1>3, <1>4, <1>5, <1>6

LEMMA MemoryFilled ==
    ASSUME SessionInv, NEW r \in Requests, SendExecResult(r), resp[waiting].kind = "exec"
    PROVE  Memory'
<1>0. OneTurn /\ Memory /\ Begun /\ waiting \in Requests
  BY DEF SessionInv, Begun, SendExecResult
<1>1. /\ client = "waiting" /\ pc[r] = "idle"
      /\ waiting' = r /\ UNCHANGED <<client, resp>>
      /\ sent' = [sent EXCEPT ![r] = Message("exec_result", resp[waiting].of)]
  BY DEF SendExecResult, BeginExecResult
<1>2. PICK k \in DOMAIN history :
         /\ IsPlaceholder(history[k])
         /\ Placeholders(history) = {k} /\ history[k].of = pending
         /\ history'[k] = ToolResult(pending, r)
         /\ \A i \in DOMAIN history : i # k => history'[i] = history[i]
  BY FilledHistory
<1>3. Placeholders(history) = {k} /\ history[k].of = pending
  BY <1>2
<1>4. resp[waiting].of = pending /\ pending \in CallIds /\ pending # NoCall
  BY FilledHistory
<1>5. DOMAIN history' = DOMAIN history
  BY FilledHistory
<1>6. /\ history'[k] = ToolResult(pending, r)
      /\ \A i \in DOMAIN history : i # k => history'[i] = history[i]
  BY <1>2
<1>7. /\ ToolResult(pending, r).role = "tool" /\ ToolResult(pending, r).body = "result"
      /\ ToolResult(pending, r).of = pending /\ ToolResult(pending, r).src = r
      /\ ~IsPlaceholder(ToolResult(pending, r)) /\ r # NoReq
  BY MemoryAssumption DEF ToolResult, IsPlaceholder
<1>8. /\ Message("exec_result", resp[waiting].of) \in Messages
      /\ Message("exec_result", resp[waiting].of).of = pending
  BY <1>4 DEF Messages, Message
<1>9. sent'[r].of = pending /\ resp'[waiting'].kind # "exec"
      /\ \A q \in Requests \ {r} : sent'[q] = sent[q]
  BY <1>1, <1>8, NotYetSent
<1>10. PlaceholderIsPending'
  BY <1>3, <1>5, <1>6, <1>7 DEF PlaceholderIsPending, Placeholders
<1>11. history[k].src = NoReq
  BY <1>0, <1>2 DEF Memory, IsPlaceholder
<1>12. NoOutputLost'
  <2> SUFFICES ASSUME NEW q \in Requests, sent'[q].of # NoCall
               PROVE  \E i \in DOMAIN history' : history'[i].src = q
    BY DEF NoOutputLost
  <2>1. CASE q = r
    BY <1>2, <1>5, <1>6, <1>7, <2>1
  <2>2. CASE q # r
    <3>1. PICK i \in DOMAIN history : history[i].src = q
      BY <1>0, <1>9, <2>2 DEF Memory, NoOutputLost
    <3> QED BY <1>5, <1>6, <1>11, <3>1, MemoryAssumption
  <2> QED BY <2>1, <2>2
<1>13. \A i \in DOMAIN history : IsSlot(history[i]) =>
          i - 1 \in DOMAIN history /\ i - 1 # k /\ history'[i - 1] = history[i - 1]
  <2>1. history[k].role # "ai"
    BY <1>2 DEF IsPlaceholder
  <2> QED BY <1>6, <2>1, SlotsAfterCalls
<1>14. IsSlot(history[k]) /\ history'[k - 1].of = pending
  <2>1. IsSlot(history[k])
    BY <1>2 DEF IsPlaceholder, IsSlot
  <2> QED BY <1>0, <1>3, <1>13, <2>1 DEF Memory
<1>15. Attribution'
  <2> SUFFICES ASSUME NEW i \in DOMAIN history', history'[i].body = "result"
      PROVE /\ history'[i].of = sent'[history'[i].src].of
            /\ history'[i].role = "tool" => history'[i - 1].of = history'[i].of
    BY DEF Attribution
  <2>1. CASE i = k
    BY <1>6, <1>7, <1>9, <1>14, <2>1
  <2>2. CASE i # k
    <3>1. i \in DOMAIN history /\ history'[i] = history[i]
      BY <1>5, <1>6, <2>2
    <3>2. /\ history[i].of = sent[history[i].src].of
          /\ history[i].role = "tool" => history[i - 1].of = history[i].of
          /\ history[i].src # NoReq
      BY <1>0, <3>1 DEF Memory, Attribution
    <3>3. sent'[history[i].src] = sent[history[i].src]
      BY <1>1, <1>8, <3>1, <3>2, NotYetSent
    <3>4. history[i].role = "tool" => IsSlot(history[i])
      BY <3>1 DEF IsSlot
    <3> QED BY <1>13, <3>1, <3>2, <3>3, <3>4
  <2> QED BY <2>1, <2>2
<1>16. \A i \in DOMAIN history' :
         /\ IsSlot(history'[i]) => history'[i - 1].of = history'[i].of
         /\ history'[i].body = "result" <=> history'[i].src # NoReq
  <2> SUFFICES ASSUME NEW i \in DOMAIN history'
      PROVE /\ IsSlot(history'[i]) => history'[i - 1].of = history'[i].of
            /\ history'[i].body = "result" <=> history'[i].src # NoReq
    OBVIOUS
  <2>1. CASE i = k
    BY <1>6, <1>7, <1>14, <2>1
  <2>2. CASE i # k
    BY <1>0, <1>5, <1>6, <1>13, <2>2 DEF Memory
  <2> QED BY <2>1, <2>2
<1> QED BY <1>1, <1>9, <1>10, <1>12, <1>15, <1>16 DEF Memory

(* The output of the no-op request fills nothing: with a stale pending     *)
(* call it is dropped, else it becomes a HumanMessage.                     *)
LEMMA ReportedHistory ==
    ASSUME SessionInv, NEW r \in Requests, SendExecResult(r), resp[waiting].kind # "exec"
    PROVE  /\ resp[waiting].of = NoCall
           /\ \A i \in DOMAIN history : ~IsPlaceholder(history[i])
           /\ \A i \in DOMAIN history : i \in DOMAIN history' /\ history'[i] = history[i]
           /\ \A i \in DOMAIN history' : i \in DOMAIN history \/ history'[i] = HumanResult(r)
<1>0. TypeOK /\ OneTurn /\ Memory /\ Begun /\ waiting \in Requests
  BY DEF SessionInv, TurnInv, Begun, SendExecResult
<1>1. history' = IF pending # NoCall
                 THEN FillLastPlaceholder(history, pending, r)
                 ELSE AddMessage(history, HumanResult(r))
  BY DEF SendExecResult, BeginExecResult
<1>2. resp[waiting].of = NoCall
  BY <1>0 DEF OneTurn
<1>3. \A i \in DOMAIN history : ~IsPlaceholder(history[i])
  BY <1>0 DEF Memory, PlaceholderIsPending, Placeholders, Response
<1>4. /\ \A i \in DOMAIN history : i \in DOMAIN history' /\ history'[i] = history[i]
      /\ \A i \in DOMAIN history' : i \in DOMAIN history \/ history'[i] = HumanResult(r)
  <2>1. CASE pending # NoCall
    <3>1. history' = FillLastPlaceholder(history, pending, r)
      BY <1>1, <2>1
    <3> QED BY <1>3, <3>1 DEF FillLastPlaceholder
  <2>2. CASE pending = NoCall
    <3>1. history' = Append(history, HumanResult(r)) /\ HumanResult(r) \in Entries
      BY <1>1, <2>2, EntryTypes DEF AddMessage
    <3>2. /\ DOMAIN history' = 1..(Len(history) + 1)
          /\ \A i \in DOMAIN history : history'[i] = history[i]
          /\ history'[Len(history) + 1] = HumanResult(r)
      BY <3>1, SlotsAfterCalls, AppendKeeps, LenProperties
    <3> QED BY <3>2, SlotsAfterCalls
  <2> QED BY <2>1, <2>2
<1> QED BY <1>2, <1>3, <1>4

LEMMA MemoryReported ==
    ASSUME SessionInv, NEW r \in Requests, SendExecResult(r), resp[waiting].kind # "exec"
    PROVE  Memory'
<1>0. TypeOK /\ OneTurn /\ Memory /\ Begun /\ waiting \in Requests
  BY DEF SessionInv, TurnInv, Begun, SendExecResult
<1>1. /\ client = "waiting" /\ pc[r] = "idle"
      /\ waiting' = r /\ UNCHANGED <<client, resp>>
      /\ sent' = [sent EXCEPT ![r] = Message("exec_result", resp[waiting].of)]
  BY DEF SendExecResult, BeginExecResult
<1>2. resp[waiting].of = NoCall
  BY ReportedHistory
<1>3. /\ Message("exec_result", resp[waiting].of) \in Messages
      /\ Message("exec_result", resp[waiting].of).of = NoCall
  BY <1>2 DEF Messages, Message
<1>4. sent'[r].of = NoCall /\ resp'[waiting'].kind # "exec"
      /\ \A q \in Requests \ {r} : sent'[q] = sent[q]
  BY <1>1, <1>3, NotYetSent
<1>5. \A i \in DOMAIN history : ~IsPlaceholder(history[i])
  BY ReportedHistory
<1>6. /\ HumanResult(r).role = "human"
      /\ HumanResult(r).body = "result" /\ HumanResult(r).of = NoCall
      /\ HumanResult(r).src = r /\ ~IsPlaceholder(HumanResult(r)) /\ ~IsSlot(HumanResult(r))
      /\ r # NoReq
  BY MemoryAssumption DEF HumanResult, IsPlaceholder, IsSlot
<1>7. /\ \A i \in DOMAIN history : i \in DOMAIN history' /\ history'[i] = history[i]
      /\ \A i \in DOMAIN history' : i \in DOMAIN history \/ history'[i] = HumanResult(r)
  BY ReportedHistory
<1>8. PlaceholderIsPending'
  BY <1>5, <1>6, <1>7 DEF PlaceholderIsPending, Placeholders
<1>9. NoOutputLost'
  BY <1>0, <1>4, <1>7 DEF Memory, NoOutputLost
<1>10. \A i \in DOMAIN history : IsSlot(history[i]) => history'[i - 1] = history[i - 1]
  BY <1>7, SlotsAfterCalls
<1>11. Attribution'
  <2> SUFFICES ASSUME NEW i \in DOMAIN history', history'[i].body = "result"
      PROVE /\ history'[i].of = sent'[history'[i].src].of
            /\ history'[i].role = "tool" => history'[i - 1].of = history'[i].of
    BY DEF Attribution
  <2>1. CASE i \in DOMAIN history
    <3>1. /\ history[i].of = sent[history[i].src].of
          /\ history[i].role = "tool" => history[i - 1].of = history[i].of
          /\ history[i].src # NoReq
      BY <1>0, <1>7, <2>1 DEF Memory, Attribution
    <3>2. sent'[history[i].src] = sent[history[i].src]
      BY <1>1, <1>3, <2>1, <3>1, NotYetSent
    <3>3. history[i].role = "tool" => IsSlot(history[i])
      BY <1>7, <2>1 DEF IsSlot
    <3> QED BY <1>7, <1>10, <2>1, <3>1, <3>2, <3>3
  <2>2. CASE history'[i] = HumanResult(r)
    BY <1>4, <1>6, <2>2
  <2> QED BY <1>7, <2>1, <2>2
<1>12. \A i \in DOMAIN history' :
         /\ IsSlot(history'[i]) => history'[i - 1].of = history'[i].of
         /\ history'[i].body = "result" <=> history'[i].src # NoReq
  <2> SUFFICES ASSUME NEW i \in DOMAIN history'
      PROVE /\ IsSlot(history'[i]) => history'[i - 1].of = history'[i].of
            /\ history'[i].body = "result" <=> history'[i].src # NoReq
    OBVIOUS
  <2>1. CASE i \in DOMAIN history
    BY <1>0, <1>7, <1>10, <2>1 DEF Memory
  <2>2. CASE history'[i] = HumanResult(r)
    BY <1>6, <2>2
  <2> QED BY <1>7, <2>1, <2>2
<1> QED BY <1>4, <1>8, <1>9, <1>11, <1>12 DEF Memory
-----------------------------------------------------------------------------
LEMMA MemoryStep == SessionInv /\ [SessionNext]_sessionVars => Memory'
<1> SUFFICES ASSUME SessionInv, [SessionNext]_sessionVars PROVE Memory'
  OBVIOUS
<1>0. TypeOK /\ Memory
  BY DEF SessionInv, TurnInv
<1>1. ASSUME NEW r \in Requests, SendTask(r) PROVE Memory'
  BY <1>1, MemoryTask
<1>2. ASSUME NEW r \in Requests, SendExecResult(r) PROVE Memory'
  BY <1>2, MemoryFilled, MemoryReported
<1>3. ASSUME NEW r \in Requests, AgentStep(r) PROVE Memory'
  <2>1. Continue(r) /\ UNCHANGED clientVars
    BY <1>3 DEF AgentStep
  <2>2. CASE pc[r] = "judged" /\ Approve(r)
    BY <2>1, <2>2, MemoryApproved
  <2>3. CASE ~(pc[r] = "judged" /\ Approve(r))
    <3>1. GrownPlain
      BY <1>0, <2>1, <2>3, ContinueHistory
    <3>2. ~Approve(r)
      <4>1. SUFFICES ASSUME Approve(r) PROVE FALSE
        OBVIOUS
      <4>4. /\ DOMAIN history' = 1..(Len(history) + 2)
            /\ history'[Len(history) + 2] = ToolEntry("placeholder", ThisCall(r))
        BY <4>1, ApprovedHistory
      <4>5. Len(history) + 2 \in DOMAIN history' /\ Len(history) + 2 \notin DOMAIN history
        BY <4>4, SlotsAfterCalls
      <4> QED BY <3>1, <4>4, <4>5 DEF GrownPlain, Plain, ToolEntry
    <3> QED BY <2>1, <3>1, <3>2, MemoryPlain
  <2> QED BY <2>2, <2>3
<1>4. CASE ReceiveFinal \/ ReceiveFailure \/ TimeOut
  <2>1. /\ UNCHANGED <<waiting, sent, resp, pending, history>>
        /\ client = "waiting"
    BY <1>4 DEF ReceiveFinal, ReceiveFailure, TimeOut, vars
  <2> QED BY <1>0, <2>1
      DEF Memory, PlaceholderIsPending, NoOutputLost, Attribution
<1>5. CASE UNCHANGED sessionVars
  BY <1>0, <1>5 DEF sessionVars, vars, clientVars, Memory, PlaceholderIsPending, NoOutputLost,
                    Attribution
<1> QED BY <1>1, <1>2, <1>3, <1>4, <1>5 DEF SessionNext

LEMMA SessionBegins == SessionInit => ClientTypes /\ OneTurn /\ Begun /\ Memory
<1> SUFFICES ASSUME SessionInit PROVE ClientTypes /\ OneTurn /\ Begun /\ Memory
  OBVIOUS
<1>1. ClientTypes
  BY DEF SessionInit, ClientTypes, Messages, Message
<1>2. OneTurn
  BY DEF SessionInit, Init, OneTurn, Response, Message
<1>3. Begun
  BY DEF SessionInit, Init, Begun
<1>4. DOMAIN history = {}
  BY DEF SessionInit, Init
<1>5. Memory
  BY <1>4 DEF SessionInit, Message, Memory, PlaceholderIsPending, Placeholders, NoOutputLost,
              Attribution
<1> QED BY <1>1, <1>2, <1>3, <1>5

(* The inductive invariant: the handler's, one turn at a time, and how the *)
(* history, the pending call and what was sent belong together.            *)
THEOREM SessionHolds == SessionSpec => []SessionInv
<1>1. SessionInv /\ [SessionNext]_sessionVars => (ClientTypes /\ OneTurn /\ Begun /\ Memory)'
  BY ControlStep, MemoryStep
<1> QED BY <1>1, SessionBegins, SessionImplementsTurns, TurnsHold, PTL
    DEF SessionSpec, SessionInv

(* The session's state stays in its types.                                 *)
THEOREM SessionTypes == SessionSpec => []SessionTypeOK
<1>1. SessionInv => SessionTypeOK
  BY DEF SessionInv, TurnInv, ClientTypes, SessionTypeOK
<1> QED BY <1>1, SessionHolds, PTL

(* However long the session: there is at most one open placeholder, and it *)
(* belongs to the pending call and to the request the client answers next. *)
THEOREM PlaceholderHolds == SessionSpec => []PlaceholderIsPending
<1>1. SessionInv => PlaceholderIsPending
  BY DEF SessionInv, Memory
<1> QED BY <1>1, SessionHolds, PTL

(* The output filled in by position is the output of that very call.       *)
THEOREM AttributionHolds == SessionSpec => []Attribution
<1>1. SessionInv => Attribution
  BY DEF SessionInv, Memory
<1> QED BY <1>1, SessionHolds, PTL

(* What an approved command printed is in the history once it is reported. *)
THEOREM NoOutputIsLost == SessionSpec => []NoOutputLost
<1>1. SessionInv => NoOutputLost
  BY DEF SessionInv, Memory
<1> QED BY <1>1, SessionHolds, PTL

(* With one turn at a time the one _updater is that of the calling turn.   *)
THEOREM HeartbeatHolds == SessionSpec => []HeartbeatReachesCaller
<1>1. SessionInv => HeartbeatReachesCaller
  BY DEF SessionInv, OneTurn, HeartbeatReachesCaller
<1> QED BY <1>1, SessionHolds, PTL

(* The history of a session is bounded as that of any client's.            *)
THEOREM SessionHistoryBounded ==
    ASSUME IsFiniteSet(Requests) PROVE SessionSpec => []HistoryBounded
BY SessionImplementsTurns, HistoryIsBounded, PTL
-----------------------------------------------------------------------------
(* The log of the protocol enumerates positions of the history in order.   *)
Rank(S, i) == Cardinality({ j \in S : j <= i })

LEMMA RankOnto ==
    ASSUME NEW S \in SUBSET Nat, IsFiniteSet(S)
    PROVE  \A k \in 1..Cardinality(S) : \E i \in S : Rank(S, i) = k
<1> DEFINE n == Cardinality(S)
           UpTo(i) == { j \in S : j <= i }
           f == [i \in S |-> Rank(S, i)]
<1>1. n \in Nat /\ IsFiniteSet(1..n) /\ Cardinality(1..n) = n
  BY FS_CardinalityType, FS_Interval
<1>2. ASSUME NEW i \in S
      PROVE  Rank(S, i) \in 1..n
  <2>1. /\ UpTo(i) \in SUBSET S /\ i \in UpTo(i)
    OBVIOUS
  <2>2. /\ IsFiniteSet(UpTo(i)) /\ Cardinality(UpTo(i)) \in Nat
        /\ Cardinality(UpTo(i)) <= n /\ Cardinality(UpTo(i)) # 0
    BY <2>1, FS_Subset, FS_CardinalityType, FS_EmptySet
  <2> QED BY <1>1, <2>2 DEF Rank
<1>3. ASSUME NEW i \in S, NEW j \in S, i < j
      PROVE  Rank(S, i) # Rank(S, j)
  <2>1. UpTo(i) \in SUBSET UpTo(j) /\ UpTo(i) # UpTo(j) /\ UpTo(j) \in SUBSET S
    <3>1. j \in UpTo(j) /\ j \notin UpTo(i)
      BY <1>3
    <3>2. \A x \in S : x <= i => x <= j
      BY <1>3
    <3> QED BY <3>1, <3>2
  <2>2. IsFiniteSet(UpTo(j))
    BY <2>1, FS_Subset
  <2>3. Cardinality(UpTo(i)) # Cardinality(UpTo(j))
    BY <2>1, <2>2, FS_Subset
  <2> QED BY <2>3 DEF Rank
<1>4. f \in Injection(S, 1..n)
  <2>1. f \in [S -> 1..n]
    BY <1>2
  <2>2. \A i, j \in S : f[i] = f[j] => i = j
    BY <1>3
  <2> HIDE DEF f, n
  <2> QED BY <2>1, <2>2 DEF Injection, IsInjective
<1>5. f \in Surjection(S, 1..n)
  <2> HIDE DEF f
  <2> QED BY <1>1, <1>4, FS_Injection
<1>6. \A k \in 1..n : \E i \in S : f[i] = k
  <2> HIDE DEF f, n
  <2> QED BY <1>5 DEF Surjection
<1> QED BY <1>6

LEMMA RankInjective ==
    ASSUME NEW S \in SUBSET Nat, IsFiniteSet(S), NEW i \in S, NEW j \in S,
           Rank(S, i) = Rank(S, j)
    PROVE  i = j
<1>1. ASSUME NEW a \in S, NEW b \in S, a < b PROVE Rank(S, a) # Rank(S, b)
  <2> DEFINE UpTo(x) == { y \in S : y <= x }
  <2>1. UpTo(a) \in SUBSET UpTo(b) /\ UpTo(b) \in SUBSET S
    <3>1. \A y \in S : y <= a => y <= b
      BY <1>1
    <3> QED BY <3>1
  <2>2. b \in UpTo(b) /\ b \notin UpTo(a)
    BY <1>1
  <2>3. UpTo(a) # UpTo(b)
    BY <2>2
  <2>4. IsFiniteSet(UpTo(b))
    BY <2>1, FS_Subset
  <2> QED BY <2>1, <2>3, <2>4, FS_Subset DEF Rank
<1>2. i \in Nat /\ j \in Nat
  OBVIOUS
<1> QED BY <1>1, <1>2

LEMMA NthProperties ==
    ASSUME NEW S \in SUBSET Nat, IsFiniteSet(S), NEW k \in 1..Cardinality(S)
    PROVE  /\ Nth(S, k) \in S /\ Rank(S, Nth(S, k)) = k
           /\ \A i \in S : Rank(S, i) = k => i = Nth(S, k)
<1>1. \E i \in S : Rank(S, i) = k
  BY RankOnto
<1>2. Nth(S, k) \in S /\ Rank(S, Nth(S, k)) = k
  BY <1>1 DEF Nth, Rank
<1>3. ASSUME NEW i \in S, Rank(S, i) = k PROVE i = Nth(S, k)
  <2>1. Rank(S, i) = Rank(S, Nth(S, k))
    BY <1>2, <1>3
  <2> QED BY <1>2, <2>1, RankInjective
<1> QED BY <1>2, <1>3

(* A position beyond all others is the last, and keeps the earlier ranks.  *)
LEMMA NthExtended ==
    ASSUME NEW S \in SUBSET Nat, IsFiniteSet(S), NEW x \in Nat, \A i \in S : i < x
    PROVE  /\ Cardinality(S) \in Nat
           /\ Cardinality(S \cup {x}) = Cardinality(S) + 1
           /\ \A k \in 1..Cardinality(S) : Nth(S \cup {x}, k) = Nth(S, k)
           /\ Nth(S \cup {x}, Cardinality(S) + 1) = x
<1> DEFINE T == S \cup {x}
<1>1. /\ T \in SUBSET Nat /\ IsFiniteSet(T) /\ x \notin S
      /\ Cardinality(S) \in Nat /\ Cardinality(T) = Cardinality(S) + 1
  <2>1. x \notin S
    OBVIOUS
  <2> QED BY <2>1, FS_AddElement, FS_CardinalityType
<1>2. ASSUME NEW k \in 1..Cardinality(S) PROVE Nth(T, k) = Nth(S, k)
  <2>1. Nth(S, k) \in S /\ Rank(S, Nth(S, k)) = k
    BY NthProperties
  <2>2. { j \in T : j <= Nth(S, k) } = { j \in S : j <= Nth(S, k) }
    <3>1. Nth(S, k) \in Nat /\ ~(x <= Nth(S, k))
      <4>1. \A i \in S : i \in Nat /\ ~(x <= i)
        OBVIOUS
      <4> QED BY <2>1, <4>1
    <3>2. \A j : j \in T /\ j <= Nth(S, k) <=> j \in S /\ j <= Nth(S, k)
      BY <3>1
    <3> QED BY <3>2
  <2>3. Rank(T, Nth(S, k)) = k
    BY <2>1, <2>2 DEF Rank
  <2>4. k \in 1..Cardinality(T)
    BY <1>1
  <2> HIDE DEF T
  <2>5. \A i \in T : Rank(T, i) = k => i = Nth(T, k)
    BY <1>1, <2>4, NthProperties
  <2> QED BY <2>1, <2>3, <2>5 DEF T
<1>3. Nth(T, Cardinality(S) + 1) = x
  <2>1. { j \in T : j <= x } = T
    <3>1. \A j \in T : j <= x
      OBVIOUS
    <3> HIDE DEF T
    <3> QED BY <3>1
  <2>2. Rank(T, x) = Cardinality(S) + 1
    BY <1>1, <2>1 DEF Rank
  <2>3. Cardinality(S) + 1 \in 1..Cardinality(T)
    BY <1>1
  <2> HIDE DEF T
  <2>4. \A i \in T : Rank(T, i) = Cardinality(S) + 1 => i = Nth(T, Cardinality(S) + 1)
    BY <1>1, <2>3, NthProperties
  <2> QED BY <2>2, <2>4 DEF T
<1> QED BY <1>1, <1>2, <1>3
-----------------------------------------------------------------------------
LEMMA ExecutedIsFinite ==
    ASSUME TypeOK
    PROVE  /\ Executed \in SUBSET Nat /\ IsFiniteSet(Executed)
           /\ Executed \in SUBSET DOMAIN history
           /\ \A i \in Executed : history[i].of \in CallIds \cup {NoCall}
<1>1. /\ Len(history) \in Nat /\ DOMAIN history = 1..Len(history)
      /\ \A i \in DOMAIN history : history[i] \in Entries
  BY LenProperties DEF TypeOK
<1>2. Executed \in SUBSET DOMAIN history
  BY DEF Executed
<1>3. IsFiniteSet(1..Len(history))
  BY <1>1, FS_Interval
<1>4. \A e \in Entries : e.of \in CallIds \cup {NoCall}
  BY DEF Entries
<1>5. IsFiniteSet(Executed)
  BY <1>1, <1>2, <1>3, FS_Subset
<1> QED BY <1>1, <1>2, <1>4, <1>5

(* The log is a sequence of calls, by position in the history.             *)
LEMMA LogProperties ==
    ASSUME TypeOK
    PROVE  /\ Cardinality(Executed) \in Nat
           /\ Log \in Seq(CallIds \cup {NoCall}) /\ Len(Log) = Cardinality(Executed)
           /\ \A k \in 1..Cardinality(Executed) :
                 Nth(Executed, k) \in Executed /\ Log[k] = history[Nth(Executed, k)].of
<1> DEFINE n == Cardinality(Executed)
<1>1. n \in Nat
  BY ExecutedIsFinite, FS_CardinalityType
<1>2. \A k \in 1..n : Nth(Executed, k) \in Executed
  BY ExecutedIsFinite, NthProperties
<1>3. \A k \in 1..n : history[Nth(Executed, k)].of \in CallIds \cup {NoCall}
  BY <1>2, ExecutedIsFinite
<1>4. Log = [k \in 1..n |-> history[Nth(Executed, k)].of]
  BY DEF Log
<1> HIDE DEF n
<1>5. Log \in [1..n -> CallIds \cup {NoCall}]
  BY <1>3, <1>4
<1>6. Log \in Seq(CallIds \cup {NoCall}) /\ Len(Log) = n
  BY <1>1, <1>5
<1> QED BY <1>1, <1>2, <1>4, <1>6 DEF n

LEMMA LogKept ==
    ASSUME TypeOK, Executed' = Executed,
           \A i \in Executed : history'[i].of = history[i].of
    PROVE  Log' = Log
<1>1. Log' = [k \in 1..Cardinality(Executed) |-> history'[Nth(Executed, k)].of]
  BY DEF Log
<1>2. \A k \in 1..Cardinality(Executed) :
         history'[Nth(Executed, k)].of = history[Nth(Executed, k)].of
  BY LogProperties
<1> QED BY <1>1, <1>2 DEF Log

(* An output at a position beyond the others is logged last.               *)
LEMMA LogExtended ==
    ASSUME TypeOK, NEW x \in Nat, NEW c \in CallIds,
           Executed' = Executed \cup {x}, history'[x].of = c,
           \A i \in Executed : i < x /\ history'[i].of = history[i].of
    PROVE  Log' = Append(Log, c)
<1> DEFINE n == Cardinality(Executed)
           Calls == CallIds \cup {NoCall}
<1>1. Log' = [k \in 1..Cardinality(Executed \cup {x}) |->
                 history'[Nth(Executed \cup {x}, k)].of]
  BY DEF Log
<1>2. /\ n \in Nat /\ Cardinality(Executed \cup {x}) = n + 1
      /\ \A k \in 1..n : Nth(Executed \cup {x}, k) = Nth(Executed, k)
      /\ Nth(Executed \cup {x}, n + 1) = x
  BY ExecutedIsFinite, NthExtended
<1>3. /\ Log \in Seq(Calls) /\ Len(Log) = n
      /\ \A k \in 1..n : Nth(Executed, k) \in Executed /\ Log[k] = history[Nth(Executed, k)].of
  BY LogProperties
<1> HIDE DEF n, Calls
<1>4. Log' = [k \in 1..(n + 1) |-> history'[Nth(Executed \cup {x}, k)].of]
  BY <1>1, <1>2
<1>5. /\ \A k \in 1..n : Log'[k] = Log[k]
      /\ Log'[n + 1] = c
  <2>1. /\ \A k \in 1..n : Log'[k] = history'[Nth(Executed \cup {x}, k)].of
        /\ Log'[n + 1] = history'[Nth(Executed \cup {x}, n + 1)].of
    BY <1>2, <1>4
  <2>2. \A k \in 1..n : history'[Nth(Executed, k)].of = history[Nth(Executed, k)].of
    BY <1>3
  <2> QED BY <1>2, <1>3, <2>1, <2>2
<1>6. c \in Calls /\ \A k \in 1..n : Log[k] \in Calls
  BY <1>3, ElementOfSeq DEF Calls
<1>7. Log' \in [1..(n + 1) -> Calls]
  <2>1. \A k \in 1..(n + 1) : Log'[k] \in Calls
    BY <1>2, <1>5, <1>6
  <2> QED BY <1>4, <2>1
<1>8. Log' \in Seq(Calls) /\ Len(Log') = n + 1
  BY <1>2, <1>7
<1>9. /\ Append(Log, c) \in Seq(Calls) /\ Len(Append(Log, c)) = n + 1
      /\ \A k \in 1..n : Append(Log, c)[k] = Log[k]
      /\ Append(Log, c)[n + 1] = c
  BY <1>3, <1>6, AppendProperties
<1>10. \A k \in 1..(n + 1) : Log'[k] = Append(Log, c)[k]
  BY <1>2, <1>5, <1>9
<1> QED BY <1>8, <1>9, <1>10, SeqEqual

LEMMA PlainLogKept == ASSUME TypeOK, GrownPlain PROVE Log' = Log
<1>1. \A i \in Executed : history'[i] = history[i]
  BY ExecutedIsFinite DEF GrownPlain
<1>2. Executed' = Executed
  <2>1. \A i \in Executed : i \in Executed'
    BY <1>1 DEF Executed, GrownPlain
  <2>2. \A i \in Executed' : i \in Executed
    BY DEF Executed, GrownPlain, Plain
  <2> QED BY <2>1, <2>2
<1> QED BY <1>1, <1>2, LogKept
-----------------------------------------------------------------------------
(* What the refinement needs besides: the open placeholder is the last     *)
(* entry, so its output is logged last, and a call that was reported on    *)
(* belongs to a finished turn, so no running turn can issue it again.      *)
OpenLast == \A i \in DOMAIN history : IsPlaceholder(history[i]) => i = Len(history)

Answered == \A q \in Requests : sent[q].of # NoCall => pc[sent[q].of[1]] = "done"

ProtocolInv == SessionInv /\ OpenLast /\ Answered

LEMMA OpenLastStep == ASSUME ProtocolInv, [SessionNext]_sessionVars PROVE OpenLast'
<1>0. SessionInv /\ TypeOK /\ OpenLast
  BY DEF ProtocolInv, SessionInv, TurnInv
<1>1. CASE UNCHANGED history
  BY <1>0, <1>1 DEF OpenLast
<1>2. ASSUME NEW r \in Requests, SendExecResult(r) PROVE OpenLast'
  <2>1. CASE resp[waiting].kind = "exec"
    <3>1. PICK k \in DOMAIN history :
             /\ Placeholders(history) = {k}
             /\ history'[k] = ToolResult(pending, r)
             /\ \A i \in DOMAIN history : i # k => history'[i] = history[i]
      BY <1>0, <1>2, <2>1, FilledHistory
    <3>2. DOMAIN history' = DOMAIN history
      BY <1>0, <1>2, <2>1, FilledHistory
    <3>3. \A i \in DOMAIN history' : ~IsPlaceholder(history'[i])
      BY <3>1, <3>2 DEF Placeholders, ToolResult, IsPlaceholder
    <3> QED BY <3>3 DEF OpenLast
  <2>2. CASE resp[waiting].kind # "exec"
    <3>1. \A i \in DOMAIN history' : ~IsPlaceholder(history'[i])
      BY <1>0, <1>2, <2>2, ReportedHistory DEF HumanResult, IsPlaceholder
    <3> QED BY <3>1 DEF OpenLast
  <2> QED BY <2>1, <2>2
<1>3. ASSUME NEW r \in Requests, AgentStep(r) PROVE OpenLast'
  <2>1. Continue(r) /\ pc[r] \notin {"idle", "done"}
    BY <1>0, <1>3, ContinueControl DEF AgentStep
  <2>2. \A i \in DOMAIN history : ~IsPlaceholder(history[i])
    BY <1>0, <2>1, NoneOpen
  <2>3. CASE Approve(r)
    <3>1. /\ DOMAIN history' = 1..(Len(history) + 2) /\ Len(history') = Len(history) + 2
          /\ \A i \in DOMAIN history : history'[i] = history[i]
          /\ history'[Len(history) + 1] = ActorEntry("call", ThisCall(r))
      BY <1>0, <2>3, ApprovedHistory
    <3>2. ~IsPlaceholder(history'[Len(history) + 1])
      BY <3>1 DEF ActorEntry, IsPlaceholder
    <3>3. \A i \in DOMAIN history' :
             i \in DOMAIN history \/ i = Len(history) + 1 \/ i = Len(history')
      BY <1>0, <3>1, SlotsAfterCalls
    <3> QED BY <2>2, <3>1, <3>2, <3>3 DEF OpenLast
  <2>4. CASE ~Approve(r)
    <3>1. GrownPlain
      BY <1>0, <2>1, <2>4, ContinueHistory
    <3>2. \A i \in DOMAIN history' : ~IsPlaceholder(history'[i])
      BY <2>2, <3>1 DEF GrownPlain, Plain, IsPlaceholder
    <3> QED BY <3>2 DEF OpenLast
  <2> QED BY <2>3, <2>4
<1> QED BY <1>1, <1>2, <1>3
    DEF SessionNext, SendTask, BeginTask, ReceiveFinal, ReceiveFailure, TimeOut, sessionVars, vars

LEMMA AnsweredStep == ASSUME ProtocolInv, [SessionNext]_sessionVars PROVE Answered'
<1>0. /\ SessionInv /\ TypeOK /\ Answered /\ OneTurn /\ GateSafety /\ ClientTypes
      /\ pc \in [Requests -> Phases]
  BY DEF ProtocolInv, SessionInv, TurnInv, GateInv, TypeOK
<1>1. \A q \in Requests : sent[q].of # NoCall => sent[q].of[1] \in Requests
  <2>1. \A m \in Messages : m.of # NoCall => m.of[1] \in Requests
    BY DEF Messages, CallIds
  <2> QED BY <1>0, <2>1 DEF ClientTypes
<1>2. ASSUME NEW r \in Requests, SendTask(r) PROVE Answered'
  <2>1. /\ pc[r] = "idle" /\ pc' = [pc EXCEPT ![r] = "planner"]
        /\ sent' = [sent EXCEPT ![r] = Message("task", NoCall)]
    BY <1>2 DEF SendTask, BeginTask, GoTo
  <2>2. \A q \in Requests : sent'[q].of # NoCall => sent'[q] = sent[q]
    BY <1>0, <2>1 DEF ClientTypes, Message
  <2> QED BY <1>0, <1>1, <2>1, <2>2 DEF Answered
<1>3. ASSUME NEW r \in Requests, SendExecResult(r) PROVE Answered'
  <2>1. /\ pc[r] = "idle" /\ pc' = [pc EXCEPT ![r] = "actor"]
        /\ sent' = [sent EXCEPT ![r] = Message("exec_result", resp[waiting].of)]
        /\ waiting \in Requests
    BY <1>0, <1>3 DEF SendExecResult, BeginExecResult, GoTo, SessionInv, Begun
  <2>2. sent'[r].of = resp[waiting].of /\ \A q \in Requests \ {r} : sent'[q] = sent[q]
    BY <1>0, <2>1 DEF ClientTypes, Message
  <2>3. resp[waiting].of # NoCall => /\ resp[waiting].of[1] = waiting
                                     /\ pc[waiting] = "done"
    <3>1. resp[waiting].of # NoCall => /\ resp[waiting].kind = "exec"
                                       /\ resp[waiting].of = ThisCall(waiting)
      BY <1>0, <2>1 DEF OneTurn, GateSafety
    <3> QED BY <1>0, <2>1, <3>1 DEF OneTurn, ThisCall
  <2>4. \A q \in Requests : pc[q] = "done" => pc'[q] = "done"
    BY <1>0, <2>1
  <2> QED BY <1>0, <1>1, <2>1, <2>2, <2>3, <2>4 DEF Answered
<1>4. ASSUME NEW r \in Requests, AgentStep(r) PROVE Answered'
  <2>1. /\ pc[r] \notin {"idle", "done"}
        /\ \A q \in Requests \ {r} : pc'[q] = pc[q]
        /\ sent' = sent
    BY <1>0, <1>4, ContinueControl DEF AgentStep, clientVars
  <2> QED BY <1>0, <1>1, <2>1 DEF Answered
<1>5. CASE UNCHANGED <<pc, sent>>
  BY <1>0, <1>5 DEF Answered
<1> QED BY <1>2, <1>3, <1>4, <1>5
    DEF SessionNext, ReceiveFinal, ReceiveFailure, TimeOut, sessionVars, vars, clientVars

THEOREM ProtocolInvHolds == SessionSpec => []ProtocolInv
<1>1. SessionInit => OpenLast /\ Answered
  <2>1. SessionInit => DOMAIN history = {} /\ \A q \in Requests : sent[q].of = NoCall
    BY DEF SessionInit, Init, Message
  <2> QED BY <2>1 DEF OpenLast, Answered
<1>2. ProtocolInv /\ [SessionNext]_sessionVars => (OpenLast /\ Answered)'
  BY OpenLastStep, AnsweredStep
<1> QED BY <1>1, <1>2, SessionHolds, PTL DEF SessionSpec, ProtocolInv
-----------------------------------------------------------------------------
(* The task message starts the first turn.                                 *)
LEMMA TaskStarts == ASSUME ProtocolInv, NEW r \in Requests, SendTask(r) PROVE Protocol!Start
<1>0. SessionInv /\ TypeOK /\ OneTurn /\ Begun
  BY DEF ProtocolInv, SessionInv, TurnInv
<1>1. /\ client = "new" /\ client' = "waiting" /\ waiting' = r /\ pc[r] = "idle"
      /\ UNCHANGED <<history, resp>>
      /\ sent' = [sent EXCEPT ![r] = Message("task", NoCall)]
      /\ Message("task", NoCall) \in Messages /\ Message("task", NoCall).of = NoCall
  BY <1>0 DEF SendTask, BeginTask, Messages, Message
<1>2. resp'[r].kind = "none" /\ \A q \in Requests : sent'[q].of = NoCall
  BY <1>0, <1>1, NotYetSent DEF OneTurn, Begun
<1>3. Phase = "new" /\ Phase' = "turn" /\ Outstanding = NoCall /\ Outstanding' = NoCall
  BY <1>1, <1>2 DEF Phase, Outstanding
<1>4. Issued' = Issued
  BY <1>1, <1>2, <1>3 DEF Issued
<1>5. Log' = Log
  BY <1>0, <1>1, LogKept DEF Executed
<1> QED BY <1>3, <1>4, <1>5 DEF Protocol!Start

(* A report ends the client's move, and is logged under its command.       *)
LEMMA ReportRecords ==
    ASSUME ProtocolInv, NEW r \in Requests, SendExecResult(r)
    PROVE  Protocol!Report
<1>0. /\ SessionInv /\ TypeOK /\ OneTurn /\ Begun /\ OpenLast
      /\ waiting \in Requests /\ resp[waiting].of \in CallIds \cup {NoCall}
  BY DEF ProtocolInv, SessionInv, TurnInv, SendExecResult, Begun, TypeOK, Responses
<1>1. /\ client = "waiting" /\ client' = "waiting" /\ waiting' = r /\ pc[r] = "idle"
      /\ resp[waiting].kind \in {"exec", "noop"} /\ resp' = resp
      /\ sent' = [sent EXCEPT ![r] = Message("exec_result", resp[waiting].of)]
      /\ Message("exec_result", resp[waiting].of) \in Messages
      /\ Message("exec_result", resp[waiting].of).of = resp[waiting].of
  BY <1>0 DEF SendExecResult, BeginExecResult, Messages, Message
<1>2. /\ sent[r].of = NoCall /\ sent'[r].of = resp[waiting].of
      /\ \A q \in Requests \ {r} : sent'[q].of = sent[q].of
      /\ resp'[r].kind = "none"
  BY <1>0, <1>1, NotYetSent DEF OneTurn
<1>3. /\ Phase = "client" /\ Phase' = "turn"
      /\ Outstanding = resp[waiting].of /\ Outstanding' = NoCall
  BY <1>1, <1>2 DEF Phase, Outstanding
<1>4. Issued' = Issued
  <2>1. /\ Issued = ({ sent[q].of : q \in Requests } \cup {resp[waiting].of}) \ {NoCall}
        /\ Issued' = ({ sent'[q].of : q \in Requests } \cup {NoCall}) \ {NoCall}
    BY <1>1, <1>3 DEF Issued
  <2>2. ASSUME NEW c, c # NoCall
        PROVE  (\E q \in Requests : c = sent'[q].of)
                  <=> (\E q \in Requests : c = sent[q].of) \/ c = resp[waiting].of
    BY <1>2, <2>2
  <2>3. \A c : c \in Issued' <=> c \in Issued
    BY <2>1, <2>2
  <2> QED BY <2>3
<1>5. Log' = IF Outstanding = NoCall THEN Log ELSE Append(Log, Outstanding)
  <2>1. CASE resp[waiting].kind = "exec"
    <3>1. PICK k \in DOMAIN history :
             /\ IsPlaceholder(history[k])
             /\ history'[k] = ToolResult(pending, r)
             /\ \A i \in DOMAIN history : i # k => history'[i] = history[i]
      BY <1>0, <2>1, FilledHistory
    <3>2. /\ DOMAIN history' = DOMAIN history
          /\ resp[waiting].of = pending /\ pending \in CallIds /\ pending # NoCall
      BY <1>0, <2>1, FilledHistory
    <3>3. k = Len(history) /\ DOMAIN history = 1..Len(history) /\ Len(history) \in Nat
      BY <1>0, <3>1, SlotsAfterCalls DEF OpenLast
    <3>4. /\ history'[k].role = "tool" /\ history'[k].body = "result"
          /\ history'[k].of = pending /\ k \notin Executed
      BY <3>1 DEF ToolResult, Executed, IsPlaceholder
    <3>5. Executed' = Executed \cup {k}
      <4>1. \A i \in DOMAIN history : i \in Executed' <=> i \in Executed \/ i = k
        BY <3>1, <3>2, <3>4 DEF Executed
      <4>2. Executed \in SUBSET DOMAIN history /\ Executed' \in SUBSET DOMAIN history
        BY <3>2 DEF Executed
      <4> QED BY <3>1, <4>1, <4>2
    <3>6. \A i \in Executed : i < k /\ history'[i] = history[i]
      <4>1. \A i \in Executed : i \in DOMAIN history /\ i # k
        BY <3>4 DEF Executed
      <4>2. \A i \in DOMAIN history : i # k => i < k
        BY <3>3
      <4> QED BY <3>1, <4>1, <4>2
    <3>7. k \in Nat
      BY <3>3
    <3>8. Log' = Append(Log, pending)
      BY <1>0, <3>2, <3>4, <3>5, <3>6, <3>7, LogExtended
    <3> QED BY <1>3, <3>2, <3>8
  <2>2. CASE resp[waiting].kind # "exec"
    <3>1. /\ resp[waiting].of = NoCall
          /\ \A i \in DOMAIN history : i \in DOMAIN history' /\ history'[i] = history[i]
          /\ \A i \in DOMAIN history' : i \in DOMAIN history \/ history'[i] = HumanResult(r)
      BY <1>0, <2>2, ReportedHistory
    <3>2. HumanResult(r).role # "tool"
      BY DEF HumanResult
    <3>3. \A i \in Executed : history'[i] = history[i]
      BY <3>1 DEF Executed
    <3>4. Executed' = Executed
      <4>1. \A i \in Executed : i \in Executed'
        BY <3>1 DEF Executed
      <4>2. \A i \in Executed' : i \in Executed
        BY <3>1, <3>2 DEF Executed
      <4> QED BY <4>1, <4>2
    <3> QED BY <1>0, <1>3, <3>1, <3>3, <3>4, LogKept
  <2> QED BY <2>1, <2>2
<1> QED BY <1>3, <1>4, <1>5 DEF Protocol!Report

(* A step of a turn issues a new command, answers with the no-op, or does  *)
(* nothing the client can see; so does a turn whose client has given up.   *)
LEMMA TurnStepImplements ==
    ASSUME ProtocolInv, NEW r \in Requests, AgentStep(r)
    PROVE  [Protocol!Next]_(Protocol!vars)
<1>0. /\ SessionInv /\ TypeOK /\ OneTurn /\ Begun /\ Answered /\ ClientTypes
  BY DEF ProtocolInv, SessionInv, TurnInv
<1>1. /\ Continue(r) /\ UNCHANGED <<client, waiting, sent>>
      /\ pc[r] \notin {"idle", "done"}
      /\ \/ pc'[r] # "done" /\ resp'[r] = resp[r]
         \/ \E kind \in {"noop", "final", "failed"} : resp'[r] = Response(kind, NoCall)
         \/ pc[r] = "judged" /\ Approve(r)
  BY <1>0, ContinueControl DEF AgentStep, clientVars
<1>2. /\ r = waiting /\ resp[r].kind = "none" /\ client # "new"
  BY <1>0, <1>1 DEF OneTurn, Begun
<1>3. Phase \in {"turn", "over"} /\ Outstanding = NoCall
  BY <1>0, <1>2 DEF Phase, Outstanding, ClientTypes
<1>4. /\ Phase' = IF client = "waiting"
                  THEN IF resp'[r].kind \in {"exec", "noop"} THEN "client" ELSE "turn"
                  ELSE "over"
      /\ Phase = IF client = "waiting" THEN "turn" ELSE "over"
  BY <1>1, <1>2 DEF Phase
<1>5. CASE ~(pc[r] = "judged" /\ Approve(r))
  <2>1. Log' = Log
    BY <1>0, <1>1, <1>5, ContinueHistory, PlainLogKept
  <2>2. resp'[r] = resp[r] \/ resp'[r].of = NoCall
    BY <1>1, <1>5 DEF Response
  <2>3. resp[r].of = NoCall
    BY <1>0, <1>2 DEF OneTurn
  <2>4. Outstanding' = NoCall
    BY <1>1, <1>2, <2>2, <2>3 DEF Outstanding
  <2>5. Issued' = Issued
    BY <1>1, <1>2, <1>3, <2>4 DEF Issued
  <2>6. CASE Phase' = Phase
    BY <1>3, <2>1, <2>4, <2>5, <2>6 DEF Protocol!vars
  <2>7. CASE Phase' # Phase
    <3>1. Phase = "turn" /\ Phase' = "client"
      BY <1>4, <2>7
    <3> QED BY <1>3, <2>1, <2>4, <2>5, <3>1 DEF Protocol!Next, Protocol!Skip
  <2> QED BY <2>6, <2>7
<1>6. CASE pc[r] = "judged" /\ Approve(r)
  <2> DEFINE c == ThisCall(r)
  <2>1. /\ resp' = [resp EXCEPT ![r] = Response("exec", c)]
        /\ c \in CallIds /\ c # NoCall /\ c[1] = r
    <3>1. c \in CallIds
      BY <1>0, ControlTypes
    <3> QED BY <1>6, <3>1, MemoryAssumption DEF Approve, Return, ThisCall, CallIds
  <2>2. resp'[r].kind = "exec" /\ resp'[r].of = c
    BY <1>0, <2>1 DEF TypeOK, Response
  <2>3. Log' = Log
    <3>1. /\ DOMAIN history' = 1..(Len(history) + 2)
          /\ \A i \in DOMAIN history : history'[i] = history[i]
          /\ history'[Len(history) + 1] = ActorEntry("call", c)
          /\ history'[Len(history) + 2] = ToolEntry("placeholder", c)
      BY <1>0, <1>6, ApprovedHistory
    <3>2. /\ \A i \in DOMAIN history : i \in DOMAIN history'
          /\ \A i \in DOMAIN history' :
                \/ i \in DOMAIN history
                \/ i = Len(history) + 1 \/ i = Len(history) + 2
      BY <1>0, <3>1, SlotsAfterCalls
    <3>3. /\ history'[Len(history) + 1].body # "result"
          /\ history'[Len(history) + 2].body # "result"
      BY <3>1 DEF ActorEntry, ToolEntry
    <3>4. Executed' = Executed
      <4>1. \A i \in Executed : i \in Executed'
        BY <3>1, <3>2 DEF Executed
      <4>2. \A i \in Executed' : i \in Executed
        BY <3>1, <3>2, <3>3 DEF Executed
      <4> QED BY <4>1, <4>2
    <3>5. \A i \in Executed : history'[i].of = history[i].of
      BY <3>1 DEF Executed
    <3> QED BY <1>0, <3>4, <3>5, LogKept
  <2> HIDE DEF c
  <2>4. CASE client = "waiting"
    <3>1. Phase = "turn" /\ Phase' = "client" /\ Outstanding' = c
      BY <1>1, <1>2, <1>4, <2>2, <2>4 DEF Outstanding
    <3>2. /\ Issued = { sent[q].of : q \in Requests } \ {NoCall}
          /\ Issued' = ({ sent[q].of : q \in Requests } \cup {c}) \ {NoCall}
      BY <1>1, <1>2, <1>3, <3>1 DEF Issued
    <3>3. c \notin Issued
      <4>1. \A q \in Requests : sent[q].of = c => pc[r] = "done"
        BY <1>0, <2>1 DEF Answered
      <4> QED BY <1>1, <3>2, <4>1
    <3>4. Issued' = Issued \cup {c}
      BY <2>1, <3>2
    <3>5. Protocol!Issue(c)
      BY <1>3, <2>3, <3>1, <3>3, <3>4 DEF Protocol!Issue
    <3> QED BY <2>1, <3>5 DEF Protocol!Next
  <2>5. CASE client # "waiting"
    <3>1. Phase' = Phase /\ Outstanding' = NoCall
      BY <1>4, <2>5 DEF Outstanding
    <3>2. Issued' = Issued
      BY <1>1, <1>2, <1>3, <3>1 DEF Issued
    <3> QED BY <1>3, <2>3, <3>1, <3>2 DEF Protocol!vars
  <2> QED BY <2>4, <2>5
<1> QED BY <1>5, <1>6

(* The end of the session, whether final, failed or timed out.             *)
LEMMA ClientFinishes ==
    ASSUME ProtocolInv, ReceiveFinal \/ ReceiveFailure \/ TimeOut
    PROVE  Protocol!Finish
<1>1. /\ client = "waiting" /\ client' \in {"done", "aborted"}
      /\ resp[waiting].kind \in {"final", "failed", "none"}
      /\ UNCHANGED <<waiting, sent, resp, history>>
  BY DEF ReceiveFinal, ReceiveFailure, TimeOut, vars
<1>2. Phase = "turn" /\ Phase' = "over" /\ Outstanding = NoCall /\ Outstanding' = NoCall
  BY <1>1 DEF Phase, Outstanding
<1>3. Issued' = Issued
  BY <1>1, <1>2 DEF Issued
<1>4. Log' = Log
  BY <1>1, LogKept DEF Executed, ProtocolInv, SessionInv, TurnInv
<1> QED BY <1>2, <1>3, <1>4 DEF Protocol!Finish

(* Whatever the sizes: commands go out once each, to a client that has     *)
(* nothing else to execute, and every output is recorded under its command *)
(* and after the earlier ones before the next turn starts.                 *)
THEOREM SessionImplementsProtocol == SessionSpec => ImplementsProtocol
<1>1. SessionInit => Protocol!Init
  <2> SUFFICES ASSUME SessionInit PROVE Protocol!Init
    OBVIOUS
  <2>1. client = "new" /\ history = <<>>
    BY DEF SessionInit, Init
  <2>2. Phase = "new" /\ Outstanding = NoCall /\ Issued = {}
    BY <2>1 DEF Phase, Outstanding, Issued
  <2>3. Executed = {}
    BY <2>1 DEF Executed
  <2>4. Log = <<>>
    <3>1. Cardinality(Executed) = 0
      BY <2>3, FS_EmptySet
    <3>2. 1..0 = {}
      OBVIOUS
    <3> QED BY <3>1, <3>2 DEF Log
  <2> QED BY <2>2, <2>4 DEF Protocol!Init
<1>2. ProtocolInv /\ [SessionNext]_sessionVars => [Protocol!Next]_(Protocol!vars)
  <2> SUFFICES ASSUME ProtocolInv, [SessionNext]_sessionVars
               PROVE  [Protocol!Next]_(Protocol!vars)
    OBVIOUS
  <2>1. ASSUME NEW r \in Requests, SendTask(r) PROVE Protocol!Next
    BY <2>1, TaskStarts DEF Protocol!Next
  <2>2. ASSUME NEW r \in Requests, SendExecResult(r) PROVE Protocol!Next
    BY <2>2, ReportRecords DEF Protocol!Next
  <2>3. ASSUME NEW r \in Requests, AgentStep(r) PROVE [Protocol!Next]_(Protocol!vars)
    BY <2>3, TurnStepImplements
  <2>4. ASSUME ReceiveFinal \/ ReceiveFailure \/ TimeOut PROVE Protocol!Next
    BY <2>4, ClientFinishes DEF Protocol!Next
  <2>5. CASE UNCHANGED sessionVars
    <3>1. UNCHANGED <<client, waiting, sent, resp, history>>
      BY <2>5 DEF sessionVars, vars, clientVars
    <3> QED BY <3>1 DEF Protocol!vars, Phase, Outstanding, Issued, Log, Executed
  <2> QED BY <2>1, <2>2, <2>3, <2>4, <2>5 DEF SessionNext
<1> QED BY <1>1, <1>2, ProtocolInvHolds, PTL
    DEF SessionSpec, ImplementsProtocol, Protocol!Spec
-----------------------------------------------------------------------------
(* What every implementation of the protocol keeps.                        *)
Kept ==
    /\ Log \in Seq(CallIds)
    /\ Issued \in SUBSET CallIds
    /\ Outstanding \in Issued \cup {NoCall}
    /\ Protocol!ExactlyOnce

LEMMA KeptStep == Kept /\ [Protocol!Next]_(Protocol!vars) => Kept'
<1> SUFFICES ASSUME Kept, [Protocol!Next]_(Protocol!vars) PROVE Kept'
  OBVIOUS
<1>0. /\ Log \in Seq(CallIds) /\ Issued \in SUBSET CallIds /\ NoCall \notin CallIds
      /\ Outstanding \in Issued \cup {NoCall}
      /\ \A i, j \in DOMAIN Log : Log[i] = Log[j] => i = j
      /\ { Log[i] : i \in DOMAIN Log } = Issued \ {Outstanding}
      /\ Phase # "client" => Outstanding = NoCall
  BY MemoryAssumption DEF Kept, Protocol!ExactlyOnce, CallIds
<1>1. CASE /\ UNCHANGED <<Issued, Log, Outstanding>>
           /\ Phase' = Phase \/ Outstanding = NoCall
  BY <1>0, <1>1 DEF Kept, Protocol!ExactlyOnce
<1>2. CASE \E c \in CallIds : Protocol!Issue(c)
  <2>1. PICK c \in CallIds : Protocol!Issue(c)
    BY <1>2
  <2>2. /\ Phase = "turn" /\ Phase' = "client" /\ c \notin Issued
        /\ Outstanding' = c /\ Issued' = Issued \cup {c} /\ Log' = Log
    BY <2>1 DEF Protocol!Issue
  <2>3. Issued' \ {Outstanding'} = Issued \ {Outstanding}
    BY <1>0, <2>2
  <2> QED BY <1>0, <2>1, <2>2, <2>3 DEF Kept, Protocol!ExactlyOnce
<1>3. CASE Protocol!Report /\ Outstanding # NoCall
  <2> DEFINE c == Outstanding
             n == Len(Log)
  <2>1. /\ Log' = Append(Log, c) /\ Outstanding' = NoCall /\ Issued' = Issued
        /\ c \in Issued /\ c \in CallIds
    BY <1>0, <1>3 DEF Protocol!Report
  <2>2. /\ n \in Nat /\ DOMAIN Log = 1..n
        /\ Log' \in Seq(CallIds) /\ DOMAIN Log' = 1..(n + 1)
        /\ \A i \in 1..n : Log'[i] = Log[i]
        /\ Log'[n + 1] = c
    BY <1>0, <2>1, LenProperties, AppendProperties
  <2> HIDE DEF n
  <2>3. \A i \in 1..(n + 1) : i \in 1..n \/ i = n + 1
    BY <2>2
  <2>4. \A i \in 1..n : Log[i] # c
    BY <1>0, <2>2
  <2>5. \A i, j \in DOMAIN Log' : Log'[i] = Log'[j] => i = j
    BY <1>0, <2>2, <2>3, <2>4
  <2>6. { Log'[i] : i \in DOMAIN Log' } = Issued' \ {Outstanding'}
    <3>1. ASSUME NEW d
          PROVE  (\E i \in DOMAIN Log' : d = Log'[i]) <=> d \in Issued
      <4>1. (\E i \in DOMAIN Log : d = Log[i]) <=> d \in Issued /\ d # c
        BY <1>0
      <4>2. n + 1 \in DOMAIN Log' /\ \A i \in 1..n : i \in DOMAIN Log'
        BY <2>2
      <4> QED BY <2>1, <2>2, <2>3, <4>1, <4>2
    <3>2. Issued' \ {Outstanding'} = Issued
      BY <1>0, <2>1
    <3> QED BY <3>1, <3>2
  <2> QED BY <1>0, <2>1, <2>2, <2>5, <2>6 DEF Kept, Protocol!ExactlyOnce
<1>4. CASE Protocol!Report /\ Outstanding = NoCall
  BY <1>0, <1>4 DEF Protocol!Report, Kept, Protocol!ExactlyOnce
<1>5. CASE Protocol!Start \/ Protocol!Skip \/ Protocol!Finish
  <2>1. UNCHANGED <<Issued, Log, Outstanding>> /\ Phase \in {"new", "turn"}
    BY <1>5 DEF Protocol!Start, Protocol!Skip, Protocol!Finish
  <2> QED BY <1>0, <1>1, <2>1
<1>6. CASE UNCHANGED Protocol!vars
  BY <1>1, <1>6 DEF Protocol!vars
<1> QED BY <1>2, <1>3, <1>4, <1>5, <1>6 DEF Protocol!Next

(* Every command the agent sends is executed and recorded exactly once:    *)
(* while a turn runs, the outputs in the history are those of all commands *)
(* sent so far, each of them once (what the handler's position matching    *)
(* in terminal_bench.py is for).                                           *)
THEOREM CommandsRecordedOnce == SessionSpec => []Protocol!ExactlyOnce
<1>1. Protocol!Init => Kept
  <2> SUFFICES ASSUME Protocol!Init PROVE Kept
    OBVIOUS
  <2>1. Phase = "new" /\ Outstanding = NoCall /\ Issued = {} /\ Log = <<>>
    BY DEF Protocol!Init
  <2>2. Log \in Seq(CallIds) /\ DOMAIN Log = {}
    BY <2>1, EmptySeq
  <2> QED BY <2>1, <2>2 DEF Kept, Protocol!ExactlyOnce
<1>2. Kept => Protocol!ExactlyOnce
  BY DEF Kept
<1> QED BY <1>1, <1>2, KeptStep, SessionImplementsProtocol, PTL
    DEF ImplementsProtocol, Protocol!Spec
=============================================================================
