------------------------ MODULE TerminalBenchProofs ------------------------
(***************************************************************************)
(* Proofs about the turn handler, for any set of messages of a context,    *)
(* any interleaving of their turns and any number of rounds.               *)
(***************************************************************************)
EXTENDS TerminalBench, SequenceTheorems, FiniteSetTheorems, TLAPS

(* The entries the handler builds are entries of the chat history.         *)
LEMMA EntryTypes ==
    ASSUME NEW c \in CallIds \cup {NoCall}, NEW r \in Requests
    PROVE  /\ PlanEntry \in Entries
           /\ \A body \in {"text", "final", "call"} : ActorEntry(body, c) \in Entries
           /\ \A body \in {"nudge", "badargs", "rejected", "placeholder"} :
                 ToolEntry(body, c) \in Entries
           /\ ToolResult(c, r) \in Entries
           /\ HumanResult(r) \in Entries
BY DEF Entries, PlanEntry, ActorEntry, ToolEntry, ToolResult, HumanResult

(* Filling a placeholder keeps the length of the history, and changes at   *)
(* most placeholders, into results.                                        *)
LEMMA FillProperties ==
    ASSUME NEW h \in Seq(Entries), NEW c \in CallIds \cup {NoCall}, NEW r \in Requests
    PROVE  /\ FillLastPlaceholder(h, c, r) \in Seq(Entries)
           /\ Len(FillLastPlaceholder(h, c, r)) = Len(h)
           /\ \A i \in DOMAIN h :
                 \/ FillLastPlaceholder(h, c, r)[i] = h[i]
                 \/ /\ IsPlaceholder(h[i])
                    /\ FillLastPlaceholder(h, c, r)[i] = ToolResult(c, r)
<1> DEFINE f == FillLastPlaceholder(h, c, r)
<1>1. DOMAIN h = 1..Len(h) /\ Len(h) \in Nat
  BY LenProperties
<1>2. DOMAIN f = 1..Len(h)
  BY <1>1 DEF FillLastPlaceholder
<1>3. \A i \in DOMAIN h : \/ f[i] = h[i]
                          \/ IsPlaceholder(h[i]) /\ f[i] = ToolResult(c, r)
  BY DEF FillLastPlaceholder
<1>4. \A i \in 1..Len(h) : f[i] \in Entries
  <2> SUFFICES ASSUME NEW i \in 1..Len(h) PROVE f[i] \in Entries
    OBVIOUS
  <2>1. h[i] \in Entries
    BY ElementOfSeq
  <2> QED BY <1>1, <1>3, <2>1, EntryTypes
<1>5. f = [i \in 1..Len(h) |-> f[i]]
  BY <1>1 DEF FillLastPlaceholder
<1>6. f \in [1..Len(h) -> Entries]
  <2> HIDE DEF f
  <2> QED BY <1>4, <1>5
<1>7. f \in Seq(Entries) /\ Len(f) = Len(h)
  <2> HIDE DEF f
  <2> QED BY <1>1, <1>2, <1>6, LenProperties
<1> QED BY <1>3, <1>7
-----------------------------------------------------------------------------
(* The pieces every action is made of keep the types of pc, round, resp.   *)
LEMMA ControlTypes ==
    ASSUME TypeOK, NEW r \in Requests
    PROVE  /\ ThisCall(r) \in CallIds
           /\ \A phase \in Phases : GoTo(r, phase) => pc' \in [Requests -> Phases]
           /\ \A kind \in {"exec", "noop", "final", "failed"},
                 c \in CallIds \cup {NoCall} :
                 Return(r, kind, c) => /\ pc' \in [Requests -> Phases]
                                       /\ resp' \in [Requests -> Responses]
           /\ NextRound(r) => /\ pc' \in [Requests -> Phases]
                              /\ round' \in [Requests -> 1..MaxRounds]
                              /\ resp' \in [Requests -> Responses]
<1>1. ThisCall(r) \in CallIds
  BY DEF TypeOK, ThisCall, CallIds
<1>2. \A phase \in Phases : GoTo(r, phase) => pc' \in [Requests -> Phases]
  BY DEF TypeOK, GoTo
<1>3. ASSUME NEW kind \in {"exec", "noop", "final", "failed"},
             NEW c \in CallIds \cup {NoCall}, Return(r, kind, c)
      PROVE  pc' \in [Requests -> Phases] /\ resp' \in [Requests -> Responses]
  BY <1>3, <1>2 DEF TypeOK, Return, Response, Responses, Phases
<1>4. ASSUME NextRound(r)
      PROVE  /\ pc' \in [Requests -> Phases]
             /\ round' \in [Requests -> 1..MaxRounds]
             /\ resp' \in [Requests -> Responses]
  <2>1. CASE round[r] < MaxRounds /\ GoTo(r, "actor")
             /\ round' = [round EXCEPT ![r] = @ + 1] /\ UNCHANGED resp
    <3>1. round[r] + 1 \in 1..MaxRounds
      BY <2>1, MemoryAssumption DEF TypeOK
    <3> QED BY <2>1, <3>1, <1>2 DEF TypeOK, Phases
  <2>2. CASE Return(r, "noop", NoCall) /\ UNCHANGED round
    BY <2>2, <1>3 DEF TypeOK
  <2> QED BY <1>4, <2>1, <2>2 DEF NextRound
<1> QED BY <1>1, <1>2, <1>3, <1>4

(* The entries a turn appends keep the type of the history.                *)
LEMMA HistoryTypes ==
    ASSUME TypeOK, NEW r \in Requests
    PROVE  /\ AddMessage(history, PlanEntry) \in Seq(Entries)
           /\ AddMessage(history, HumanResult(r)) \in Seq(Entries)
           /\ AddMessage(history, ActorEntry("final", ThisCall(r))) \in Seq(Entries)
           /\ AddMessage(AddMessage(history, ActorEntry("text", NoCall)),
                         ToolEntry("nudge", NoCall)) \in Seq(Entries)
           /\ \A body \in {"badargs", "rejected", "placeholder"} :
                 AddToolCallAndResponse(history, ActorEntry("call", ThisCall(r)),
                                        ToolEntry(body, ThisCall(r))) \in Seq(Entries)
<1>1. history \in Seq(Entries) /\ ThisCall(r) \in CallIds \cup {NoCall}
  BY ControlTypes DEF TypeOK
<1>2. \A h \in Seq(Entries) : \A e \in Entries : Append(h, e) \in Seq(Entries)
  BY AppendProperties
<1> QED BY <1>1, <1>2, EntryTypes DEF AddMessage, AddToolCallAndResponse

(* The variables keep their types in every step of every turn.             *)
LEMMA TypeStep == TypeOK /\ [Next]_vars => TypeOK'
<1> SUFFICES ASSUME TypeOK, [Next]_vars PROVE TypeOK'
  OBVIOUS
<1> USE DEF Phases
<1>1. ASSUME NEW r \in Requests, BeginTask(r) PROVE TypeOK'
  BY <1>1, ControlTypes DEF TypeOK, BeginTask
<1>2. ASSUME NEW r \in Requests, BeginExecResult(r) PROVE TypeOK'
  <2>1. history' \in Seq(Entries)
    BY <1>2, FillProperties, HistoryTypes DEF TypeOK, BeginExecResult
  <2> QED BY <1>2, <2>1, ControlTypes DEF TypeOK, BeginExecResult
<1>3. ASSUME NEW r \in Requests, BeginUnknown(r) PROVE TypeOK'
  BY <1>3, ControlTypes DEF TypeOK, BeginUnknown
<1>4. ASSUME NEW r \in Requests, BeginGarbage(r) PROVE TypeOK'
  BY <1>4, ControlTypes DEF TypeOK, BeginGarbage
<1>5. ASSUME NEW r \in Requests, CallFails(r) PROVE TypeOK'
  <2>1. PICK kind \in {"noop", "failed"} : Return(r, kind, NoCall)
    BY <1>5 DEF CallFails
  <2> QED BY <1>5, <2>1, ControlTypes DEF TypeOK, CallFails, shared
<1>6. ASSUME NEW r \in Requests, PlannerReply(r) PROVE TypeOK'
  BY <1>5, <1>6, ControlTypes DEF TypeOK, PlannerReply, shared
<1>7. ASSUME NEW r \in Requests, AddPlan(r) PROVE TypeOK'
  BY <1>7, ControlTypes, HistoryTypes DEF TypeOK, AddPlan
<1>8. ASSUME NEW r \in Requests, ActorReply(r) PROVE TypeOK'
  BY <1>5, <1>8, ControlTypes DEF TypeOK, ActorReply, shared
<1>9. ASSUME NEW r \in Requests, HandleReply(r) PROVE TypeOK'
  <2>1. CASE HandleText(r)
    BY <2>1, ControlTypes, HistoryTypes DEF TypeOK, HandleText
  <2>2. CASE HandleFinal(r)
    BY <2>2, ControlTypes, HistoryTypes DEF TypeOK, HandleFinal
  <2>3. CASE HandleBadArguments(r)
    BY <2>3, ControlTypes, HistoryTypes DEF TypeOK, HandleBadArguments
  <2>4. CASE SubmitToCritic(r)
    BY <2>4, ControlTypes DEF TypeOK, SubmitToCritic
  <2> QED BY <1>9, <2>1, <2>2, <2>3, <2>4 DEF HandleReply
<1>10. ASSUME NEW r \in Requests, CriticReply(r) PROVE TypeOK'
  <2>1. PICK v \in CriticOutcomes(reply[r]) : verdict' = [verdict EXCEPT ![r] = v]
    BY <1>10 DEF CriticReply
  <2>2. CriticOutcomes(reply[r]) \subseteq Verdicts
    BY DEF CriticOutcomes, Verdicts
  <2> QED BY <1>10, <2>1, <2>2, ControlTypes DEF TypeOK, CriticReply, shared
<1>11. ASSUME NEW r \in Requests, HandleVerdict(r) PROVE TypeOK'
  <2>1. CASE Approve(r)
    BY <2>1, ControlTypes, HistoryTypes DEF TypeOK, Approve
  <2>2. CASE Reject(r)
    BY <2>2, ControlTypes, HistoryTypes DEF TypeOK, Reject
  <2> QED BY <1>11, <2>1, <2>2 DEF HandleVerdict
<1>12. CASE UNCHANGED vars
  BY <1>12 DEF TypeOK, vars
<1> QED
  BY <1>1, <1>2, <1>3, <1>4, <1>6, <1>7, <1>8, <1>9, <1>10, <1>11, <1>12
  DEF Next, Begin, Continue
-----------------------------------------------------------------------------
(* Type correctness of the turn handler, for every interleaving.           *)
THEOREM TypeCorrect == Spec => []TypeOK
<1>1. Init => TypeOK
  BY MemoryAssumption, EmptySeq
  DEF Init, TypeOK, Phases, Replies, Verdicts, Responses, Response
<1> QED BY <1>1, TypeStep, PTL DEF Spec

(* GateSafety is not inductive: it needs that nothing was returned before  *)
(* the turn is done, and what an approval says while it waits for the      *)
(* heartbeat between the Critic's answer and its use.                      *)
GateInv ==
    /\ GateSafety
    /\ \A r \in Requests :
          /\ resp[r].kind = "exec" => pc[r] = "done"
          /\ pc[r] = "judged" /\ verdict[r] = "approve" => reply[r] = "clean"

(* What the end of a round does to the turn that reaches it, and that it   *)
(* leaves the other turns alone.                                           *)
LEMMA NextRoundEffect ==
    ASSUME TypeOK, NEW r \in Requests, NextRound(r)
    PROVE  /\ pc'[r] \in {"actor", "done"}
           /\ resp'[r] = resp[r] \/ resp'[r].kind = "noop"
           /\ \A q \in Requests \ {r} : /\ pc'[q] = pc[q] /\ round'[q] = round[q]
                                        /\ resp'[q] = resp[q]
BY DEF TypeOK, NextRound, GoTo, Return, Response

LEMMA GateStep == TypeOK /\ GateInv /\ [Next]_vars => GateInv'
<1> SUFFICES ASSUME TypeOK, GateInv, [Next]_vars,
                    NEW q \in Requests
             PROVE  /\ resp'[q].kind = "exec" =>
                          /\ resp'[q].of = ThisCall(q)'
                          /\ reply'[q] = "clean"
                          /\ verdict'[q] = "approve"
                          /\ pc'[q] = "done"
                    /\ pc'[q] = "judged" /\ verdict'[q] = "approve" =>
                          reply'[q] = "clean"
  BY DEF GateInv, GateSafety
<1> DEFINE Goal == /\ resp'[q].kind = "exec" =>
                         /\ resp'[q].of = ThisCall(q)'
                         /\ reply'[q] = "clean"
                         /\ verdict'[q] = "approve"
                         /\ pc'[q] = "done"
                   /\ pc'[q] = "judged" /\ verdict'[q] = "approve" =>
                         reply'[q] = "clean"
<1> USE DEF GateInv, GateSafety, TypeOK, GoTo, ThisCall
<1>1. ASSUME NEW r \in Requests, BeginTask(r) PROVE Goal
  BY <1>1 DEF BeginTask
<1>2. ASSUME NEW r \in Requests, BeginExecResult(r) PROVE Goal
  BY <1>2 DEF BeginExecResult
<1>3. ASSUME NEW r \in Requests, BeginUnknown(r) PROVE Goal
  BY <1>3 DEF BeginUnknown
<1>4. ASSUME NEW r \in Requests, BeginGarbage(r) PROVE Goal
  BY <1>4 DEF BeginGarbage, Return, Response
<1>5. ASSUME NEW r \in Requests, CallFails(r) PROVE Goal
  BY <1>5 DEF CallFails, Return, Response
<1>6. ASSUME NEW r \in Requests, PlannerReply(r) PROVE Goal
  BY <1>5, <1>6 DEF PlannerReply
<1>7. ASSUME NEW r \in Requests, AddPlan(r) PROVE Goal
  BY <1>7 DEF AddPlan
<1>8. ASSUME NEW r \in Requests, ActorReply(r) PROVE Goal
  BY <1>5, <1>8 DEF ActorReply
<1>9. ASSUME NEW r \in Requests, HandleReply(r) PROVE Goal
  <2>1. CASE HandleText(r)
    BY <1>9, <2>1, NextRoundEffect DEF HandleReply, HandleText
  <2>2. CASE HandleFinal(r)
    BY <1>9, <2>2 DEF HandleReply, HandleFinal, Return, Response
  <2>3. CASE HandleBadArguments(r)
    BY <1>9, <2>3, NextRoundEffect DEF HandleReply, HandleBadArguments
  <2>4. CASE SubmitToCritic(r)
    BY <1>9, <2>4 DEF HandleReply, SubmitToCritic, Return, Response
  <2> QED BY <1>9, <2>1, <2>2, <2>3, <2>4 DEF HandleReply
<1>10. ASSUME NEW r \in Requests, CriticReply(r) PROVE Goal
  BY <1>10 DEF CriticReply, CriticOutcomes
<1>11. ASSUME NEW r \in Requests, HandleVerdict(r) PROVE Goal
  <2>1. CASE Approve(r)
    BY <1>11, <2>1 DEF HandleVerdict, Approve, Return, Response
  <2>2. CASE Reject(r)
    BY <1>11, <2>2, NextRoundEffect DEF HandleVerdict, Reject
  <2> QED BY <1>11, <2>1, <2>2 DEF HandleVerdict
<1>12. CASE UNCHANGED vars
  BY <1>12 DEF vars
<1> QED
  BY <1>1, <1>2, <1>3, <1>4, <1>6, <1>7, <1>8, <1>9, <1>10, <1>11, <1>12
  DEF Next, Begin, Continue

(* No command is sent that its own turn's Critic did not approve and the   *)
(* static checker did not pass, however the turns of a context interleave. *)
THEOREM GateIsSafe == Spec => []GateSafety
<1>1. Init => GateInv
  BY DEF Init, GateInv, GateSafety, Response
<1>2. GateInv => GateSafety
  BY DEF GateInv
<1> QED BY <1>1, <1>2, TypeCorrect, GateStep, PTL DEF Spec
-----------------------------------------------------------------------------
(* Every step leaves the history alone, appends what the handler appends,  *)
(* or fills a placeholder.  An output enters with the message it came in.  *)
Starts(r) == r \in Requests /\ pc[r] = "idle" /\ pc'[r] # "idle"

Single == \E e \in Entries : /\ ~IsSlot(e) /\ (e.src # NoReq => Starts(e.src))
                            /\ history' = Append(history, e)

Double == \E e, f \in Entries : /\ ~IsSlot(e) /\ ~IsSlot(f)
                               /\ e.src = NoReq /\ f.src = NoReq
                               /\ history' = Append(Append(history, e), f)

Approved == \E r \in Requests : HandleVerdict(r) /\ Approve(r)

Filled == \E r \in Requests, c \in CallIds \cup {NoCall} :
              Starts(r) /\ history' = FillLastPlaceholder(history, c, r)

HistoryChange == UNCHANGED history \/ Single \/ Double \/ Approved \/ Filled

LEMMA HistoryCases == TypeOK /\ [Next]_vars => HistoryChange
<1> SUFFICES ASSUME TypeOK, [Next]_vars PROVE HistoryChange
  OBVIOUS
<1> USE DEF AddMessage, AddToolCallAndResponse
<1>0. \A body, c : /\ ActorEntry(body, c).src = NoReq
                   /\ ToolEntry(body, c).src = NoReq
  BY DEF ActorEntry, ToolEntry
<1>1. ASSUME NEW r \in Requests, BeginTask(r) PROVE HistoryChange
  BY <1>1 DEF HistoryChange, BeginTask
<1>2. ASSUME NEW r \in Requests, BeginExecResult(r) PROVE HistoryChange
  <2>0. Starts(r)
    BY <1>2 DEF Starts, BeginExecResult, GoTo, TypeOK
  <2>1. CASE pending # NoCall
    BY <1>2, <2>0, <2>1 DEF HistoryChange, Filled, BeginExecResult, TypeOK
  <2>2. CASE pending = NoCall
    <3>1. HumanResult(r) \in Entries /\ ~IsSlot(HumanResult(r))
      BY EntryTypes DEF HumanResult, IsSlot
    <3>2. HumanResult(r).src = r
      BY DEF HumanResult
    <3> QED BY <1>2, <2>0, <2>2, <3>1, <3>2 DEF HistoryChange, Single, BeginExecResult
  <2> QED BY <2>1, <2>2
<1>3. ASSUME NEW r \in Requests, BeginUnknown(r) PROVE HistoryChange
  BY <1>3 DEF HistoryChange, BeginUnknown
<1>4. ASSUME NEW r \in Requests, BeginGarbage(r) PROVE HistoryChange
  BY <1>4 DEF HistoryChange, BeginGarbage
<1>5. ASSUME NEW r \in Requests, PlannerReply(r) PROVE HistoryChange
  BY <1>5 DEF HistoryChange, PlannerReply, CallFails, shared
<1>6. ASSUME NEW r \in Requests, AddPlan(r) PROVE HistoryChange
  <2>1. PlanEntry \in Entries /\ ~IsSlot(PlanEntry) /\ PlanEntry.src = NoReq
    BY EntryTypes DEF PlanEntry, IsSlot
  <2> QED BY <1>6, <2>1 DEF HistoryChange, Single, AddPlan
<1>7. ASSUME NEW r \in Requests, ActorReply(r) PROVE HistoryChange
  BY <1>7 DEF HistoryChange, ActorReply, CallFails, shared
<1>8. ASSUME NEW r \in Requests, HandleReply(r) PROVE HistoryChange
  <2>1. CASE HandleText(r)
    <3>1. ActorEntry("text", NoCall) \in Entries /\ ToolEntry("nudge", NoCall) \in Entries
      BY EntryTypes
    <3>2. ~IsSlot(ActorEntry("text", NoCall)) /\ ~IsSlot(ToolEntry("nudge", NoCall))
      BY DEF ActorEntry, ToolEntry, IsSlot
    <3> QED BY <1>0, <2>1, <3>1, <3>2 DEF HistoryChange, Double, HandleText
  <2>2. CASE HandleFinal(r)
    <3>1. ActorEntry("final", ThisCall(r)) \in Entries
      BY EntryTypes, ControlTypes
    <3>2. ~IsSlot(ActorEntry("final", ThisCall(r)))
      BY DEF ActorEntry, IsSlot
    <3> QED BY <1>0, <2>2, <3>1, <3>2 DEF HistoryChange, Single, HandleFinal
  <2>3. CASE HandleBadArguments(r)
    <3>1. /\ ActorEntry("call", ThisCall(r)) \in Entries
          /\ ToolEntry("badargs", ThisCall(r)) \in Entries
      BY EntryTypes, ControlTypes
    <3>2. /\ ~IsSlot(ActorEntry("call", ThisCall(r)))
          /\ ~IsSlot(ToolEntry("badargs", ThisCall(r)))
      BY DEF ActorEntry, ToolEntry, IsSlot
    <3> QED BY <1>0, <2>3, <3>1, <3>2 DEF HistoryChange, Double, HandleBadArguments
  <2>4. CASE SubmitToCritic(r)
    BY <2>4 DEF HistoryChange, SubmitToCritic
  <2> QED BY <1>8, <2>1, <2>2, <2>3, <2>4 DEF HandleReply
<1>9. ASSUME NEW r \in Requests, CriticReply(r) PROVE HistoryChange
  BY <1>9 DEF HistoryChange, CriticReply, shared
<1>10. ASSUME NEW r \in Requests, HandleVerdict(r) PROVE HistoryChange
  <2>1. CASE Approve(r)
    BY <1>10, <2>1 DEF HistoryChange, Approved
  <2>2. CASE Reject(r)
    <3>1. /\ ActorEntry("call", ThisCall(r)) \in Entries
          /\ ToolEntry("rejected", ThisCall(r)) \in Entries
      BY EntryTypes, ControlTypes
    <3>2. /\ ~IsSlot(ActorEntry("call", ThisCall(r)))
          /\ ~IsSlot(ToolEntry("rejected", ThisCall(r)))
      BY DEF ActorEntry, ToolEntry, IsSlot
    <3> QED BY <1>0, <2>2, <3>1, <3>2 DEF HistoryChange, Double, Reject
  <2> QED BY <1>10, <2>1, <2>2 DEF HandleVerdict
<1>11. CASE UNCHANGED vars
  BY <1>11 DEF HistoryChange, vars
<1> QED
  BY <1>1, <1>2, <1>3, <1>4, <1>5, <1>6, <1>7, <1>8, <1>9, <1>10, <1>11
  DEF Next, Begin, Continue

(* Appending one entry or two keeps what is there.                         *)
LEMMA AppendKeeps ==
    ASSUME NEW h \in Seq(Entries), NEW e \in Entries, NEW f \in Entries
    PROVE  /\ Append(h, e) \in Seq(Entries)
           /\ Len(Append(h, e)) = Len(h) + 1
           /\ \A i \in DOMAIN h : Append(h, e)[i] = h[i]
           /\ Append(h, e)[Len(h) + 1] = e
           /\ Append(Append(h, e), f) \in Seq(Entries)
           /\ Len(Append(Append(h, e), f)) = Len(h) + 2
           /\ \A i \in DOMAIN h : Append(Append(h, e), f)[i] = h[i]
           /\ Append(Append(h, e), f)[Len(h) + 1] = e
           /\ Append(Append(h, e), f)[Len(h) + 2] = f
<1> DEFINE g == Append(h, e)
<1>1. /\ g \in Seq(Entries) /\ Len(g) = Len(h) + 1
      /\ \A i \in 1..Len(h) : g[i] = h[i]
      /\ g[Len(h) + 1] = e
  BY AppendProperties
<1>2. /\ Append(g, f) \in Seq(Entries) /\ Len(Append(g, f)) = Len(g) + 1
      /\ \A i \in 1..Len(g) : Append(g, f)[i] = g[i]
      /\ Append(g, f)[Len(g) + 1] = f
  <2> HIDE DEF g
  <2> QED BY <1>1, AppendProperties
<1>3. Len(h) \in Nat /\ DOMAIN h = 1..Len(h)
  BY LenProperties
<1> QED BY <1>1, <1>2, <1>3

(* The chat history only grows, and only placeholders are ever rewritten.  *)
THEOREM HistoryOnlyGrows == Spec => HistoryGrows
<1>1. ASSUME TypeOK, [Next]_vars PROVE HistoryStep
  <2>1. history \in Seq(Entries) /\ Len(history) \in Nat
    BY <1>1, LenProperties DEF TypeOK
  <2>2. CASE history' = history
    BY <2>1, <2>2 DEF HistoryStep
  <2>3. ASSUME NEW e \in Entries, history' = Append(history, e) PROVE HistoryStep
    BY <2>1, <2>3, AppendKeeps DEF HistoryStep
  <2>4. ASSUME NEW e \in Entries, NEW f \in Entries,
               history' = Append(Append(history, e), f)
        PROVE  HistoryStep
    BY <2>1, <2>4, AppendKeeps DEF HistoryStep
  <2>5. ASSUME NEW r \in Requests, Approve(r) PROVE HistoryStep
    BY <1>1, <2>4, <2>5, EntryTypes, ControlTypes DEF Approve, AddToolCallAndResponse
  <2>6. ASSUME NEW r \in Requests, NEW c \in CallIds \cup {NoCall},
               history' = FillLastPlaceholder(history, c, r)
        PROVE  HistoryStep
    <3>1. /\ Len(history') = Len(history)
          /\ \A i \in DOMAIN history :
                \/ history'[i] = history[i]
                \/ IsPlaceholder(history[i]) /\ history'[i] = ToolResult(c, r)
      BY <2>1, <2>6, FillProperties
    <3>2. ToolResult(c, r).body = "result"
      BY DEF ToolResult
    <3> QED BY <2>1, <3>1, <3>2 DEF HistoryStep
  <2>7. CASE Single
    BY <2>3, <2>7 DEF Single
  <2>8. CASE Double
    BY <2>4, <2>8 DEF Double
  <2>9. CASE Approved
    BY <2>5, <2>9 DEF Approved
  <2>10. CASE Filled
    BY <2>6, <2>10 DEF Filled
  <2> QED BY <1>1, <2>2, <2>7, <2>8, <2>9, <2>10, HistoryCases DEF HistoryChange
<1> QED BY <1>1, TypeCorrect, PTL DEF Spec, HistoryGrows
-----------------------------------------------------------------------------
(* SlotsMatchRequests is the equality of two sets of calls; its two        *)
(* directions say that each slot follows the call of a sent request, and   *)
(* that each sent request has a slot.                                      *)
SlotInv ==
    /\ \A i \in SlotsOf(history) :
          /\ i > 1
          /\ history[i - 1].role = "ai"
          /\ \E q \in Sent : history[i - 1].of = resp[q].of
    /\ \A q \in Sent : \E i \in SlotsOf(history) : history[i - 1].of = resp[q].of

(* A change of the history that adds no slot and keeps every Actor answer. *)
SlotsKept ==
    /\ SlotsOf(history') = SlotsOf(history)
    /\ \A i \in DOMAIN history : history[i].role = "ai" => history'[i] = history[i]

(* A step that sends nothing.                                              *)
SentKept == Sent' = Sent /\ \A q \in Sent : resp'[q] = resp[q]

LEMMA SlotInvKept ==
    ASSUME TypeOK, SlotInv, SlotsKept, SentKept
    PROVE  SlotInv'
<1>1. history \in Seq(Entries) /\ DOMAIN history = 1..Len(history) /\ Len(history) \in Nat
  BY LenProperties DEF TypeOK
<1>2. \A i \in SlotsOf(history) : i > 1 /\ history'[i - 1] = history[i - 1]
  BY <1>1 DEF SlotInv, SlotsKept, SlotsOf
<1>3. \A q \in Sent : resp'[q].of = resp[q].of
  BY DEF SentKept
<1> QED BY <1>2, <1>3 DEF SlotInv, SlotsKept, SentKept

(* The slots of an appended history: those there were, and the new ones.   *)
LEMMA AppendSlots ==
    ASSUME NEW h \in Seq(Entries), NEW e \in Entries, NEW f \in Entries, ~IsSlot(e)
    PROVE  /\ SlotsOf(Append(h, e)) = SlotsOf(h)
           /\ ~IsSlot(f) => SlotsOf(Append(Append(h, e), f)) = SlotsOf(h)
           /\ IsSlot(f) => SlotsOf(Append(Append(h, e), f)) = SlotsOf(h) \cup {Len(h) + 2}
<1> DEFINE g == Append(h, e)
           k == Append(g, f)
<1>1. /\ Len(h) \in Nat /\ DOMAIN h = 1..Len(h)
      /\ DOMAIN g = 1..Len(h) + 1 /\ DOMAIN k = 1..Len(h) + 2
  BY AppendKeeps, LenProperties
<1>2. /\ \A i \in DOMAIN h : g[i] = h[i] /\ k[i] = h[i]
      /\ g[Len(h) + 1] = e /\ k[Len(h) + 1] = e /\ k[Len(h) + 2] = f
  BY AppendKeeps
<1> HIDE DEF g, k
<1>3. /\ SlotsOf(g) = SlotsOf(h)
      /\ ~IsSlot(f) => SlotsOf(k) = SlotsOf(h)
      /\ IsSlot(f) => SlotsOf(k) = SlotsOf(h) \cup {Len(h) + 2}
  BY <1>1, <1>2 DEF SlotsOf
<1> QED BY <1>3 DEF g, k

(* A step that is not an approval sends nothing.                           *)
LEMMA SentUnlessApproved ==
    TypeOK /\ GateInv /\ [Next]_vars => SentKept \/ Approved
<1> SUFFICES ASSUME TypeOK, GateInv, [Next]_vars PROVE SentKept \/ Approved
  OBVIOUS
<1>1. ASSUME NEW r \in Requests, NEW kind \in {"noop", "final", "failed"},
             pc[r] # "done", Return(r, kind, NoCall)
      PROVE  SentKept
  BY <1>1 DEF SentKept, Sent, Return, Response, GateInv, TypeOK
<1>2. ASSUME UNCHANGED resp PROVE SentKept
  BY <1>2 DEF SentKept, Sent
<1>3. ASSUME NEW r \in Requests, Begin(r) PROVE SentKept
  BY <1>1, <1>2, <1>3
  DEF Begin, BeginTask, BeginExecResult, BeginUnknown, BeginGarbage
<1>4. ASSUME NEW r \in Requests, pc[r] # "done", CallFails(r) PROVE SentKept
  BY <1>1, <1>4 DEF CallFails
<1>5. ASSUME NEW r \in Requests, pc[r] # "done", NextRound(r) PROVE SentKept
  BY <1>1, <1>2, <1>5 DEF NextRound
<1>6. ASSUME NEW r \in Requests, Continue(r) PROVE SentKept \/ Approved
  <2>1. CASE PlannerReply(r)
    BY <1>2, <1>4, <2>1 DEF PlannerReply
  <2>2. CASE AddPlan(r)
    BY <1>2, <2>2 DEF AddPlan
  <2>3. CASE ActorReply(r)
    BY <1>2, <1>4, <2>3 DEF ActorReply
  <2>4. CASE HandleReply(r)
    BY <1>1, <1>2, <1>5, <2>4
    DEF HandleReply, HandleText, HandleFinal, HandleBadArguments, SubmitToCritic
  <2>5. CASE CriticReply(r)
    BY <1>2, <2>5 DEF CriticReply
  <2>6. CASE HandleVerdict(r)
    BY <1>5, <2>6 DEF HandleVerdict, Reject, Approved
  <2> QED BY <1>6, <2>1, <2>2, <2>3, <2>4, <2>5, <2>6 DEF Continue
<1>7. CASE UNCHANGED vars
  BY <1>2, <1>7 DEF vars
<1> QED BY <1>3, <1>6, <1>7 DEF Next

(* Filling the last placeholder neither adds nor removes a slot.           *)
LEMMA FillSlots ==
    ASSUME NEW h \in Seq(Entries), NEW c \in CallIds \cup {NoCall}, NEW r \in Requests
    PROVE  /\ SlotsOf(FillLastPlaceholder(h, c, r)) = SlotsOf(h)
           /\ \A i \in DOMAIN h : h[i].role = "ai" => FillLastPlaceholder(h, c, r)[i] = h[i]
<1> DEFINE f == FillLastPlaceholder(h, c, r)
<1>1. DOMAIN f = DOMAIN h
  BY DEF FillLastPlaceholder
<1>2. \A i \in DOMAIN h : \/ f[i] = h[i]
                          \/ IsPlaceholder(h[i]) /\ f[i] = ToolResult(c, r)
  BY FillProperties
<1> HIDE DEF f
<1>3. \A i \in DOMAIN h : IsSlot(f[i]) <=> IsSlot(h[i])
  BY <1>2 DEF IsSlot, IsPlaceholder, ToolResult
<1>4. SlotsOf(f) = SlotsOf(h)
  BY <1>1, <1>3 DEF SlotsOf
<1>5. \A i \in DOMAIN h : h[i].role = "ai" => f[i] = h[i]
  BY <1>2 DEF IsPlaceholder
<1> QED BY <1>4, <1>5 DEF f

LEMMA SlotStep == TypeOK /\ GateInv /\ SlotInv /\ [Next]_vars => SlotInv'
<1> SUFFICES ASSUME TypeOK, GateInv, SlotInv, [Next]_vars PROVE SlotInv'
  OBVIOUS
<1>1. history \in Seq(Entries) /\ Len(history) \in Nat /\ DOMAIN history = 1..Len(history)
  BY LenProperties DEF TypeOK
<1>2. CASE Approved
  <2>1. PICK r \in Requests : HandleVerdict(r) /\ Approve(r)
    BY <1>2 DEF Approved
  <2> DEFINE call == ActorEntry("call", ThisCall(r))
             slot == ToolEntry("placeholder", ThisCall(r))
             new == Len(history) + 2
  <2>2. call \in Entries /\ slot \in Entries
    BY EntryTypes, ControlTypes
  <2>3. ~IsSlot(call) /\ IsSlot(slot) /\ call.role = "ai" /\ call.of = ThisCall(r)
    BY DEF ActorEntry, ToolEntry, IsSlot
  <2>4. history' = Append(Append(history, call), slot)
    BY <2>1 DEF Approve, AddToolCallAndResponse
  <2> HIDE DEF call, slot
  <2>5. /\ SlotsOf(history') = SlotsOf(history) \cup {new}
        /\ \A i \in DOMAIN history : history'[i] = history[i]
        /\ history'[new - 1] = call
    BY <1>1, <2>2, <2>3, <2>4, AppendSlots, AppendKeeps
  <2>6. /\ r \notin Sent /\ Sent' = Sent \cup {r}
        /\ resp'[r].of = ThisCall(r)
        /\ \A q \in Sent : resp'[q] = resp[q]
    BY <2>1 DEF Sent, HandleVerdict, Approve, Return, Response, GateInv, TypeOK
  <2>7. \A i \in SlotsOf(history) : i > 1 /\ history'[i - 1] = history[i - 1]
    BY <1>1, <2>5 DEF SlotInv, SlotsOf
  <2>8. new > 1
    BY <1>1
  <2> HIDE DEF new
  <2> QED BY <2>3, <2>5, <2>6, <2>7, <2>8 DEF SlotInv
<1>3. CASE SentKept /\ ~Approved
  <2> SUFFICES SlotsKept
    BY <1>3, SlotInvKept
  <2>1. CASE UNCHANGED history
    BY <2>1 DEF SlotsKept, SlotsOf
  <2>2. CASE Single
    BY <1>1, <2>2, AppendSlots, AppendKeeps DEF Single, SlotsKept
  <2>3. CASE Double
    BY <1>1, <2>3, AppendSlots, AppendKeeps DEF Double, SlotsKept
  <2>4. CASE Filled
    BY <1>1, <2>4, FillSlots DEF Filled, SlotsKept
  <2> QED BY <1>3, <2>1, <2>2, <2>3, <2>4, HistoryCases DEF HistoryChange
<1> QED BY <1>2, <1>3, SentUnlessApproved

(* The Actor's history has a result slot for exactly the commands that     *)
(* were sent: overlapping turns neither lose one nor open one for a call   *)
(* that was rejected, nudged or never sent.                                *)
THEOREM SlotsAreRequests == Spec => []SlotsMatchRequests
<1>1. Init => GateInv /\ SlotInv
  BY DEF Init, GateInv, GateSafety, SlotInv, SlotsOf, Sent, Response
<1>2. SlotInv => SlotsMatchRequests
  BY DEF SlotInv, SlotsMatchRequests, SlotCalls
<1> QED BY <1>1, <1>2, TypeCorrect, GateStep, SlotStep, PTL DEF Spec
-----------------------------------------------------------------------------
(* An output that is in the history came in a message whose turn began, so *)
(* the output a turn stores as it begins is not there yet.                 *)
SrcInv ==
    /\ ResultStoredOnce
    /\ \A i \in DOMAIN history : history[i].src # NoReq => pc[history[i].src] # "idle"

(* A turn begins once.                                                     *)
LEMMA NeverIdleAgain ==
    TypeOK /\ [Next]_vars => \A q \in Requests : pc[q] # "idle" => pc'[q] # "idle"
<1> SUFFICES ASSUME TypeOK, [Next]_vars, NEW q \in Requests, pc[q] # "idle"
             PROVE  pc'[q] # "idle"
  OBVIOUS
<1>1. ASSUME NEW r \in Requests, NEW phase \in Phases \ {"idle"}, GoTo(r, phase)
      PROVE  pc'[q] # "idle"
  BY <1>1 DEF GoTo, TypeOK
<1>2. ASSUME NEW r \in Requests, Begin(r) PROVE pc'[q] # "idle"
  BY <1>1, <1>2
  DEF Begin, BeginTask, BeginExecResult, BeginUnknown, BeginGarbage, Return, Phases
<1>3. ASSUME NEW r \in Requests, CallFails(r) PROVE pc'[q] # "idle"
  BY <1>1, <1>3 DEF CallFails, Return, Phases
<1>4. ASSUME NEW r \in Requests, NextRound(r) PROVE pc'[q] # "idle"
  BY <1>1, <1>4 DEF NextRound, Return, Phases
<1>5. ASSUME NEW r \in Requests, HandleReply(r) PROVE pc'[q] # "idle"
  BY <1>1, <1>4, <1>5
  DEF HandleReply, HandleText, HandleFinal, HandleBadArguments, SubmitToCritic,
      Return, Phases
<1>6. ASSUME NEW r \in Requests, HandleVerdict(r) PROVE pc'[q] # "idle"
  BY <1>1, <1>4, <1>6 DEF HandleVerdict, Approve, Reject, Return, Phases
<1>7. ASSUME NEW r \in Requests, Continue(r) PROVE pc'[q] # "idle"
  BY <1>1, <1>3, <1>5, <1>6, <1>7
  DEF Continue, PlannerReply, AddPlan, ActorReply, CriticReply, Phases
<1> QED BY <1>2, <1>7 DEF Next, vars

(* The scan fills at most one entry.                                       *)
LEMMA FillOne ==
    ASSUME NEW h \in Seq(Entries), NEW c \in CallIds \cup {NoCall}, NEW r \in Requests
    PROVE  \E k \in Nat : \A i \in DOMAIN h :
              \/ FillLastPlaceholder(h, c, r)[i] = h[i]
              \/ i = k /\ FillLastPlaceholder(h, c, r)[i] = ToolResult(c, r)
<1> DEFINE Last(i) == IsPlaceholder(h[i]) /\ \A j \in Placeholders(h) : j <= i
<1>1. DOMAIN h = 1..Len(h) /\ Len(h) \in Nat
  BY LenProperties
<1>2. \A i \in DOMAIN h : FillLastPlaceholder(h, c, r)[i]
                             = IF Last(i) THEN ToolResult(c, r) ELSE h[i]
  BY DEF FillLastPlaceholder
<1>3. \A i, j \in DOMAIN h : Last(i) /\ Last(j) => i = j
  BY <1>1 DEF Placeholders
<1>4. CASE \E i \in DOMAIN h : Last(i)
  <2>1. PICK k \in DOMAIN h : Last(k)
    BY <1>4
  <2>2. \A i \in DOMAIN h :
           \/ FillLastPlaceholder(h, c, r)[i] = h[i]
           \/ i = k /\ FillLastPlaceholder(h, c, r)[i] = ToolResult(c, r)
    <3> HIDE DEF Last
    <3> QED BY <1>2, <1>3, <2>1
  <2>3. k \in Nat
    BY <1>1
  <2> QED BY <2>2, <2>3
<1>5. CASE ~\E i \in DOMAIN h : Last(i)
  <2>1. \A i \in DOMAIN h : FillLastPlaceholder(h, c, r)[i] = h[i]
    <3> HIDE DEF Last
    <3> QED BY <1>2, <1>5
  <2>2. 0 \in Nat
    OBVIOUS
  <2> QED BY <2>1, <2>2
<1> QED BY <1>4, <1>5

(* A step that changes at most one entry's source, to a message that       *)
(* begins with this step, keeps the invariant.                             *)
LEMMA SourceKept ==
    ASSUME TypeOK, TypeOK', SrcInv, [Next]_vars, NEW k \in Nat,
           \A i \in DOMAIN history' :
              \/ history'[i].src = NoReq
              \/ i = k /\ Starts(history'[i].src)
              \/ i \in DOMAIN history /\ history'[i].src = history[i].src
    PROVE  SrcInv'
<1>1. \A i \in DOMAIN history : history[i].src \in Requests \cup {NoReq}
  <2>1. \A i \in DOMAIN history : history[i] \in Entries
    BY ElementOfSeq, LenProperties DEF TypeOK
  <2> QED BY <2>1 DEF Entries
<1>2. \A i \in DOMAIN history' : history'[i].src # NoReq => pc'[history'[i].src] # "idle"
  BY <1>1, NeverIdleAgain DEF SrcInv, Starts
<1>3. ASSUME NEW i \in DOMAIN history', NEW j \in DOMAIN history',
             history'[i].src = history'[j].src, history'[i].src # NoReq
      PROVE  i = j
  BY <1>3 DEF SrcInv, ResultStoredOnce, Starts
<1> QED BY <1>2, <1>3 DEF SrcInv, ResultStoredOnce

LEMMA SourceStep == TypeOK /\ TypeOK' /\ SrcInv /\ [Next]_vars => SrcInv'
<1> SUFFICES ASSUME TypeOK, TypeOK', SrcInv, [Next]_vars PROVE SrcInv'
  OBVIOUS
<1>1. history \in Seq(Entries) /\ Len(history) \in Nat /\ DOMAIN history = 1..Len(history)
  BY LenProperties DEF TypeOK
<1>2. CASE UNCHANGED history
  BY <1>2, SourceKept
<1>3. CASE Single
  <2>1. PICK e \in Entries : /\ e.src # NoReq => Starts(e.src)
                             /\ history' = Append(history, e)
    BY <1>3 DEF Single
  <2>2. /\ DOMAIN history' = 1..Len(history) + 1
        /\ \A i \in DOMAIN history : history'[i] = history[i]
        /\ history'[Len(history) + 1] = e
    BY <1>1, <2>1, AppendKeeps, LenProperties
  <2>3. \A i \in DOMAIN history' :
           \/ history'[i].src = NoReq
           \/ i = Len(history) + 1 /\ Starts(history'[i].src)
           \/ i \in DOMAIN history /\ history'[i].src = history[i].src
    BY <1>1, <2>1, <2>2
  <2>4. Len(history) + 1 \in Nat
    BY <1>1
  <2> QED BY <2>3, <2>4, SourceKept
<1>4. ASSUME NEW e \in Entries, NEW f \in Entries, e.src = NoReq, f.src = NoReq,
             history' = Append(Append(history, e), f)
      PROVE  SrcInv'
  <2>1. /\ DOMAIN history' = 1..Len(history) + 2
        /\ \A i \in DOMAIN history : history'[i] = history[i]
        /\ history'[Len(history) + 1] = e
        /\ history'[Len(history) + 2] = f
    BY <1>1, <1>4, AppendKeeps, LenProperties
  <2>2. \A i \in DOMAIN history' :
           \/ history'[i].src = NoReq
           \/ i = 0 /\ Starts(history'[i].src)
           \/ i \in DOMAIN history /\ history'[i].src = history[i].src
    BY <1>1, <1>4, <2>1
  <2> QED BY <2>2, SourceKept
<1>5. CASE Double
  BY <1>4, <1>5 DEF Double
<1>6. CASE Approved
  <2>1. PICK r \in Requests : Approve(r)
    BY <1>6 DEF Approved
  <2>2. /\ ActorEntry("call", ThisCall(r)).src = NoReq
        /\ ToolEntry("placeholder", ThisCall(r)).src = NoReq
    BY DEF ActorEntry, ToolEntry
  <2> QED
    BY <1>4, <2>1, <2>2, EntryTypes, ControlTypes DEF Approve, AddToolCallAndResponse
<1>7. CASE Filled
  <2>1. PICK r \in Requests, c \in CallIds \cup {NoCall} :
           Starts(r) /\ history' = FillLastPlaceholder(history, c, r)
    BY <1>7 DEF Filled
  <2>2. PICK k \in Nat : \A i \in DOMAIN history :
           \/ history'[i] = history[i]
           \/ i = k /\ history'[i] = ToolResult(c, r)
    <3>1. \E k \in Nat : \A i \in DOMAIN history :
             \/ FillLastPlaceholder(history, c, r)[i] = history[i]
             \/ /\ i = k
                /\ FillLastPlaceholder(history, c, r)[i] = ToolResult(c, r)
      BY <1>1, FillOne
    <3> QED BY <2>1, <3>1
  <2>3. DOMAIN history' = DOMAIN history /\ ToolResult(c, r).src = r
    BY <2>1 DEF FillLastPlaceholder, ToolResult
  <2> QED BY <2>1, <2>2, <2>3, SourceKept
<1> QED BY <1>2, <1>3, <1>5, <1>6, <1>7, HistoryCases DEF HistoryChange

(* Each exec_result is stored at most once, however many placeholders      *)
(* overlapping turns left open.                                            *)
THEOREM ResultsAreStoredOnce == Spec => []ResultStoredOnce
<1>1. Init => SrcInv
  BY DEF Init, SrcInv, ResultStoredOnce
<1>2. SrcInv => ResultStoredOnce
  BY DEF SrcInv
<1> QED BY <1>1, <1>2, TypeCorrect, SourceStep, PTL DEF Spec
-----------------------------------------------------------------------------
(* HistoryBounded charges the history to what has begun.  It is not        *)
(* inductive: a round is begun before its two entries are written.  The    *)
(* entries are paid by turns that have entered the loop, which is when     *)
(* they wrote their plan or their output, and by rounds that are over,     *)
(* which is when they wrote their pair.                                    *)
Entered == { r \in Requests : pc[r] \notin {"idle", "planner", "planned"} }

RoundsOver ==
    { c \in CallIds : c[2] < round[c[1]] \/ (pc[c[1]] = "done" /\ c[2] = round[c[1]]) }

FirstRound == \A r \in Requests : pc[r] = "idle" => round[r] = 1

Paid == Len(history) <= Cardinality(Entered) + 2 * Cardinality(RoundsOver)

(* A step of one turn: it goes on, through its phases and its rounds.      *)
Advances(r) ==
    /\ pc[r] # "done" /\ pc'[r] # "idle"
    /\ pc[r] \notin {"idle", "planner", "planned"} =>
          pc'[r] \notin {"idle", "planner", "planned"}
    /\ round'[r] >= round[r]
    /\ \A q \in Requests \ {r} : pc'[q] = pc[q] /\ round'[q] = round[q]

EndsRound(r) == round'[r] > round[r] \/ pc'[r] = "done"

(* What the turn adds to the history, and what it pays with.               *)
Pays(r) ==
    \/ Len(history') = Len(history)
    \/ Len(history') = Len(history) + 1 /\ r \in Entered' \ Entered
    \/ Len(history') <= Len(history) + 2 /\ EndsRound(r)

LEMMA LengthAfter ==
    ASSUME TypeOK, NEW e \in Entries, NEW f \in Entries
    PROVE  /\ Len(history) \in Nat
           /\ history' = Append(history, e) => Len(history') = Len(history) + 1
           /\ history' = Append(Append(history, e), f) => Len(history') = Len(history) + 2
BY AppendKeeps, LenProperties DEF TypeOK

LEMMA NextRoundEnds ==
    ASSUME TypeOK, NEW r \in Requests, NextRound(r),
           pc[r] \notin {"idle", "planner", "planned", "done"}
    PROVE  Advances(r) /\ EndsRound(r)
BY MemoryAssumption DEF TypeOK, NextRound, GoTo, Return, Advances, EndsRound

LEMMA ReturnEnds ==
    ASSUME TypeOK, NEW r \in Requests, NEW kind, NEW c, Return(r, kind, c),
           UNCHANGED round, pc[r] # "done"
    PROVE  Advances(r) /\ EndsRound(r)
BY DEF TypeOK, GoTo, Return, Advances, EndsRound

LEMMA BeginPays ==
    ASSUME TypeOK, NEW r \in Requests, Begin(r)
    PROVE  Advances(r) /\ Pays(r)
<1>1. Len(history) \in Nat
  BY LenProperties DEF TypeOK
<1>2. CASE BeginTask(r) \/ BeginUnknown(r)
  BY <1>2 DEF BeginTask, BeginUnknown, GoTo, TypeOK, Advances, Pays
<1>3. CASE BeginGarbage(r)
  BY <1>3, ReturnEnds DEF BeginGarbage, Pays
<1>4. CASE BeginExecResult(r)
  <2>1. Advances(r) /\ r \in Entered' \ Entered
    BY <1>4 DEF BeginExecResult, GoTo, TypeOK, Advances, Entered
  <2>2. CASE pending # NoCall
    <3>1. history' = FillLastPlaceholder(history, pending, r)
      BY <1>4, <2>2 DEF BeginExecResult
    <3>2. Len(history') = Len(history)
      BY <3>1, FillProperties DEF TypeOK
    <3> QED BY <2>1, <3>2 DEF Pays
  <2>3. CASE pending = NoCall
    <3>1. history' = Append(history, HumanResult(r)) /\ HumanResult(r) \in Entries
      BY <1>4, <2>3, EntryTypes DEF BeginExecResult, AddMessage
    <3> QED BY <2>1, <3>1, LengthAfter DEF Pays
  <2> QED BY <2>2, <2>3
<1> QED BY <1>2, <1>3, <1>4 DEF Begin

LEMMA ContinuePays ==
    ASSUME TypeOK, NEW r \in Requests, Continue(r)
    PROVE  Advances(r) /\ Pays(r)
<1> USE DEF AddMessage, AddToolCallAndResponse
<1>1. Len(history) \in Nat /\ ThisCall(r) \in CallIds
  BY ControlTypes, LenProperties DEF TypeOK
<1>2. /\ PlanEntry \in Entries
      /\ \A c \in CallIds \cup {NoCall} :
            /\ \A body \in {"text", "final", "call"} : ActorEntry(body, c) \in Entries
            /\ \A body \in {"nudge", "badargs", "rejected", "placeholder"} :
                  ToolEntry(body, c) \in Entries
  BY DEF Entries, PlanEntry, ActorEntry, ToolEntry
<1>3. ASSUME CallFails(r), pc[r] # "done" PROVE Advances(r) /\ Pays(r)
  BY <1>3, ReturnEnds DEF CallFails, shared, Pays
<1>4. CASE PlannerReply(r)
  BY <1>3, <1>4 DEF PlannerReply, shared, GoTo, TypeOK, Advances, Pays
<1>5. CASE AddPlan(r)
  <2>1. Advances(r) /\ r \in Entered' \ Entered
    BY <1>5 DEF AddPlan, GoTo, TypeOK, Advances, Entered
  <2>2. Len(history') = Len(history) + 1
    BY <1>2, <1>5, LengthAfter DEF AddPlan
  <2> QED BY <2>1, <2>2 DEF Pays
<1>6. CASE ActorReply(r)
  BY <1>3, <1>6 DEF ActorReply, shared, GoTo, TypeOK, Advances, Pays
<1>7. CASE HandleReply(r) /\ HandleText(r)
  <2>1. Len(history') = Len(history) + 2
    BY <1>2, <1>7, LengthAfter DEF HandleText
  <2> QED BY <1>1, <1>7, <2>1, NextRoundEnds DEF HandleReply, HandleText, Pays
<1>8. CASE HandleReply(r) /\ HandleFinal(r)
  <2>1. Len(history') = Len(history) + 1
    BY <1>1, <1>2, <1>8, LengthAfter DEF HandleFinal
  <2> QED BY <1>1, <1>8, <2>1, ReturnEnds DEF HandleReply, HandleFinal, Pays
<1>9. CASE HandleReply(r) /\ HandleBadArguments(r)
  <2>1. Len(history') = Len(history) + 2
    BY <1>1, <1>2, <1>9, LengthAfter DEF HandleBadArguments
  <2> QED BY <1>1, <1>9, <2>1, NextRoundEnds DEF HandleReply, HandleBadArguments, Pays
<1>10. CASE HandleReply(r) /\ SubmitToCritic(r)
  BY <1>10, ReturnEnds DEF HandleReply, SubmitToCritic, GoTo, TypeOK, Advances, Pays
<1>11. CASE CriticReply(r)
  BY <1>11 DEF CriticReply, shared, GoTo, TypeOK, Advances, Pays
<1>12. CASE HandleVerdict(r) /\ Approve(r)
  <2>1. Len(history') = Len(history) + 2
    BY <1>1, <1>2, <1>12, LengthAfter DEF Approve
  <2> QED BY <1>1, <1>12, <2>1, ReturnEnds DEF HandleVerdict, Approve, Pays
<1>13. CASE HandleVerdict(r) /\ Reject(r)
  <2>1. Len(history') = Len(history) + 2
    BY <1>1, <1>2, <1>13, LengthAfter DEF Reject
  <2> QED BY <1>1, <1>13, <2>1, NextRoundEnds DEF HandleVerdict, Reject, Pays
<1> QED BY <1>4, <1>5, <1>6, <1>7, <1>8, <1>9, <1>10, <1>11, <1>12, <1>13
    DEF Continue, HandleReply, HandleVerdict

(* Turns and rounds are only ever added, and a round that ends is new.     *)
LEMMA RoundsGrow ==
    ASSUME TypeOK, TypeOK', NEW r \in Requests, Advances(r)
    PROVE  /\ Entered \subseteq Entered' /\ RoundsOver \subseteq RoundsOver'
           /\ EndsRound(r) => ThisCall(r) \in RoundsOver' \ RoundsOver
<1>1. /\ \A q \in Requests : round[q] \in Nat /\ round'[q] \in Nat
      /\ \A c \in CallIds : c[1] \in Requests /\ c[2] \in Nat
      /\ ThisCall(r) \in CallIds /\ ThisCall(r)[1] = r /\ ThisCall(r)[2] = round[r]
  BY ControlTypes DEF TypeOK, CallIds, ThisCall
<1>2. Entered \subseteq Entered'
  BY DEF Entered, Advances
<1>3. ASSUME NEW c \in RoundsOver PROVE c \in RoundsOver'
  <2>1. c \in CallIds /\ (c[2] < round[c[1]] \/ (pc[c[1]] = "done" /\ c[2] = round[c[1]]))
    BY DEF RoundsOver
  <2>2. CASE c[1] = r
    BY <1>1, <2>1, <2>2 DEF Advances, RoundsOver
  <2>3. CASE c[1] # r
    BY <1>1, <2>1, <2>3 DEF Advances, RoundsOver
  <2> QED BY <2>2, <2>3
<1>4. ASSUME EndsRound(r) PROVE ThisCall(r) \in RoundsOver' \ RoundsOver
  BY <1>1, <1>4 DEF Advances, EndsRound, RoundsOver
<1> QED BY <1>2, <1>3, <1>4

LEMMA PaidStep ==
    ASSUME IsFiniteSet(Requests), TypeOK, TypeOK', Paid, FirstRound, [Next]_vars
    PROVE  Paid' /\ FirstRound'
<1>1. /\ IsFiniteSet(Entered') /\ IsFiniteSet(RoundsOver')
      /\ Len(history) \in Nat /\ Len(history') \in Nat
  <2>1. IsFiniteSet(1..MaxRounds)
    BY MemoryAssumption, FS_Interval
  <2>2. IsFiniteSet(CallIds)
    BY <2>1, FS_Product DEF CallIds
  <2>3. Entered' \in SUBSET Requests /\ RoundsOver' \in SUBSET CallIds
    BY DEF Entered, RoundsOver
  <2> QED BY <2>2, <2>3, FS_Subset, LenProperties DEF TypeOK
<1>2. CASE UNCHANGED vars
  BY <1>2 DEF vars, Paid, FirstRound, Entered, RoundsOver
<1>3. ASSUME NEW r \in Requests, Begin(r) \/ Continue(r) PROVE Paid' /\ FirstRound'
  <2>1. Advances(r) /\ Pays(r)
    BY <1>3, BeginPays, ContinuePays
  <2>2. Entered \in SUBSET Entered' /\ RoundsOver \in SUBSET RoundsOver'
    BY <2>1, RoundsGrow
  <2>3. /\ Cardinality(Entered) \in Nat /\ Cardinality(Entered') \in Nat
        /\ Cardinality(RoundsOver) \in Nat /\ Cardinality(RoundsOver') \in Nat
        /\ Cardinality(Entered) <= Cardinality(Entered')
        /\ Cardinality(RoundsOver) <= Cardinality(RoundsOver')
        /\ Entered # Entered' => Cardinality(Entered) # Cardinality(Entered')
        /\ RoundsOver # RoundsOver' => Cardinality(RoundsOver) # Cardinality(RoundsOver')
    BY <1>1, <2>2, FS_Subset, FS_CardinalityType
  <2>4. EndsRound(r) => RoundsOver # RoundsOver'
    BY <2>1, RoundsGrow
  <2>5. Paid'
    <3>1. CASE Len(history') = Len(history)
      BY <1>1, <2>3, <3>1 DEF Paid
    <3>2. CASE Len(history') = Len(history) + 1 /\ r \in Entered' \ Entered
      <4>1. Entered # Entered'
        BY <3>2
      <4> QED BY <1>1, <2>3, <3>2, <4>1 DEF Paid
    <3>3. CASE Len(history') <= Len(history) + 2 /\ EndsRound(r)
      BY <1>1, <2>3, <2>4, <3>3 DEF Paid
    <3> QED BY <2>1, <3>1, <3>2, <3>3 DEF Pays
  <2>6. FirstRound'
    BY <2>1 DEF Advances, FirstRound
  <2> QED BY <2>5, <2>6
<1> QED BY <1>2, <1>3 DEF Next

LEMMA PaidIsBounded ==
    ASSUME IsFiniteSet(Requests), TypeOK, Paid, FirstRound
    PROVE  HistoryBounded
<1> DEFINE Begun == { r \in Requests : pc[r] # "idle" }
<1>1. IsFiniteSet(CallIds)
  <2>1. IsFiniteSet(1..MaxRounds)
    BY MemoryAssumption, FS_Interval
  <2> QED BY <2>1, FS_Product DEF CallIds
<1>2. Begun \in SUBSET Requests /\ RoundsRun \in SUBSET CallIds
  BY DEF RoundsRun
<1>3. Entered \in SUBSET Begun
  BY DEF Entered
<1>4. RoundsOver \in SUBSET RoundsRun
  <2>1. \A c \in CallIds : c[1] \in Requests /\ c[2] \in Nat /\ c[2] >= 1
    BY MemoryAssumption DEF CallIds
  <2>2. \A r \in Requests : round[r] \in Nat
    BY DEF TypeOK
  <2> QED BY <2>1, <2>2 DEF RoundsOver, RoundsRun, FirstRound
<1>5. /\ Cardinality(Begun) \in Nat /\ Cardinality(RoundsRun) \in Nat
      /\ Cardinality(Entered) \in Nat /\ Cardinality(RoundsOver) \in Nat
      /\ Cardinality(Entered) <= Cardinality(Begun)
      /\ Cardinality(RoundsOver) <= Cardinality(RoundsRun)
  BY <1>1, <1>2, <1>3, <1>4, FS_Subset, FS_CardinalityType
<1>6. Len(history) \in Nat
  BY LenProperties DEF TypeOK
<1> HIDE DEF Begun
<1>7. Len(history) <= Cardinality(Begun) + 2 * Cardinality(RoundsRun)
  BY <1>5, <1>6 DEF Paid
<1> QED BY <1>7 DEF HistoryBounded, Begun

(* Whatever is rejected, nudged, refused or lost on the way, and however   *)
(* turns overlap: the history holds one entry per message and two per      *)
(* round.  A context receives finitely many messages.                      *)
THEOREM HistoryIsBounded == ASSUME IsFiniteSet(Requests) PROVE Spec => []HistoryBounded
<1>1. Init => Paid /\ FirstRound
  <2> SUFFICES ASSUME Init PROVE Paid /\ FirstRound
    OBVIOUS
  <2>1. Entered = {} /\ RoundsOver = {} /\ Len(history) = 0
    <3>1. \A c \in CallIds : c[1] \in Requests /\ c[2] \in Nat /\ ~(c[2] < 1)
      BY MemoryAssumption DEF CallIds
    <3> QED BY <3>1 DEF Init, Entered, RoundsOver
  <2> QED BY <2>1, FS_EmptySet DEF Init, Paid, FirstRound
<1>2. TypeOK /\ TypeOK' /\ Paid /\ FirstRound /\ [Next]_vars => Paid' /\ FirstRound'
  BY PaidStep
<1>3. TypeOK /\ Paid /\ FirstRound => HistoryBounded
  BY PaidIsBounded
<1> QED BY <1>1, <1>2, <1>3, TypeCorrect, PTL DEF Spec
-----------------------------------------------------------------------------
(* The steps a turn may still take: four in each round to come, and those  *)
(* of its present phase.                                                   *)
PhaseSteps(phase) ==
    IF phase = "idle" THEN 7 ELSE IF phase = "planner" THEN 6
    ELSE IF phase = "planned" THEN 5 ELSE IF phase = "actor" THEN 4
    ELSE IF phase = "acted" THEN 3 ELSE IF phase = "critic" THEN 2
    ELSE IF phase = "judged" THEN 1 ELSE 0

StepsLeft(r) == 4 * (MaxRounds - round[r]) + PhaseSteps(pc[r])

(* A step uses up some of its own turn's steps, and none of another's.     *)
UsesUp(r) ==
    /\ StepsLeft(r)' \in Nat /\ StepsLeft(r)' < StepsLeft(r)
    /\ \A q \in Requests \ {r} : StepsLeft(q)' = StepsLeft(q)

LEMMA PhaseUsesUp ==
    ASSUME TypeOK, NEW r \in Requests, NEW phase \in Phases, GoTo(r, phase), UNCHANGED round,
           PhaseSteps(phase) < PhaseSteps(pc[r])
    PROVE  UsesUp(r)
<1>1. /\ round[r] \in 1..MaxRounds /\ MaxRounds \in Nat
      /\ PhaseSteps(phase) \in Nat /\ PhaseSteps(pc[r]) \in Nat
  BY MemoryAssumption DEF TypeOK, PhaseSteps
<1>2. pc'[r] = phase /\ \A q \in Requests \ {r} : pc'[q] = pc[q]
  BY DEF TypeOK, GoTo
<1>3. /\ StepsLeft(r) = 4 * (MaxRounds - round[r]) + PhaseSteps(pc[r])
      /\ StepsLeft(r)' = 4 * (MaxRounds - round[r]) + PhaseSteps(phase)
      /\ \A q \in Requests \ {r} : StepsLeft(q)' = StepsLeft(q)
  BY <1>2 DEF StepsLeft
<1>4. MaxRounds - round[r] \in Nat
  BY <1>1
<1> QED BY <1>1, <1>3, <1>4 DEF UsesUp

LEMMA NextRoundUsesUp ==
    ASSUME TypeOK, NEW r \in Requests, NextRound(r), pc[r] \in {"acted", "judged"}
    PROVE  UsesUp(r)
<1>1. CASE Return(r, "noop", NoCall) /\ UNCHANGED round
  BY <1>1, PhaseUsesUp DEF Return, Phases, PhaseSteps
<1>2. CASE /\ round[r] < MaxRounds /\ GoTo(r, "actor")
           /\ round' = [round EXCEPT ![r] = @ + 1]
  <2>1. /\ round[r] \in Nat /\ MaxRounds \in Nat /\ round[r] + 1 <= MaxRounds
        /\ pc'[r] = "actor" /\ round'[r] = round[r] + 1
        /\ \A q \in Requests \ {r} : pc'[q] = pc[q] /\ round'[q] = round[q]
    BY <1>2, MemoryAssumption DEF TypeOK, GoTo
  <2>2. PhaseSteps("actor") = 4 /\ PhaseSteps(pc[r]) \in Nat /\ PhaseSteps(pc[r]) > 0
    BY DEF PhaseSteps
  <2>3. /\ StepsLeft(r) = 4 * (MaxRounds - round[r]) + PhaseSteps(pc[r])
        /\ StepsLeft(r)' = 4 * (MaxRounds - (round[r] + 1)) + 4
        /\ \A q \in Requests \ {r} : StepsLeft(q)' = StepsLeft(q)
    BY <2>1, <2>2 DEF StepsLeft
  <2> QED BY <2>1, <2>2, <2>3 DEF UsesUp
<1> QED BY <1>1, <1>2 DEF NextRound

LEMMA ReturnUsesUp ==
    ASSUME TypeOK, NEW r \in Requests, NEW kind, NEW c, Return(r, kind, c), UNCHANGED round,
           pc[r] # "done"
    PROVE  UsesUp(r)
<1>1. PhaseSteps("done") = 0 /\ PhaseSteps(pc[r]) > 0
  BY DEF TypeOK, Phases, PhaseSteps
<1>2. GoTo(r, "done") /\ "done" \in Phases
  BY DEF Return, Phases
<1> QED BY <1>1, <1>2, PhaseUsesUp

LEMMA TurnUsesUp ==
    ASSUME TypeOK, NEW r \in Requests, Begin(r) \/ Continue(r)
    PROVE  UsesUp(r)
<1> USE DEF shared
<1>1. ASSUME NEW phase \in Phases, GoTo(r, phase), UNCHANGED round,
             PhaseSteps(phase) < PhaseSteps(pc[r])
      PROVE  UsesUp(r)
  BY <1>1, PhaseUsesUp
<1>2. ASSUME pc[r] = "idle", GoTo(r, "planner") \/ GoTo(r, "actor"), UNCHANGED round
      PROVE  UsesUp(r)
  BY <1>1, <1>2 DEF Phases, PhaseSteps
<1>3. CASE BeginTask(r) \/ BeginExecResult(r) \/ BeginUnknown(r)
  BY <1>2, <1>3 DEF BeginTask, BeginExecResult, BeginUnknown
<1>4. CASE BeginGarbage(r)
  BY <1>4, ReturnUsesUp DEF BeginGarbage
<1>5. CASE CallFails(r) /\ pc[r] # "done"
  BY <1>5, ReturnUsesUp DEF CallFails
<1>6. CASE PlannerReply(r)
  <2>1. CASE GoTo(r, "planned") /\ UNCHANGED round
    BY <1>1, <1>6, <2>1 DEF PlannerReply, Phases, PhaseSteps
  <2> QED BY <1>5, <1>6, <2>1 DEF PlannerReply
<1>7. CASE AddPlan(r)
  BY <1>1, <1>7 DEF AddPlan, Phases, PhaseSteps
<1>8. CASE ActorReply(r)
  <2>1. CASE GoTo(r, "acted") /\ UNCHANGED round
    BY <1>1, <1>8, <2>1 DEF ActorReply, Phases, PhaseSteps
  <2> QED BY <1>5, <1>8, <2>1 DEF ActorReply
<1>9. CASE HandleReply(r)
  <2>1. CASE HandleText(r) \/ HandleBadArguments(r)
    BY <1>9, <2>1, NextRoundUsesUp DEF HandleReply, HandleText, HandleBadArguments
  <2>2. CASE HandleFinal(r)
    BY <1>9, <2>2, ReturnUsesUp DEF HandleReply, HandleFinal
  <2>3. CASE SubmitToCritic(r)
    <3>1. CASE GoTo(r, "critic")
      BY <1>1, <1>9, <2>3, <3>1 DEF HandleReply, SubmitToCritic, Phases, PhaseSteps
    <3>2. CASE Return(r, "failed", NoCall)
      BY <1>9, <2>3, <3>2, ReturnUsesUp DEF HandleReply, SubmitToCritic
    <3> QED BY <2>3, <3>1, <3>2 DEF SubmitToCritic
  <2> QED BY <1>9, <2>1, <2>2, <2>3 DEF HandleReply
<1>10. CASE CriticReply(r)
  BY <1>1, <1>10 DEF CriticReply, Phases, PhaseSteps
<1>11. CASE HandleVerdict(r)
  <2>1. CASE Approve(r)
    BY <1>11, <2>1, ReturnUsesUp DEF HandleVerdict, Approve
  <2>2. CASE Reject(r)
    BY <1>11, <2>2, NextRoundUsesUp DEF HandleVerdict, Reject
  <2> QED BY <1>11, <2>1, <2>2 DEF HandleVerdict
<1> QED BY <1>3, <1>4, <1>6, <1>7, <1>8, <1>9, <1>10, <1>11 DEF Begin, Continue

(* No turn runs for ever, whatever the LLMs answer, the Critic rejects and *)
(* other turns do meanwhile: a step of the handler is a step of some turn  *)
(* and brings that turn closer to its end (a message costs at most         *)
(* 4 * MaxRounds + 3 steps).                                               *)
THEOREM TurnsRunOut == Spec => [][\E r \in Requests : UsesUp(r)]_vars
<1>1. TypeOK /\ [Next]_vars => [\E r \in Requests : UsesUp(r)]_vars
  BY TurnUsesUp DEF Next
<1> QED BY <1>1, TypeCorrect, PTL DEF Spec

(* An answer that is handled is one of the four kinds the handler tells    *)
(* apart, and a command that is reviewed is one the Critic judges.         *)
CanGoOn(r) ==
    /\ pc[r] = "acted" => reply[r] \in {"text", "final", "badargs"} \cup Commands
    /\ pc[r] = "critic" => reply[r] \in Commands /\ CriticOutcomes(reply[r]) # {}

LEMMA GoesOnStep ==
    ASSUME TypeOK, \A r \in Requests : CanGoOn(r), [Next]_vars
    PROVE  \A r \in Requests : CanGoOn(r)'
<1> USE DEF TypeOK, GoTo, Return, shared
<1>1. ASSUME NEW r \in Requests, Begin(r) \/ Continue(r)
      PROVE  \A q \in Requests : CanGoOn(q)'
  <2>1. ASSUME pc'[r] \notin {"acted", "critic"},
               \A q \in Requests \ {r} : pc'[q] = pc[q] /\ reply'[q] = reply[q]
        PROVE  \A q \in Requests : CanGoOn(q)'
    BY <2>1 DEF CanGoOn
  <2>2. CASE Begin(r)
    BY <2>1, <2>2 DEF Begin, BeginTask, BeginExecResult, BeginUnknown, BeginGarbage
  <2>3. CASE CallFails(r)
    BY <2>1, <2>3 DEF CallFails
  <2>4. CASE NextRound(r) /\ UNCHANGED reply
    BY <2>1, <2>4 DEF NextRound
  <2>5. CASE PlannerReply(r) \/ AddPlan(r) \/ CriticReply(r)
    BY <2>1, <2>3, <2>5 DEF PlannerReply, AddPlan, CriticReply
  <2>6. CASE ActorReply(r)
    <3>1. CASE GoTo(r, "acted") /\ \E a \in Replies \ {"none"} : reply' = [reply EXCEPT ![r] = a]
      BY <3>1 DEF CanGoOn, Replies
    <3> QED BY <2>3, <2>6, <3>1 DEF ActorReply
  <2>7. CASE HandleText(r) \/ HandleBadArguments(r)
    BY <2>4, <2>7 DEF HandleText, HandleBadArguments
  <2>8. CASE HandleFinal(r)
    BY <2>1, <2>8 DEF HandleFinal
  <2>9. CASE SubmitToCritic(r)
    <3>1. CASE reply[r] = "blank"
      BY <2>1, <2>9, <3>1 DEF SubmitToCritic
    <3>2. CASE reply[r] # "blank"
      <4>1. /\ pc' = [pc EXCEPT ![r] = "critic"] /\ reply' = reply
            /\ reply[r] \in Commands \ {"blank"}
        BY <2>9, <3>2 DEF SubmitToCritic
      <4>2. "reject" \in CriticOutcomes(reply[r])
        BY <4>1 DEF CriticOutcomes
      <4> QED BY <4>1, <4>2 DEF CanGoOn
    <3> QED BY <3>1, <3>2
  <2>10. CASE Approve(r)
    BY <2>1, <2>10 DEF Approve
  <2>11. CASE Reject(r)
    BY <2>4, <2>11 DEF Reject
  <2> QED BY <1>1, <2>2, <2>5, <2>6, <2>7, <2>8, <2>9, <2>10, <2>11
      DEF Continue, HandleReply, HandleVerdict
<1>2. CASE UNCHANGED vars
  BY <1>2 DEF vars, CanGoOn
<1> QED BY <1>1, <1>2 DEF Next

(* And none is stuck on the way: the phases whose action depends on what   *)
(* an LLM said always find a branch for it (the handler's if-chain leaves  *)
(* no answer and no verdict out).                                          *)
THEOREM TurnsGoOn == Spec => [](\A r \in Requests : CanGoOn(r))
<1>1. Init => \A r \in Requests : CanGoOn(r)
  BY DEF Init, CanGoOn
<1>2. /\ TypeOK /\ (\A r \in Requests : CanGoOn(r)) /\ [Next]_vars
         => (\A r \in Requests : CanGoOn(r))'
  BY GoesOnStep
<1> QED BY <1>1, <1>2, TypeCorrect, PTL DEF Spec
-----------------------------------------------------------------------------
(* What a turn may do to its control state in one step.                    *)
LEMMA ContinueControl ==
    ASSUME TypeOK, NEW r \in Requests, Continue(r)
    PROVE  /\ pc[r] \notin {"idle", "done"} /\ pc'[r] # "idle"
           /\ UNCHANGED <<task, updater>>
           /\ \A q \in Requests \ {r} :
                 pc'[q] = pc[q] /\ resp'[q] = resp[q] /\ round'[q] = round[q]
           /\ \/ pc'[r] # "done" /\ resp'[r] = resp[r]
              \/ /\ pc'[r] = "done"
                 /\ \E kind \in {"noop", "final", "failed"} : resp'[r] = Response(kind, NoCall)
              \/ pc[r] = "judged" /\ Approve(r)
           /\ pc'[r] \in {"critic", "judged"} =>
                 /\ round'[r] = round[r]
                 /\ \/ pending' = ThisCall(r)
                    \/ UNCHANGED pending /\ pc[r] = "critic"
<1> USE DEF TypeOK, GoTo
<1>1. ASSUME CallFails(r), pc[r] \notin {"idle", "done"}
      PROVE  /\ pc'[r] = "done" /\ UNCHANGED <<task, updater>>
             /\ \A q \in Requests \ {r} :
                   pc'[q] = pc[q] /\ resp'[q] = resp[q] /\ round'[q] = round[q]
             /\ \E kind \in {"noop", "final", "failed"} : resp'[r] = Response(kind, NoCall)
  BY <1>1 DEF CallFails, Return, shared
<1>2. ASSUME NextRound(r)
      PROVE  /\ pc'[r] \in {"actor", "done"}
             /\ \A q \in Requests \ {r} :
                   pc'[q] = pc[q] /\ resp'[q] = resp[q] /\ round'[q] = round[q]
             /\ \/ pc'[r] = "actor" /\ resp'[r] = resp[r]
                \/ /\ pc'[r] = "done"
                   /\ \E kind \in {"noop", "final", "failed"} : resp'[r] = Response(kind, NoCall)
  BY <1>2 DEF NextRound, Return
<1>3. CASE PlannerReply(r)
  BY <1>1, <1>3 DEF PlannerReply, shared
<1>4. CASE AddPlan(r)
  BY <1>4 DEF AddPlan
<1>5. CASE ActorReply(r)
  BY <1>1, <1>5 DEF ActorReply, shared
<1>6. CASE HandleReply(r) /\ HandleText(r)
  BY <1>2, <1>6 DEF HandleReply, HandleText
<1>7. CASE HandleReply(r) /\ HandleFinal(r)
  BY <1>7 DEF HandleReply, HandleFinal, Return
<1>8. CASE HandleReply(r) /\ HandleBadArguments(r)
  BY <1>2, <1>8 DEF HandleReply, HandleBadArguments
<1>9. CASE HandleReply(r) /\ SubmitToCritic(r)
  BY <1>9 DEF HandleReply, SubmitToCritic, Return
<1>10. CASE CriticReply(r)
  BY <1>10 DEF CriticReply, shared
<1>11. CASE HandleVerdict(r) /\ Approve(r)
  BY <1>11 DEF HandleVerdict, Approve, Return
<1>12. CASE HandleVerdict(r) /\ Reject(r)
  BY <1>2, <1>12 DEF HandleVerdict, Reject
<1> QED BY <1>3, <1>4, <1>5, <1>6, <1>7, <1>8, <1>9, <1>10, <1>11, <1>12
        DEF Continue, HandleReply, HandleVerdict

LEMMA BeginControl ==
    ASSUME TypeOK, NEW r \in Requests, Begin(r)
    PROVE  /\ pc[r] = "idle"
           /\ \A q \in Requests \ {r} : pc'[q] = pc[q] /\ resp'[q] = resp[q]
           /\ \/ pc'[r] \in {"planner", "actor"}
              \/ pc'[r] = "done" /\ resp'[r].kind = "failed"
<1> USE DEF TypeOK, GoTo
<1>1. CASE BeginTask(r) \/ BeginExecResult(r) \/ BeginUnknown(r)
  BY <1>1 DEF BeginTask, BeginExecResult, BeginUnknown
<1>2. CASE BeginGarbage(r)
  BY <1>2 DEF BeginGarbage, Return, Response
<1> QED BY <1>1, <1>2 DEF Begin

LEMMA TurnMoves ==
    ASSUME NEW r \in Requests, NEW s, TurnOf(r)' = s,
           \A q \in Requests \ {r} : TurnOf(q)' = TurnOf(q)
    PROVE  [q \in Requests |-> TurnOf(q)]' = [[q \in Requests |-> TurnOf(q)] EXCEPT ![r] = s]
OBVIOUS

(* A turn is one call that starts once and answers or raises once, also    *)
(* when turns of one context overlap: no step of another turn begins,      *)
(* ends, repeats or alters it.                                             *)
THEOREM TurnsKeepContract == Spec => KeepsTurnContract
<1>1. Init => Turns!Init
  BY DEF Init, Turns!Init, TurnOf
<1>2. ASSUME TypeOK, [Next]_vars PROVE [Turns!Next]_([r \in Requests |-> TurnOf(r)])
  <2>1. ASSUME NEW r \in Requests, Begin(r) PROVE Turns!Next
    <3>1. /\ TurnOf(r) = "due" /\ TurnOf(r)' \in {"running", "raised"}
          /\ \A q \in Requests \ {r} : TurnOf(q)' = TurnOf(q)
      BY <1>2, <2>1, BeginControl DEF TurnOf
    <3> QED BY <3>1, TurnMoves DEF Turns!Next, Turns!Start, Turns!Raise
  <2>2. ASSUME NEW r \in Requests, Continue(r)
        PROVE  [Turns!Next]_([q \in Requests |-> TurnOf(q)])
    <3>1. /\ TurnOf(r) = "running" /\ TurnOf(r)' \in {"running", "answered", "raised"}
          /\ \A q \in Requests \ {r} : TurnOf(q)' = TurnOf(q)
      BY <1>2, <2>2, ContinueControl DEF TurnOf
    <3>2. CASE TurnOf(r)' = "running"
      BY <3>1, <3>2
    <3>3. CASE TurnOf(r)' \in {"answered", "raised"}
      BY <3>1, <3>3, TurnMoves DEF Turns!Next, Turns!Answer, Turns!Raise
    <3> QED BY <3>1, <3>2, <3>3
  <2>3. CASE UNCHANGED vars
    BY <2>3 DEF vars, TurnOf
  <2> QED BY <1>2, <2>1, <2>2, <2>3 DEF Next
<1> QED BY <1>1, <1>2, TypeCorrect, PTL DEF Spec, KeepsTurnContract, Turns!Spec
=============================================================================
