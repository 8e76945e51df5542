--------------------------- MODULE ExecutorProofs ---------------------------
(***************************************************************************)
(* The executor and its time tracer for any number of messages, contexts,  *)
(* turns and calls: one Agent per context, one terminal event per message, *)
(* a budget that only the context's own turns spend, and timing entries    *)
(* that no rotation loses, doubles or strands.                             *)
(***************************************************************************)
EXTENDS TimeTracer, FiniteSetTheorems, SequenceTheorems, TLAPS

(* A message belongs to a context and a task from its acceptance on, and   *)
(* to an Agent once its execute has looked for one.                        *)
Routed ==
    \A r \in Requests :
        /\ pc[r] = "idle" => task[r] = None
        /\ pc[r] # "idle" => ctx[r] \in Contexts
        /\ pc[r] \in {"idle", "accepted", "refused"} => agentOf[r] = None
        /\ pc[r] \notin {"idle", "accepted", "refused"} =>
              agentOf[r] # None /\ agents[ctx[r]] = agentOf[r]

(* The Agent of a context was made by a message of that context.           *)
MadeHere == \A c \in Contexts : agents[c] # None => ctx[agents[c]] = c /\ pc[agents[c]] # "idle"

(* What a message's run made of it, along its way.                         *)
Decided ==
    \A r \in Requests :
        /\ pc[r] \in {"idle", "accepted", "refused", "started", "running"} => answer[r] = "none"
        /\ pc[r] \in {"replied", "completing"} => answer[r] \in {"reply", "budget"}
        /\ pc[r] = "failing" => answer[r] = "error"
        /\ pc[r] = "done" => answer[r] \in {"reply", "budget", "error"}

(* The terminal event goes out on the way to "completing" or to "done",    *)
(* and which one it is depends on the answer.                              *)
Terminated ==
    \A r \in Requests :
        /\ terminals[r]["completed"] =
              IF pc[r] \in {"completing", "done"} /\ answer[r] # "error" THEN 1 ELSE 0
        /\ terminals[r]["failed"] = IF pc[r] = "done" /\ answer[r] = "error" THEN 1 ELSE 0

RoutedInv == TypeOK /\ Routed /\ MadeHere /\ Decided /\ Terminated

LEMMA RoutedInit == Init => RoutedInv
BY ExecutorAssumption
   DEF Init, RoutedInv, TypeOK, Routed, MadeHere, Decided, Terminated, Phases, TerminalStates

(* A terminal event moves the task and one counter of the message.         *)
LEMMA EndTaskTypes ==
    ASSUME TypeOK, NEW r \in Requests, NEW s \in TerminalStates, EndTask(r, s)
    PROVE  /\ state' \in [Requests -> {"none", "submitted", "working"} \cup TerminalStates]
           /\ terminals' \in [Requests -> [TerminalStates -> Nat]]
           /\ \A q \in Requests \ {r} : terminals'[q] = terminals[q]
           /\ terminals'[r] = [terminals[r] EXCEPT ![s] = terminals[r][s] + 1]
<1>1. state' \in [Requests -> {"none", "submitted", "working"} \cup TerminalStates]
  BY DEF TypeOK, EndTask
<1>2. /\ terminals \in [Requests -> [TerminalStates -> Nat]]
      /\ terminals' = [terminals EXCEPT ![r] = [terminals[r] EXCEPT ![s] = terminals[r][s] + 1]]
  BY DEF TypeOK, EndTask
<1>3. [terminals[r] EXCEPT ![s] = terminals[r][s] + 1] \in [TerminalStates -> Nat]
  BY <1>2
<1> QED BY <1>1, <1>2, <1>3

LEMMA TypeStep == RoutedInv /\ [Next]_vars => TypeOK'
<1> SUFFICES ASSUME RoutedInv, [Next]_vars PROVE TypeOK'
  OBVIOUS
<1>0. TypeOK /\ Routed
  BY DEF RoutedInv
<1> USE <1>0 DEF TypeOK, Phases, TerminalStates, GoTo
<1>1. ASSUME NEW r \in Requests, NEW c \in Contexts, AcceptNew(r, c) PROVE TypeOK'
  BY <1>1 DEF AcceptNew
<1>2. ASSUME NEW r \in Requests, NEW q \in Requests, AcceptFor(r, q) PROVE TypeOK'
  BY <1>2 DEF AcceptFor
<1>3. ASSUME NEW r \in Requests, FindAgent(r) PROVE TypeOK'
  <2>1. ctx[r] \in Contexts
    BY <1>3 DEF FindAgent, Routed
  <2> QED BY <1>3, <2>1 DEF FindAgent
<1>4. ASSUME NEW r \in Requests, CheckBudget(r) PROVE TypeOK'
  BY <1>4 DEF CheckBudget
<1>5. ASSUME NEW r \in Requests, TurnAnswers(r) \/ TurnRaises(r) PROVE TypeOK'
  BY <1>5 DEF TurnAnswers, TurnRaises
<1>6. ASSUME NEW r \in Requests, Complete(r) \/ Fail(r) PROVE TypeOK'
  <2>1. EndTask(r, "completed") \/ EndTask(r, "failed")
    BY <1>6 DEF Complete, Fail
  <2>2. pc' \in [Requests -> Phases]
    BY <1>6 DEF Complete, Fail
  <2> QED BY <1>6, <2>1, <2>2, EndTaskTypes DEF Complete, Fail
<1>7. ASSUME NEW r \in Requests, FinalizeTurn(r) PROVE TypeOK'
  <2>1. agentOf[r] \in Requests
    BY <1>7 DEF FinalizeTurn, Routed
  <2>2. turnCount' \in [Requests -> Nat]
    BY <1>7, <2>1 DEF FinalizeTurn, CountTurn
  <2>3. EndTask(r, "completed") \/ UNCHANGED <<state, terminals>>
    BY <1>7 DEF FinalizeTurn
  <2>4. pc' \in [Requests -> Phases]
    BY <1>7 DEF FinalizeTurn
  <2> QED BY <1>7, <2>2, <2>3, <2>4, EndTaskTypes DEF FinalizeTurn
<1>8. CASE UNCHANGED vars
  BY <1>8 DEF vars
<1> QED BY <1>1, <1>2, <1>3, <1>4, <1>5, <1>6, <1>7, <1>8 DEF Next, Accept, Execute

LEMMA DecidedStep == TypeOK /\ Decided /\ [Next]_vars => Decided'
<1> SUFFICES ASSUME TypeOK, Decided, [Next]_vars PROVE Decided'
  OBVIOUS
<1> USE DEF Decided, TypeOK, GoTo
<1>1. ASSUME NEW r \in Requests, Accept(r) PROVE Decided'
  BY <1>1 DEF Accept, AcceptNew, AcceptFor
<1>2. ASSUME NEW r \in Requests, FindAgent(r) \/ CheckBudget(r) PROVE Decided'
  BY <1>2 DEF FindAgent, CheckBudget
<1>3. ASSUME NEW r \in Requests, TurnAnswers(r) \/ TurnRaises(r) PROVE Decided'
  BY <1>3 DEF TurnAnswers, TurnRaises
<1>4. ASSUME NEW r \in Requests, Complete(r) \/ FinalizeTurn(r) \/ Fail(r) PROVE Decided'
  BY <1>4 DEF Complete, FinalizeTurn, Fail
<1>5. CASE UNCHANGED vars
  BY <1>5 DEF vars
<1> QED BY <1>1, <1>2, <1>3, <1>4, <1>5 DEF Next, Execute

LEMMA RoutedStep == RoutedInv /\ [Next]_vars => RoutedInv'
<1> SUFFICES ASSUME RoutedInv, [Next]_vars PROVE (Routed /\ MadeHere /\ Terminated)'
  BY TypeStep, DecidedStep DEF RoutedInv
<1>0. TypeOK /\ Routed /\ MadeHere /\ Decided /\ Terminated /\ TypeOK'
  BY TypeStep DEF RoutedInv
<1> USE <1>0, ExecutorAssumption DEF GoTo, TypeOK, Phases, TerminalStates
<1>1. ASSUME NEW r \in Requests, NEW c \in Contexts, AcceptNew(r, c)
      PROVE  (Routed /\ MadeHere /\ Terminated)'
  BY <1>1 DEF AcceptNew, Routed, MadeHere, Terminated
<1>2. ASSUME NEW r \in Requests, NEW q \in Requests, AcceptFor(r, q)
      PROVE  (Routed /\ MadeHere /\ Terminated)'
  <2>1. ctx[q] \in Contexts
    BY <1>2 DEF AcceptFor, Routed
  <2> QED BY <1>2, <2>1 DEF AcceptFor, Routed, MadeHere, Terminated
<1>3. ASSUME NEW r \in Requests, FindAgent(r)
      PROVE  (Routed /\ MadeHere /\ Terminated)'
  <2>1. ctx[r] \in Contexts
    BY <1>3 DEF FindAgent, Routed
  <2> QED BY <1>3, <2>1 DEF FindAgent, Routed, MadeHere, Terminated
<1>4. ASSUME NEW r \in Requests, CheckBudget(r)
      PROVE  (Routed /\ MadeHere /\ Terminated)'
  BY <1>4 DEF CheckBudget, Routed, MadeHere, Terminated
<1>5. ASSUME NEW r \in Requests, TurnAnswers(r) \/ TurnRaises(r)
      PROVE  (Routed /\ MadeHere /\ Terminated)'
  BY <1>5 DEF TurnAnswers, TurnRaises, Routed, MadeHere, Terminated
<1>6. ASSUME NEW r \in Requests, Complete(r) \/ Fail(r)
      PROVE  (Routed /\ MadeHere /\ Terminated)'
  <2>1. (Routed /\ MadeHere)'
    BY <1>6 DEF Complete, Fail, Routed, MadeHere
  <2>2. CASE Complete(r)
    <3>1. /\ answer[r] # "error" /\ UNCHANGED answer
          /\ pc[r] = "replied" /\ pc' = [pc EXCEPT ![r] = "completing"]
          /\ EndTask(r, "completed")
      BY <2>2 DEF Complete, Decided
    <3>2. /\ \A q \in Requests \ {r} : terminals'[q] = terminals[q]
          /\ terminals'[r]["completed"] = terminals[r]["completed"] + 1
          /\ terminals'[r]["failed"] = terminals[r]["failed"]
      BY <3>1, EndTaskTypes
    <3>3. Terminated'
      BY <3>1, <3>2 DEF Terminated
    <3> QED BY <2>1, <3>3
  <2>3. CASE Fail(r)
    <3>1. /\ answer[r] = "error" /\ UNCHANGED answer
          /\ pc[r] = "failing" /\ pc' = [pc EXCEPT ![r] = "done"]
          /\ EndTask(r, "failed")
      BY <2>3 DEF Fail, Decided
    <3>2. /\ \A q \in Requests \ {r} : terminals'[q] = terminals[q]
          /\ terminals'[r]["failed"] = terminals[r]["failed"] + 1
          /\ terminals'[r]["completed"] = terminals[r]["completed"]
      BY <3>1, EndTaskTypes
    <3>3. Terminated'
      BY <3>1, <3>2 DEF Terminated
    <3> QED BY <2>1, <3>3
  <2> QED BY <1>6, <2>2, <2>3
<1>7. ASSUME NEW r \in Requests, FinalizeTurn(r)
      PROVE  (Routed /\ MadeHere /\ Terminated)'
  <2>1. answer[r] # "error" /\ terminals[r]["completed"] = 1 /\ terminals[r]["failed"] = 0
    BY <1>7 DEF FinalizeTurn, Decided, Terminated
  <2>2. UNCHANGED terminals
    BY <1>7, <2>1 DEF FinalizeTurn, TerminalEvents
  <2> QED BY <1>7, <2>1, <2>2 DEF FinalizeTurn, Routed, MadeHere, Terminated
<1>8. CASE UNCHANGED vars
  BY <1>8 DEF vars, Routed, MadeHere, Terminated
<1> QED BY <1>1, <1>2, <1>3, <1>4, <1>5, <1>6, <1>7, <1>8 DEF Next, Accept, Execute

(* The routing of messages to Agents, with the types.                      *)
THEOREM RoutingHolds == Spec => []RoutedInv
BY RoutedInit, RoutedStep, PTL DEF Spec

(* The types of the executor's state.                                      *)
THEOREM ExecutorTypes == Spec => []TypeOK
<1>1. RoutedInv => TypeOK
  BY DEF RoutedInv
<1> QED BY <1>1, RoutingHolds, PTL
-----------------------------------------------------------------------------
LEMMA SameAgentSameContext ==
    ASSUME RoutedInv, NEW r \in Requests, agentOf[r] # None
    PROVE  /\ agents[ctx[r]] = agentOf[r]
           /\ ctx[agentOf[r]] = ctx[r]
           /\ agentOf[r] \in Requests
<1>1. ctx[r] \in Contexts /\ agents[ctx[r]] = agentOf[r]
  BY DEF RoutedInv, Routed
<1>2. agentOf[r] \in Requests
  BY DEF RoutedInv, TypeOK
<1> QED BY <1>1, <1>2 DEF RoutedInv, MadeHere

LEMMA RoutedOneAgent == RoutedInv => OneAgentPerContext
BY SameAgentSameContext DEF OneAgentPerContext

(* Overlapping first messages of a context never get two Agents, and two   *)
(* contexts never share one, for any number of messages.                   *)
THEOREM OneAgentHolds == Spec => []OneAgentPerContext
BY RoutedOneAgent, RoutingHolds, PTL

(* For any number of messages, however they overlap: an executed message   *)
(* has sent exactly one terminal event, and it says how its turn ended.    *)
THEOREM OneTerminalHolds == Spec => []OneTerminalEvent
<1>1. RoutedInv => OneTerminalEvent
  BY DEF RoutedInv, Decided, Terminated, TerminalEvents, OneTerminalEvent
<1> QED BY <1>1, RoutingHolds, PTL
-----------------------------------------------------------------------------
(* The turns of an Agent that were answered and counted.                   *)
Counted(a) == { q \in Requests : agentOf[q] = a /\ pc[q] = "done" /\ answer[q] = "reply" }

Spent ==
    /\ \A a \in Requests : turnCount[a] = Cardinality(Counted(a))
    /\ \A r \in Requests : answer[r] = "budget" => turnCount[agentOf[r]] >= MaxTurnCount

(* A step that counts no turn leaves the counted ones as they are.         *)
LEMMA NothingCounted ==
    ASSUME Spent, UNCHANGED turnCount,
           \A q \in Requests :
              /\ agentOf'[q] = agentOf[q] \/ (answer[q] = "none" /\ answer'[q] = "none")
              /\ pc'[q] = "done" /\ answer'[q] = "reply" <=> pc[q] = "done" /\ answer[q] = "reply"
              /\ answer'[q] = "budget" =>
                    answer[q] = "budget" \/ turnCount[agentOf'[q]] >= MaxTurnCount
    PROVE  Spent'
<1>1. \A a \in Requests : Counted(a)' = Counted(a)
  BY DEF Counted
<1>2. \A a \in Requests : turnCount'[a] = Cardinality(Counted(a)')
  BY <1>1 DEF Spent
<1>3. \A q \in Requests : answer'[q] = "budget" => turnCount'[agentOf'[q]] >= MaxTurnCount
  <2> SUFFICES ASSUME NEW q \in Requests, answer'[q] = "budget"
               PROVE  turnCount[agentOf'[q]] >= MaxTurnCount
    OBVIOUS
  <2>1. CASE answer[q] = "budget"
    BY <2>1 DEF Spent
  <2>2. CASE answer[q] # "budget"
    BY <2>2
  <2> QED BY <2>1, <2>2
<1> QED BY <1>2, <1>3 DEF Spent

(* An answered turn that ends is counted once, for its Agent alone.        *)
LEMMA TurnCounted ==
    ASSUME IsFiniteSet(Requests), RoutedInv, Spent,
           NEW r \in Requests, FinalizeTurn(r), answer[r] = "reply"
    PROVE  Spent'
<1>1. /\ TypeOK /\ pc[r] = "completing" /\ agentOf[r] \in Requests
      /\ turnCount' = [turnCount EXCEPT ![agentOf[r]] = @ + 1]
      /\ pc' = [pc EXCEPT ![r] = "done"]
      /\ UNCHANGED <<agentOf, answer>>
  BY DEF RoutedInv, TypeOK, Routed, FinalizeTurn, CountTurn, GoTo
<1>2. \A a \in Requests : a # agentOf[r] => Counted(a)' = Counted(a)
  BY <1>1 DEF Counted, TypeOK
<1>3. Counted(agentOf[r])' = Counted(agentOf[r]) \cup {r} /\ r \notin Counted(agentOf[r])
  BY <1>1 DEF Counted, TypeOK
<1>4. IsFiniteSet(Counted(agentOf[r]))
  BY FS_Subset DEF Counted
<1>5. Cardinality(Counted(agentOf[r]) \cup {r}) = Cardinality(Counted(agentOf[r])) + 1
  BY <1>3, <1>4, FS_AddElement
<1>6. \A a \in Requests : turnCount'[a] = Cardinality(Counted(a)')
  <2> SUFFICES ASSUME NEW a \in Requests PROVE turnCount'[a] = Cardinality(Counted(a)')
    OBVIOUS
  <2>1. turnCount[a] = Cardinality(Counted(a)) /\ turnCount \in [Requests -> Nat]
    BY <1>1 DEF Spent, TypeOK
  <2>2. CASE a = agentOf[r]
    BY <1>1, <1>3, <1>5, <2>1, <2>2
  <2>3. CASE a # agentOf[r]
    BY <1>1, <1>2, <2>1, <2>3
  <2> QED BY <2>2, <2>3
<1>7. \A a \in Requests : turnCount'[a] >= turnCount[a]
  BY <1>1 DEF TypeOK
<1>8. \A q \in Requests : answer'[q] = "budget" => turnCount'[agentOf'[q]] >= MaxTurnCount
  <2> SUFFICES ASSUME NEW q \in Requests, answer'[q] = "budget"
               PROVE  turnCount'[agentOf'[q]] >= MaxTurnCount
    OBVIOUS
  <2>1. turnCount[agentOf[q]] >= MaxTurnCount /\ agentOf'[q] = agentOf[q]
    BY <1>1 DEF Spent
  <2>2. CASE agentOf[q] = agentOf[r]
    <3>1. turnCount[agentOf[q]] \in Nat /\ turnCount'[agentOf[q]] \in Nat
      BY <1>1, <2>2 DEF TypeOK
    <3> QED BY <1>1, <1>7, <2>1, <2>2, <3>1, ExecutorAssumption
  <2>3. CASE agentOf[q] # agentOf[r]
    BY <1>1, <2>1, <2>3 DEF TypeOK
  <2> QED BY <2>2, <2>3
<1> QED BY <1>6, <1>8 DEF Spent

LEMMA SpentStep ==
    ASSUME IsFiniteSet(Requests), RoutedInv, Spent, [Next]_vars
    PROVE  Spent'
<1>0. TypeOK /\ Decided' /\ Decided
  BY RoutedStep DEF RoutedInv
<1> USE DEF TypeOK, GoTo
<1>1. ASSUME NEW r \in Requests, Accept(r) PROVE Spent'
  BY <1>0, <1>1, NothingCounted DEF Accept, AcceptNew, AcceptFor
<1>2. ASSUME NEW r \in Requests, FindAgent(r) PROVE Spent'
  <2>1. answer[r] = "none" /\ answer'[r] = "none"
    BY <1>0, <1>2 DEF FindAgent, Decided
  <2> QED BY <1>0, <1>2, <2>1, NothingCounted DEF FindAgent
<1>3. ASSUME NEW r \in Requests, CheckBudget(r) PROVE Spent'
  BY <1>0, <1>3, NothingCounted DEF CheckBudget
<1>4. ASSUME NEW r \in Requests, TurnAnswers(r) \/ TurnRaises(r) PROVE Spent'
  BY <1>0, <1>4, NothingCounted DEF TurnAnswers, TurnRaises
<1>5. ASSUME NEW r \in Requests, Complete(r) PROVE Spent'
  BY <1>0, <1>5, NothingCounted DEF Complete
<1>6. ASSUME NEW r \in Requests, FinalizeTurn(r) PROVE Spent'
  <2>1. CASE answer[r] = "reply"
    BY <1>6, <2>1, TurnCounted
  <2>2. CASE answer[r] # "reply"
    BY <1>0, <1>6, <2>2, NothingCounted DEF FinalizeTurn, CountTurn
  <2> QED BY <2>1, <2>2
<1>7. ASSUME NEW r \in Requests, Fail(r) PROVE Spent'
  <2>1. answer[r] = "error"
    BY <1>0, <1>7 DEF Fail, Decided
  <2> QED BY <1>0, <1>7, <2>1, NothingCounted DEF Fail
<1>8. CASE UNCHANGED vars
  BY <1>8, NothingCounted DEF vars
<1> QED BY <1>1, <1>2, <1>3, <1>4, <1>5, <1>6, <1>7, <1>8 DEF Next, Execute

(* The turns counted for a context's Agent are the context's answered ones.*)
LEMMA SpentByContext == RoutedInv /\ Spent => BudgetIsSpent
<1> SUFFICES ASSUME RoutedInv, Spent, NEW r \in Requests, answer[r] = "budget"
             PROVE  Cardinality({ q \in Requests : ctx[q] = ctx[r] /\ pc[q] = "done"
                                                   /\ answer[q] = "reply" }) >= MaxTurnCount
  BY DEF BudgetIsSpent
<1>1. agentOf[r] # None
  BY DEF RoutedInv, Routed, Decided
<1>2. agentOf[r] \in Requests
  BY <1>1, SameAgentSameContext
<1>3. \A q \in Requests : pc[q] = "done" => (agentOf[q] = agentOf[r] <=> ctx[q] = ctx[r])
  <2> SUFFICES ASSUME NEW q \in Requests, pc[q] = "done"
               PROVE  agentOf[q] = agentOf[r] <=> ctx[q] = ctx[r]
    OBVIOUS
  <2>1. agentOf[q] # None
    BY DEF RoutedInv, Routed
  <2> QED BY <1>1, <2>1, RoutedOneAgent DEF OneAgentPerContext
<1>4. { q \in Requests : ctx[q] = ctx[r] /\ pc[q] = "done" /\ answer[q] = "reply" }
        = Counted(agentOf[r])
  BY <1>3 DEF Counted
<1>5. turnCount[agentOf[r]] = Cardinality(Counted(agentOf[r]))
  BY <1>2 DEF Spent
<1> QED BY <1>4, <1>5 DEF Spent

(* A context whose messages overlap, fail and are refused in any order is  *)
(* cut short only when its own answered turns have spent the budget, for   *)
(* every budget and every finite number of messages.                       *)
THEOREM BudgetHolds == ASSUME IsFiniteSet(Requests) PROVE Spec => []BudgetIsSpent
<1>1. Init => RoutedInv /\ Spent
  <2>1. ASSUME Init PROVE Spent
    <3>1. \A a \in Requests : Counted(a) = {}
      BY <2>1 DEF Init, Counted
    <3> QED BY <2>1, <3>1, FS_EmptySet DEF Init, Spent
  <2> QED BY <2>1, RoutedInit
<1>2. RoutedInv /\ Spent /\ [Next]_vars => (RoutedInv /\ Spent)'
  BY RoutedStep, SpentStep
<1>3. RoutedInv /\ Spent => BudgetIsSpent
  BY SpentByContext
<1> QED BY <1>1, <1>2, <1>3, PTL DEF Spec
-----------------------------------------------------------------------------
LEMMA TurnMoves ==
    ASSUME NEW r \in Requests, NEW s, TurnSeen(r)' = s,
           \A q \in Requests \ {r} : TurnSeen(q)' = TurnSeen(q)
    PROVE  [q \in Requests |-> TurnSeen(q)]'
              = [[q \in Requests |-> TurnSeen(q)] EXCEPT ![r] = s]
OBVIOUS

(* The executor relies on no more of a turn than the turn handler gives:   *)
(* it starts the turn of a message once, also for a message that joins a   *)
(* task or a context of others, and takes one answer or one error from it. *)
THEOREM ExecutorUsesContract == Spec => UsesTurnContract
<1>1. Init => Turns!Init
  BY DEF Init, Turns!Init, TurnSeen
<1>2. ASSUME RoutedInv, [Next]_vars
      PROVE  [Turns!Next]_([r \in Requests |-> TurnSeen(r)])
  <2>0. TypeOK /\ Decided
    BY <1>2 DEF RoutedInv
  <2> USE <1>2, <2>0 DEF TypeOK, Decided, GoTo, TurnSeen
  <2>1. ASSUME NEW r \in Requests,
               \/ Accept(r) \/ FindAgent(r) \/ Complete(r) \/ FinalizeTurn(r) \/ Fail(r)
        PROVE  UNCHANGED [q \in Requests |-> TurnSeen(q)]
    <3>1. /\ answer' = answer
          /\ \A q \in Requests : pc'[q] = "running" <=> pc[q] = "running"
      BY <2>1 DEF Accept, AcceptNew, AcceptFor, FindAgent, Complete, FinalizeTurn, Fail
    <3> QED BY <3>1
  <2>2. ASSUME NEW r \in Requests, CheckBudget(r)
        PROVE  [Turns!Next]_([q \in Requests |-> TurnSeen(q)])
    <3>1. /\ TurnSeen(r) = "due" /\ TurnSeen(r)' \in {"due", "running"}
          /\ \A q \in Requests \ {r} : TurnSeen(q)' = TurnSeen(q)
      BY <2>2 DEF CheckBudget
    <3> HIDE DEF TurnSeen
    <3>2. CASE TurnSeen(r)' = "due"
      BY <3>1, <3>2
    <3>3. CASE TurnSeen(r)' = "running"
      BY <3>1, <3>3, TurnMoves DEF Turns!Next, Turns!Start
    <3> QED BY <3>1, <3>2, <3>3
  <2>3. ASSUME NEW r \in Requests, TurnAnswers(r) \/ TurnRaises(r) PROVE Turns!Next
    <3>1. /\ TurnSeen(r) = "running" /\ TurnSeen(r)' \in {"answered", "raised"}
          /\ \A q \in Requests \ {r} : TurnSeen(q)' = TurnSeen(q)
      BY <2>3 DEF TurnAnswers, TurnRaises
    <3> HIDE DEF TurnSeen
    <3> QED BY <3>1, TurnMoves DEF Turns!Next, Turns!Answer, Turns!Raise
  <2>4. CASE UNCHANGED vars
    BY <2>4 DEF vars
  <2> QED BY <2>1, <2>2, <2>3, <2>4 DEF Next, Execute
<1> QED BY <1>1, <1>2, RoutingHolds, PTL DEF Spec, UsesTurnContract, Turns!Spec
-----------------------------------------------------------------------------
TracerTypes ==
    /\ current \subseteq Entries
    /\ sessions \in Seq(SUBSET Entries)
    /\ ended \in BOOLEAN
    /\ calls \in [Requests -> 0..MaxCalls]

Closed(e) == \E i \in DOMAIN sessions : e \in sessions[i]

Recorded(e) == e \in current \/ Closed(e)

(* No entry is in two places.                                              *)
InOnePlace ==
    \A e \in Entries :
        /\ e \in current => ~Closed(e)
        /\ \A i, j \in DOMAIN sessions : e \in sessions[i] /\ e \in sessions[j] => i = j

(* What is recorded is over, and what is over is recorded.                 *)
OverIsRecorded ==
    \A r \in Requests :
        /\ Recorded(Wait(r)) => pc[r] \notin {"idle", "accepted", "started", "refused"}
        /\ \A k \in 1..MaxCalls : Recorded(Invoke(r, k)) <=> k <= calls[r]
        /\ Recorded(Run(r)) <=> pc[r] \in {"failing", "done"}

TracerInv == TypeOK /\ TracerTypes /\ InOnePlace /\ OverIsRecorded /\ OneTurnPerSession

LEMMA EntryFacts ==
    ASSUME NEW r \in Requests
    PROVE  /\ Wait(r) \in Entries /\ Run(r) \in Entries
           /\ \A k \in 1..MaxCalls : Invoke(r, k) \in Entries
           /\ \A q \in Requests :
                 /\ Wait(r) # Run(q)
                 /\ Wait(r) = Wait(q) => r = q
                 /\ Run(r) = Run(q) => r = q
                 /\ \A k \in 1..MaxCalls :
                       /\ Invoke(q, k) # Wait(r) /\ Invoke(q, k) # Run(r)
                       /\ \A m \in 1..MaxCalls : Invoke(r, m) = Invoke(q, k) => r = q /\ m = k
BY TracerAssumption DEF Entries, Wait, Run, Invoke

(* @timed and @inverse_timed: a new entry in the current session.          *)
LEMMA EntryAdded ==
    ASSUME TracerTypes, InOnePlace, NEW e \in Entries, ~Recorded(e),
           current' = current \cup {e}, UNCHANGED sessions
    PROVE  InOnePlace' /\ \A x \in Entries : Recorded(x)' <=> Recorded(x) \/ x = e
BY DEF TracerTypes, InOnePlace, Recorded, Closed

(* finalize_turn: the current session, with the run's entry, is closed.    *)
LEMMA SessionClosed ==
    ASSUME TracerTypes, InOnePlace, NEW e \in Entries, ~Recorded(e),
           sessions' = Append(sessions, current \cup {e}), current' = {}
    PROVE  /\ InOnePlace'
           /\ \A x \in Entries : Recorded(x)' <=> Recorded(x) \/ x = e
           /\ DOMAIN sessions' = DOMAIN sessions \cup {Len(sessions) + 1}
           /\ \A i \in DOMAIN sessions : sessions'[i] = sessions[i]
           /\ sessions'[Len(sessions) + 1] = current \cup {e}
<1>1. current \cup {e} \in SUBSET Entries /\ sessions \in Seq(SUBSET Entries)
  BY DEF TracerTypes
<1>2. /\ Len(sessions) \in Nat /\ DOMAIN sessions = 1..Len(sessions)
      /\ DOMAIN sessions' = 1..(Len(sessions) + 1)
      /\ \A i \in 1..Len(sessions) : sessions'[i] = sessions[i]
      /\ sessions'[Len(sessions) + 1] = current \cup {e}
  BY <1>1, AppendProperties, LenProperties
<1>3. /\ DOMAIN sessions' = DOMAIN sessions \cup {Len(sessions) + 1}
      /\ Len(sessions) + 1 \notin DOMAIN sessions
  BY <1>2
<1>4. \A x \in Entries : Closed(x)' <=> Closed(x) \/ x \in current \cup {e}
  BY <1>2, <1>3 DEF Closed
<1>5. \A x \in Entries : Recorded(x)' <=> Recorded(x) \/ x = e
  BY <1>4 DEF Recorded
<1>6. InOnePlace'
  <2> SUFFICES ASSUME NEW x \in Entries, NEW i \in DOMAIN sessions', NEW j \in DOMAIN sessions',
                      x \in sessions'[i], x \in sessions'[j]
               PROVE  i = j
    BY DEF InOnePlace
  <2>1. x \in current \cup {e} => ~Closed(x)
    BY DEF InOnePlace, Recorded
  <2>2. CASE i \in DOMAIN sessions /\ j \in DOMAIN sessions
    BY <1>2, <2>2 DEF InOnePlace
  <2>3. CASE i \in DOMAIN sessions /\ j = Len(sessions) + 1
    BY <1>2, <2>1, <2>3 DEF Closed
  <2>4. CASE i = Len(sessions) + 1 /\ j \in DOMAIN sessions
    BY <1>2, <2>1, <2>4 DEF Closed
  <2> QED BY <1>3, <2>2, <2>3, <2>4
<1> QED BY <1>2, <1>3, <1>5, <1>6

LEMMA TracerTypesStep ==
    ASSUME TypeOK, TracerTypes, [TimedNext]_timedVars PROVE TracerTypes'
<1>1. ASSUME NEW r \in Requests, RunStarts(r) PROVE TracerTypes'
  BY <1>1, EntryFacts DEF RunStarts, TracerTypes
<1>2. ASSUME NEW r \in Requests, CallReturns(r) PROVE TracerTypes'
  <2>1. calls[r] \in 0..MaxCalls /\ calls[r] < MaxCalls /\ MaxCalls \in Nat
    BY <1>2, TracerAssumption DEF CallReturns, TracerTypes
  <2>2. calls' \in [Requests -> 0..MaxCalls] /\ calls'[r] \in 1..MaxCalls
    BY <1>2, <2>1 DEF CallReturns, TracerTypes
  <2>3. Invoke(r, calls'[r]) \in Entries
    BY <2>2, EntryFacts
  <2> QED BY <1>2, <2>2, <2>3 DEF CallReturns, TracerTypes
<1>3. ASSUME NEW r \in Requests, RunRaises(r) PROVE TracerTypes'
  BY <1>3, EntryFacts DEF RunRaises, TracerTypes
<1>4. ASSUME NEW r \in Requests, RunReturns(r) PROVE TracerTypes'
  <2>1. current \cup {Run(r)} \in SUBSET Entries
    BY EntryFacts DEF TracerTypes
  <2>2. sessions' \in Seq(SUBSET Entries)
    BY <1>4, <2>1, AppendProperties DEF RunReturns, TracerTypes
  <2> QED BY <1>4, <2>2 DEF RunReturns, TracerTypes
<1>5. ASSUME NEW r \in Requests, Unrecorded(r) PROVE TracerTypes'
  BY <1>5 DEF Unrecorded, tracerVars, TracerTypes
<1>6. CASE UNCHANGED timedVars
  BY <1>6 DEF timedVars, tracerVars, TracerTypes
<1> QED BY <1>1, <1>2, <1>3, <1>4, <1>5, <1>6 DEF TimedNext

(* A step that records nothing, and what it may do to the phases.          *)
LEMMA NothingRecorded ==
    ASSUME InOnePlace, OverIsRecorded, OneTurnPerSession, UNCHANGED <<current, sessions, calls>>,
           \A q \in Requests :
              /\ pc'[q] \in {"idle", "accepted", "started", "refused"} =>
                    pc[q] \in {"idle", "accepted", "started", "refused"}
              /\ pc'[q] \in {"failing", "done"} <=> pc[q] \in {"failing", "done"}
              /\ answer'[q] # answer[q] => pc[q] \notin {"failing", "done"}
    PROVE  (InOnePlace /\ OverIsRecorded /\ OneTurnPerSession)'
<1>1. \A e : Recorded(e)' <=> Recorded(e)
  BY DEF Recorded, Closed
<1>2. InOnePlace'
  BY DEF InOnePlace, Closed
<1>3. OverIsRecorded'
  BY <1>1 DEF OverIsRecorded
<1>4. \A q \in Requests : Recorded(Run(q)) => answer'[q] = answer[q]
  BY DEF OverIsRecorded
<1>5. OneTurnPerSession'
  BY <1>4 DEF OneTurnPerSession, Recorded, Closed
<1> QED BY <1>2, <1>3, <1>5

LEMMA RunStartsStep ==
    ASSUME TracerInv, NEW r \in Requests, RunStarts(r)
    PROVE  (InOnePlace /\ OverIsRecorded /\ OneTurnPerSession)'
<1>1. /\ TypeOK /\ TracerTypes /\ InOnePlace /\ OverIsRecorded /\ OneTurnPerSession
      /\ pc[r] = "started" /\ UNCHANGED <<sessions, calls>>
      /\ pc' = [pc EXCEPT ![r] = "replied"] \/ pc' = [pc EXCEPT ![r] = "running"]
      /\ answer' = [answer EXCEPT ![r] = "budget"] \/ UNCHANGED answer
  BY DEF TracerInv, RunStarts, CheckBudget, GoTo
<1>2. CASE ~ended
  BY <1>1, <1>2, NothingRecorded DEF RunStarts, TypeOK
<1>3. CASE ended
  <2>1. /\ Wait(r) \in Entries /\ ~Recorded(Wait(r)) /\ ~Recorded(Run(r))
        /\ current' = current \cup {Wait(r)}
    BY <1>1, <1>3, EntryFacts DEF OverIsRecorded, RunStarts
  <2>2. InOnePlace' /\ \A x \in Entries : Recorded(x)' <=> Recorded(x) \/ x = Wait(r)
    BY <1>1, <2>1, EntryAdded
  <2>3. OverIsRecorded'
    <3>1. pc \in [Requests -> Phases]
      BY <1>1 DEF TypeOK
    <3> QED BY <1>1, <2>2, <3>1, EntryFacts DEF OverIsRecorded
  <2>4. \A q \in Requests : Recorded(Run(q)) => answer'[q] = answer[q]
    BY <1>1, <2>1 DEF TypeOK
  <2>5. OneTurnPerSession'
    BY <1>1, <2>1, <2>4, EntryFacts DEF OneTurnPerSession, Recorded, Closed
  <2> QED BY <2>2, <2>3, <2>5
<1> QED BY <1>2, <1>3

LEMMA CallReturnsStep ==
    ASSUME TracerInv, NEW r \in Requests, CallReturns(r)
    PROVE  (InOnePlace /\ OverIsRecorded /\ OneTurnPerSession)'
<1> DEFINE k == calls[r] + 1
<1>1. /\ TypeOK /\ TracerTypes /\ InOnePlace /\ OverIsRecorded /\ OneTurnPerSession
      /\ pc[r] = "running" /\ UNCHANGED <<pc, answer, sessions>>
      /\ calls[r] \in 0..MaxCalls /\ calls[r] < MaxCalls /\ MaxCalls \in Nat
      /\ calls' = [calls EXCEPT ![r] = @ + 1]
      /\ calls \in [Requests -> 0..MaxCalls]
  BY TracerAssumption DEF TracerInv, TracerTypes, CallReturns, vars
<1>2. k \in 1..MaxCalls /\ calls'[r] = k /\ current' = current \cup {Invoke(r, k)}
  BY <1>1 DEF CallReturns
<1>3. Invoke(r, k) \in Entries /\ ~Recorded(Invoke(r, k))
  BY <1>1, <1>2, EntryFacts DEF OverIsRecorded
<1>4. InOnePlace' /\ \A x \in Entries : Recorded(x)' <=> Recorded(x) \/ x = Invoke(r, k)
  BY <1>1, <1>2, <1>3, EntryAdded
<1>5. OverIsRecorded'
  <2> SUFFICES ASSUME NEW q \in Requests
      PROVE /\ Recorded(Wait(q))' => pc[q] \notin {"idle", "accepted", "started", "refused"}
            /\ \A m \in 1..MaxCalls : Recorded(Invoke(q, m))' <=> m <= calls'[q]
            /\ Recorded(Run(q))' <=> pc[q] \in {"failing", "done"}
    BY <1>1 DEF OverIsRecorded
  <2>1. /\ Recorded(Wait(q))' => pc[q] \notin {"idle", "accepted", "started", "refused"}
        /\ Recorded(Run(q))' <=> pc[q] \in {"failing", "done"}
    BY <1>1, <1>2, <1>4, EntryFacts DEF OverIsRecorded
  <2>2. ASSUME NEW m \in 1..MaxCalls PROVE Recorded(Invoke(q, m))' <=> m <= calls'[q]
    <3>1. Recorded(Invoke(q, m))' <=> m <= calls[q] \/ (q = r /\ m = k)
      BY <1>1, <1>2, <1>4, EntryFacts DEF OverIsRecorded
    <3>2. calls[q] \in 0..MaxCalls /\ calls'[q] = IF q = r THEN k ELSE calls[q]
      BY <1>1
    <3> QED BY <1>1, <3>1, <3>2
  <2> QED BY <2>1, <2>2
<1>6. OneTurnPerSession'
  BY <1>1, <1>2, EntryFacts DEF OneTurnPerSession
<1> QED BY <1>4, <1>5, <1>6

LEMMA RunRaisesStep ==
    ASSUME TracerInv, NEW r \in Requests, RunRaises(r)
    PROVE  (InOnePlace /\ OverIsRecorded /\ OneTurnPerSession)'
<1>1. /\ TypeOK /\ TracerTypes /\ InOnePlace /\ OverIsRecorded /\ OneTurnPerSession
      /\ pc[r] = "running" /\ UNCHANGED <<sessions, calls>>
      /\ pc' = [pc EXCEPT ![r] = "failing"]
      /\ answer' = [answer EXCEPT ![r] = "error"]
      /\ current' = current \cup {Run(r)}
  BY DEF TracerInv, RunRaises, TurnRaises, GoTo
<1>2. Run(r) \in Entries /\ ~Recorded(Run(r))
  BY <1>1, EntryFacts DEF OverIsRecorded
<1>3. InOnePlace' /\ \A x \in Entries : Recorded(x)' <=> Recorded(x) \/ x = Run(r)
  BY <1>1, <1>2, EntryAdded
<1>4. OverIsRecorded'
  BY <1>1, <1>3, EntryFacts DEF OverIsRecorded, TypeOK
<1>5. \A q \in Requests : Recorded(Run(q)) => answer'[q] = answer[q]
  BY <1>1, <1>2 DEF TypeOK
<1>6. answer'[r] = "error"
  BY <1>1 DEF TypeOK
<1>7. OneTurnPerSession'
  BY <1>1, <1>5, <1>6, EntryFacts DEF OneTurnPerSession, Recorded, Closed
<1> QED BY <1>3, <1>4, <1>7

LEMMA RunReturnsStep ==
    ASSUME TracerInv, NEW r \in Requests, RunReturns(r)
    PROVE  (InOnePlace /\ OverIsRecorded /\ OneTurnPerSession)'
<1>1. /\ TypeOK /\ TracerTypes /\ InOnePlace /\ OverIsRecorded /\ OneTurnPerSession
      /\ pc[r] = "completing" /\ UNCHANGED <<answer, calls>>
      /\ pc' = [pc EXCEPT ![r] = "done"]
      /\ sessions' = Append(sessions, current \cup {Run(r)}) /\ current' = {}
  BY DEF TracerInv, RunReturns, FinalizeTurn, GoTo
<1>2. Run(r) \in Entries /\ ~Recorded(Run(r))
  BY <1>1, EntryFacts DEF OverIsRecorded
<1>3. /\ InOnePlace' /\ \A x \in Entries : Recorded(x)' <=> Recorded(x) \/ x = Run(r)
      /\ DOMAIN sessions' = DOMAIN sessions \cup {Len(sessions) + 1}
      /\ \A i \in DOMAIN sessions : sessions'[i] = sessions[i]
      /\ sessions'[Len(sessions) + 1] = current \cup {Run(r)}
  BY <1>1, <1>2, SessionClosed
<1>4. OverIsRecorded'
  BY <1>1, <1>3, EntryFacts DEF OverIsRecorded, TypeOK
<1>5. OneTurnPerSession'
  <2> SUFFICES ASSUME NEW i \in DOMAIN sessions'
      PROVE \E p \in Requests :
               /\ Run(p) \in sessions'[i]
               /\ \A q \in Requests : Run(q) \in sessions'[i] /\ answer[q] # "error" => q = p
    BY <1>1 DEF OneTurnPerSession
  <2>1. CASE i \in DOMAIN sessions
    BY <1>1, <1>3, <2>1 DEF OneTurnPerSession
  <2>2. CASE i = Len(sessions) + 1
    <3>1. /\ Run(r) \in sessions'[i]
          /\ \A q \in Requests : Run(q) \in sessions'[i] /\ answer[q] # "error" => q = r
      BY <1>1, <1>3, <2>2, EntryFacts DEF OneTurnPerSession
    <3> QED BY <3>1
  <2> QED BY <1>3, <2>1, <2>2
<1> QED BY <1>3, <1>4, <1>5

LEMMA UnrecordedStep ==
    ASSUME TracerInv, NEW r \in Requests, Unrecorded(r)
    PROVE  (InOnePlace /\ OverIsRecorded /\ OneTurnPerSession)'
<1>1. /\ TypeOK /\ InOnePlace /\ OverIsRecorded /\ OneTurnPerSession
      /\ UNCHANGED <<current, sessions, calls>>
  BY DEF TracerInv, Unrecorded, tracerVars
<1> USE DEF TypeOK, GoTo
<1>2. CASE Accept(r)
  BY <1>1, <1>2, NothingRecorded DEF Accept, AcceptNew, AcceptFor
<1>3. CASE FindAgent(r)
  BY <1>1, <1>3, NothingRecorded DEF FindAgent
<1>4. CASE TurnAnswers(r)
  BY <1>1, <1>4, NothingRecorded DEF TurnAnswers
<1>5. CASE Complete(r)
  BY <1>1, <1>5, NothingRecorded DEF Complete
<1>6. CASE Fail(r)
  BY <1>1, <1>6, NothingRecorded DEF Fail
<1> QED BY <1>2, <1>3, <1>4, <1>5, <1>6 DEF Unrecorded

(* Recording is a layer on the executor: it changes nothing of it.         *)
LEMMA TimedStutters == [TimedNext]_timedVars => [Next]_vars
BY DEF TimedNext, Next, Execute, RunStarts, CallReturns, RunRaises, RunReturns, Unrecorded,
       timedVars

(* What is proved of the executor holds with its time tracer.              *)
THEOREM TimedImplementsExecutor == TimedSpec => Spec
<1>1. TimedInit => Init
  BY DEF TimedInit
<1> QED BY <1>1, TimedStutters, PTL DEF TimedSpec, Spec

LEMMA TracerStep == TypeOK' /\ TracerInv /\ [TimedNext]_timedVars => TracerInv'
<1> SUFFICES ASSUME TypeOK', TracerInv, [TimedNext]_timedVars PROVE TracerInv'
  OBVIOUS
<1>1. TracerTypes'
  BY TracerTypesStep DEF TracerInv
<1>2. (InOnePlace /\ OverIsRecorded /\ OneTurnPerSession)'
  <2>1. CASE UNCHANGED timedVars
    BY <2>1, NothingRecorded DEF timedVars, vars, tracerVars, TracerInv
  <2>2. CASE TimedNext
    BY <2>2, RunStartsStep, CallReturnsStep, RunRaisesStep, RunReturnsStep, UnrecordedStep
       DEF TimedNext
  <2> QED BY <2>1, <2>2
<1> QED BY <1>1, <1>2 DEF TracerInv

LEMMA TracerInit == TimedInit => TracerInv
<1> SUFFICES ASSUME TimedInit PROVE TracerInv
  OBVIOUS
<1>1. TypeOK /\ Init /\ current = {} /\ sessions = <<>>
  BY RoutedInit DEF RoutedInv, TimedInit
<1>2. \A e : ~Recorded(e)
  BY <1>1 DEF Recorded, Closed
<1>3. OverIsRecorded
  BY <1>1, <1>2, TracerAssumption DEF OverIsRecorded, TimedInit, Init
<1>4. TracerTypes
  <2>1. sessions \in Seq(SUBSET Entries)
    BY <1>1
  <2>2. ended \in BOOLEAN /\ calls \in [Requests -> 0..MaxCalls]
    <3>1. 0 \in 0..MaxCalls
      BY TracerAssumption
    <3>2. ended = FALSE /\ calls = [r \in Requests |-> 0]
      BY DEF TimedInit
    <3> QED BY <3>1, <3>2
  <2> QED BY <1>1, <2>1, <2>2 DEF TracerTypes
<1>5. DOMAIN sessions = {}
  BY <1>1
<1>6. InOnePlace
  BY <1>1, <1>5 DEF InOnePlace, Closed
<1>7. OneTurnPerSession
  BY <1>1, <1>5 DEF OneTurnPerSession
<1> QED BY <1>1, <1>3, <1>4, <1>6, <1>7 DEF TracerInv

(* What holds of the recorded entries at every moment.                     *)
THEOREM TracerHolds == TimedSpec => []TracerInv
<1>1. TypeOK' /\ TracerInv /\ [TimedNext]_timedVars => TracerInv'
  BY TracerStep
<1> QED BY <1>1, TracerInit, TimedImplementsExecutor, ExecutorTypes, PTL DEF TimedSpec

(* The types of the executor's and the tracer's state.                     *)
THEOREM TimedTypes == TimedSpec => []TimedTypeOK
<1>1. TracerInv => TimedTypeOK
  BY DEF TracerInv, TracerTypes, TimedTypeOK
<1> QED BY <1>1, TracerHolds, PTL

(* A closed session holds the run of exactly one answered turn, however    *)
(* the turns of however many contexts overlap.                             *)
THEOREM OneTurnPerSessionHolds == TimedSpec => []OneTurnPerSession
<1>1. TracerInv => OneTurnPerSession
  BY DEF TracerInv
<1> QED BY <1>1, TracerHolds, PTL

(* An entry is counted once when it is recorded and never otherwise.       *)
LEMMA RecordedOnce ==
    ASSUME TracerInv, NEW e \in Entries
    PROVE  Times(e) = IF Recorded(e) THEN 1 ELSE 0
<1> DEFINE places == { i \in DOMAIN sessions : e \in sessions[i] }
<1>1. InOnePlace
  BY DEF TracerInv
<1>2. Cardinality(places) = IF Closed(e) THEN 1 ELSE 0
  <2>1. CASE Closed(e)
    <3>1. PICK i \in DOMAIN sessions : e \in sessions[i]
      BY <2>1 DEF Closed
    <3>2. places = {i}
      BY <1>1, <3>1 DEF InOnePlace
    <3> QED BY <2>1, <3>2, FS_Singleton
  <2>2. CASE ~Closed(e)
    <3>1. places = {}
      BY <2>2 DEF Closed
    <3> QED BY <2>2, <3>1, FS_EmptySet
  <2> QED BY <2>1, <2>2
<1>3. Times(e) = Cardinality(places) + (IF e \in current THEN 1 ELSE 0)
  BY DEF Times
<1> QED BY <1>1, <1>2, <1>3 DEF InOnePlace, Recorded

(* No timing entry is lost or counted twice, for any number of turns that  *)
(* rotate the session under each other.                                    *)
THEOREM EntriesConservedHolds == TimedSpec => []EntriesConserved
<1>1. TracerInv => EntriesConserved
  <2> SUFFICES ASSUME TracerInv, NEW r \in Requests
      PROVE /\ Times(Wait(r)) <= 1
            /\ \A k \in 1..MaxCalls :
                  Times(Invoke(r, k)) = IF k <= calls[r] THEN 1 ELSE 0
            /\ Times(Run(r)) = IF pc[r] \in {"failing", "done"} THEN 1 ELSE 0
    BY DEF EntriesConserved
  <2>1. Times(Wait(r)) <= 1
    BY EntryFacts, RecordedOnce
  <2>2. ASSUME NEW k \in 1..MaxCalls
        PROVE  Times(Invoke(r, k)) = IF k <= calls[r] THEN 1 ELSE 0
    <3>1. Recorded(Invoke(r, k)) <=> k <= calls[r]
      BY DEF TracerInv, OverIsRecorded
    <3> QED BY <3>1, EntryFacts, RecordedOnce
  <2>3. Times(Run(r)) = IF pc[r] \in {"failing", "done"} THEN 1 ELSE 0
    <3>1. Recorded(Run(r)) <=> pc[r] \in {"failing", "done"}
      BY DEF TracerInv, OverIsRecorded
    <3> QED BY <3>1, EntryFacts, RecordedOnce
  <2> QED BY <2>1, <2>2, <2>3
<1> QED BY <1>1, TracerHolds, PTL
=============================================================================
