----------------------------- MODULE TimeTracer -----------------------------
(***************************************************************************)
(* The executor with what its runs record: TimeTracer (utils.py) keeps one *)
(* session of timing entries for the whole process.  @timed adds an entry  *)
(* when an LLM call or a run is over, @inverse_timed the gap before a run, *)
(* and finalize_turn closes the session and opens the next, while turns of *)
(* any context are recording.  Each action is one of the executor's with   *)
(* its entries; an LLM call inside a turn is a step of its own.            *)
(***************************************************************************)
EXTENDS Executor, Sequences

CONSTANT MaxCalls  \* bound: LLM calls of one turn that are recorded

ASSUME TracerAssumption == MaxCalls \in Nat

VARIABLES current,   \* current_session: the entries, by message
          sessions,  \* timer_sessions
          ended,     \* last_end_time is set: some run has ended
          calls      \* per message: LLM calls its turn has made

tracerVars == <<current, sessions, ended, calls>>
timedVars  == <<vars, tracerVars>>

(* What is recorded for a message: the gap before its run (0), its LLM     *)
(* calls (1 to MaxCalls) and its run.                                      *)
Entries == Requests \X (0..MaxCalls + 1)

Wait(r) == <<r, 0>>
Invoke(r, k) == <<r, k>>
Run(r) == <<r, MaxCalls + 1>>

TimedTypeOK ==
    /\ TypeOK
    /\ current \subseteq Entries
    /\ sessions \in Seq(SUBSET Entries)
    /\ ended \in BOOLEAN
    /\ calls \in [Requests -> 0..MaxCalls]

TimedInit ==
    /\ Init
    /\ current = {}
    /\ sessions = <<>>
    /\ ended = FALSE
    /\ calls = [r \in Requests |-> 0]
-----------------------------------------------------------------------------
(* From the second run of the process on, the time since the last end goes *)
(* to the session, whichever context that end was in.                      *)
RunStarts(r) ==
    /\ CheckBudget(r)
    /\ current' = IF ended THEN current \cup {Wait(r)} ELSE current
    /\ UNCHANGED <<sessions, ended, calls>>

(* An LLM call of the turn answers or raises: "finally" records it.        *)
CallReturns(r) ==
    /\ pc[r] = "running"
    /\ calls[r] < MaxCalls
    /\ calls' = [calls EXCEPT ![r] = @ + 1]
    /\ current' = current \cup {Invoke(r, calls'[r])}
    /\ UNCHANGED <<vars, sessions, ended>>

(* An error leaves run at once, and nothing closes the session.            *)
RunRaises(r) ==
    /\ TurnRaises(r)
    /\ current' = current \cup {Run(r)}
    /\ ended' = TRUE
    /\ UNCHANGED <<sessions, calls>>

(* Mutant: new_session closes the session without opening an empty one.    *)
RunReturnsKeepsSession(r) ==
    /\ FinalizeTurn(r)
    /\ current' = current \cup {Run(r)}
    /\ sessions' = Append(sessions, current')
    /\ ended' = TRUE
    /\ UNCHANGED calls

(* Mutant: the session is rotated inside run, before its entry is made.    *)
RunReturnsRotated(r) ==
    /\ FinalizeTurn(r)
    /\ sessions' = Append(sessions, current)
    /\ current' = {Run(r)}
    /\ ended' = TRUE
    /\ UNCHANGED calls

(* The run has answered: its entry goes to the session, last_end_time is   *)
(* set, and finalize_turn rotates the session, without an await between.   *)
RunReturns(r) ==
    /\ FinalizeTurn(r)
    /\ sessions' = Append(sessions, current \cup {Run(r)})
    /\ current' = {}
    /\ ended' = TRUE
    /\ UNCHANGED calls

Unrecorded(r) ==
    /\ Accept(r) \/ FindAgent(r) \/ TurnAnswers(r) \/ Complete(r) \/ Fail(r)
    /\ UNCHANGED tracerVars

TimedNext ==
    \E r \in Requests :
        RunStarts(r) \/ CallReturns(r) \/ RunRaises(r) \/ RunReturns(r) \/ Unrecorded(r)

TimedSpec == TimedInit /\ [][TimedNext]_timedVars
-----------------------------------------------------------------------------
Times(e) == Cardinality({ i \in DOMAIN sessions : e \in sessions[i] })
            + (IF e \in current THEN 1 ELSE 0)

(* The timing entries are conserved, whatever other turns rotate in        *)
(* between: each call and each run that is over is in exactly one session, *)
(* closed or current, and no entry is there twice or ahead of time.        *)
EntriesConserved ==
    \A r \in Requests :
        /\ Times(Wait(r)) <= 1
        /\ \A k \in 1..MaxCalls :
              Times(Invoke(r, k)) = IF k <= calls[r] THEN 1 ELSE 0
        /\ Times(Run(r)) = IF pc[r] \in {"failing", "done"} THEN 1 ELSE 0

(* The entry of a run is not stranded in the next turn's session (the      *)
(* docstring of finalize_turn): a closed session holds the run of exactly  *)
(* one answered turn, the one that closed it, and the open one holds only  *)
(* runs that raised.                                                       *)
OneTurnPerSession ==
    /\ \A i \in DOMAIN sessions :
          \E r \in Requests :
              /\ Run(r) \in sessions[i]
              /\ \A q \in Requests :
                    Run(q) \in sessions[i] /\ answer[q] # "error" => q = r
    /\ \A r \in Requests : Run(r) \in current => answer[r] = "error"
=============================================================================
