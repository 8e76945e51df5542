---------------------------- MODULE CriticProofs ----------------------------
(***************************************************************************)
(* Proofs about the Critic, for every number of attempts and every class   *)
(* of command, answer and error.                                           *)
(***************************************************************************)
EXTENDS Critic, TLAPS

(* The static check passes only what the filters pass, and what a usable   *)
(* bash accepts; it forgets no probe.                                      *)
LEMMA CheckProperties ==
    ASSUME NEW c \in CheckedCommands, NEW b \in BashStates,
           NEW check \in CheckOutcomes(c, b)
    PROVE  /\ check.bash \in BashStates
           /\ check.class \in {"clean", "flagged", "blank"}
           /\ b # "unprobed" => check.bash = b
           /\ check.class = "clean" =>
                 /\ ~Filtered(c) /\ ~Trips(c)
                 /\ check.bash = "usable" => c.grammatical
<1>1. CASE Trips(c)
  BY <1>1 DEF CheckOutcomes, BashStates
<1>2. CASE ~Trips(c) /\ Filtered(c)
  BY <1>2 DEF CheckOutcomes, BashStates
<1>3. CASE ~Trips(c) /\ ~Filtered(c)
  <2>0. PICK p \in ProbeBash(b) :
           \E k \in GrammarOutcomes(c, p) : check = [class |-> k, bash |-> p]
    BY <1>3 DEF CheckOutcomes
  <2>1. PICK k \in GrammarOutcomes(c, p) : check = [class |-> k, bash |-> p]
    BY <2>0
  <2>2. p \in BashStates /\ (b # "unprobed" => p = b)
    BY DEF ProbeBash, BashStates
  <2>3. k \in {"clean", "flagged"} /\ (k = "clean" /\ p = "usable" => c.grammatical)
    BY DEF GrammarOutcomes
  <2> QED BY <1>3, <2>1, <2>2, <2>3
<1> QED BY <1>1, <1>2, <1>3

(* The record types of the results and of the answers.                     *)
LEMMA ResultTypes ==
    /\ NotReturned \in [outcome : {"none", "verdict", "raised"}, approved : BOOLEAN,
                        error : BOOLEAN]
    /\ \A b \in BOOLEAN : Verdict(b) \in [outcome : {"none", "verdict", "raised"},
                                         approved : BOOLEAN, error : BOOLEAN]
    /\ ErrorVerdict \in [outcome : {"none", "verdict", "raised"}, approved : BOOLEAN,
                         error : BOOLEAN]
    /\ Raised \in [outcome : {"none", "verdict", "raised"}, approved : BOOLEAN,
                   error : BOOLEAN]
    /\ NoAnswer \in Answers
    /\ NoCommand \in CheckedCommands
    /\ \A a \in Answers : Approving(a) \in BOOLEAN
BY DEF NotReturned, Verdict, ErrorVerdict, Raised, NoAnswer, Answers, NoCommand,
       CheckedCommands, CommandShapes, Approving, Valid, Parses

(* What a step preserves of the calls: the bound, for the attempt under    *)
(* way and for those before it, and that each attempt still owes its       *)
(* first call when it asks and its second one when it retries.             *)
CallsInv ==
    /\ CallsBounded
    /\ pc = "asking" => asked = 0
    /\ pc = "retrying" => asked = 1

(* What the state of a review says about its static check and its result.  *)
StaticInv ==
    /\ pc = "idle" => static = "none" /\ result = NotReturned
    /\ pc \in {"asking", "retrying"} =>
          static \in {"clean", "flagged"} /\ result = NotReturned
    /\ static = "clean" => /\ ~Filtered(command) /\ ~Trips(command)
                           /\ bash = "usable" => command.grammatical
    /\ result.approved => static = "clean" /\ Approving(heard) /\ ~result.error

CriticInv == TypeOK /\ CallsInv /\ StaticInv

LEMMA InitHolds == Init => CriticInv
<1> SUFFICES ASSUME Init PROVE CriticInv
  OBVIOUS
<1>1. TypeOK
  BY ResultTypes, CriticAssumption DEF Init, TypeOK, BashStates
<1>2. CallsInv /\ StaticInv
  BY DEF Init, CallsInv, CallsBounded, StaticInv, NotReturned
<1> QED BY <1>1, <1>2 DEF CriticInv

(* One more call keeps the bound, in this attempt or at the end of it.     *)
LEMMA AskKeepsBound ==
    ASSUME TypeOK, CallsInv, pc \in {"asking", "retrying"}, Ask,
           attempt' \in 1..MaxVerdictAttempts,
           \/ attempt' = attempt /\ pc' = "answered"
           \/ attempt' = attempt /\ pc = "asking" /\ pc' = "retrying"
           \/ attempt' = attempt + 1 /\ pc' = "asking"
    PROVE  CallsInv' /\ calls' \in 0..2 * MaxVerdictAttempts /\ asked' \in 0..2
<1>1. /\ MaxVerdictAttempts \in Nat /\ attempt \in Nat /\ attempt' \in Nat
      /\ 1 <= attempt' /\ attempt' <= MaxVerdictAttempts
      /\ calls \in Nat /\ calls' = calls + 1
      /\ asked \in 0..1 /\ attempt - 1 + asked <= calls
      /\ calls <= 2 * (attempt - 1) + asked
  BY CriticAssumption DEF TypeOK, CallsInv, CallsBounded, Ask
<1>2. CASE attempt' = attempt /\ pc' = "answered"
  <2>1. asked' = asked + 1
    BY <1>2 DEF Ask
  <2> QED BY <1>1, <1>2, <2>1 DEF CallsInv, CallsBounded
<1>3. CASE attempt' = attempt /\ pc = "asking" /\ pc' = "retrying"
  <2>1. asked = 0 /\ asked' = 1
    BY <1>3 DEF Ask, CallsInv
  <2> QED BY <1>1, <1>3, <2>1 DEF CallsInv, CallsBounded
<1>4. CASE attempt' = attempt + 1 /\ pc' = "asking"
  <2>1. asked' = 0
    BY <1>1, <1>4 DEF Ask
  <2> QED BY <1>1, <1>4, <2>1 DEF CallsInv, CallsBounded
<1> QED BY <1>2, <1>3, <1>4

(* What an answer of the LLM does to the review.                           *)
LEMMA AnswerStep ==
    ASSUME CriticInv, NEW a \in Answers, Answer(a)
    PROVE  CriticInv'
<1>1. /\ TypeOK /\ CallsInv /\ Ask
      /\ pc \in {"asking", "retrying"} /\ heard' = a
      /\ bash' = bash /\ command' = command /\ static' = static
  BY DEF CriticInv, Answer, HandleAnswer
<1>2. CASE Valid(a) /\ Return(Verdict(Approving(a) /\ static = "clean")) /\ UNCHANGED attempt
  <2>1. /\ result'.approved = (Approving(a) /\ static = "clean")
        /\ ~result'.error /\ pc' = "answered"
    BY <1>2 DEF Return, Verdict
  <2>2. CallsInv' /\ calls' \in 0..2 * MaxVerdictAttempts /\ asked' \in 0..2
    BY <1>1, <1>2, <2>1, AskKeepsBound DEF TypeOK
  <2>3. TypeOK'
    <3>1. (Approving(a) /\ static = "clean") \in BOOLEAN
      OBVIOUS
    <3>2. result' \in [outcome : {"none", "verdict", "raised"}, approved : BOOLEAN,
                       error : BOOLEAN]
      BY <1>2, <3>1, ResultTypes DEF Return
    <3> QED
      BY <1>1, <1>2, <2>1, <2>2, <3>2 DEF TypeOK
  <2>4. StaticInv'
    BY <1>1, <2>1 DEF CriticInv, StaticInv
  <2> QED BY <2>2, <2>3, <2>4 DEF CriticInv
<1>3. CASE /\ attempt < MaxVerdictAttempts /\ attempt' = attempt + 1
           /\ pc' = "asking" /\ UNCHANGED result
  <2>1. attempt' \in 1..MaxVerdictAttempts
    BY <1>1, <1>3, CriticAssumption DEF TypeOK
  <2>2. CallsInv' /\ calls' \in 0..2 * MaxVerdictAttempts /\ asked' \in 0..2
    BY <1>1, <1>3, <2>1, AskKeepsBound
  <2>3. TypeOK'
    BY <1>1, <1>3, <2>1, <2>2 DEF TypeOK
  <2>4. StaticInv'
    BY <1>1, <1>3 DEF CriticInv, StaticInv, NotReturned
  <2> QED BY <2>2, <2>3, <2>4 DEF CriticInv
<1>4. CASE Return(ErrorVerdict) /\ UNCHANGED attempt
  <2>1. result' = ErrorVerdict /\ ~result'.approved /\ pc' = "answered"
    BY <1>4 DEF Return, ErrorVerdict
  <2>2. CallsInv' /\ calls' \in 0..2 * MaxVerdictAttempts /\ asked' \in 0..2
    BY <1>1, <1>4, <2>1, AskKeepsBound DEF TypeOK
  <2>3. TypeOK'
    BY <1>1, <1>4, <2>1, <2>2, ResultTypes DEF TypeOK
  <2>4. StaticInv'
    BY <1>1, <2>1 DEF CriticInv, StaticInv
  <2> QED BY <2>2, <2>3, <2>4 DEF CriticInv
<1> QED BY <1>2, <1>3, <1>4 DEF Answer, HandleAnswer

LEMMA InvStep == CriticInv /\ [Next]_vars => CriticInv'
<1> SUFFICES ASSUME CriticInv, [Next]_vars PROVE CriticInv'
  OBVIOUS
<1>1. ASSUME NEW c \in CheckedCommands, Invoke(c) PROVE CriticInv'
  <2>1. PICK check \in CheckOutcomes(c, bash) :
           /\ bash' = check.bash
           /\ static' = check.class
           /\ IF check.class = "blank"
              THEN pc' = "answered" /\ result' = Raised
              ELSE pc' = "asking" /\ result' = NotReturned
    BY <1>1 DEF Invoke
  <2>2. /\ check.bash \in BashStates
        /\ check.class \in {"clean", "flagged", "blank"}
        /\ check.class = "clean" =>
              /\ ~Filtered(c) /\ ~Trips(c)
              /\ check.bash = "usable" => c.grammatical
    BY CheckProperties DEF CriticInv, TypeOK
  <2>3. command' = c /\ attempt' = 1 /\ calls' = 0 /\ asked' = 0 /\ heard' = NoAnswer
    BY <1>1 DEF Invoke
  <2>4. ~Raised.approved /\ ~NotReturned.approved
    BY DEF Raised, NotReturned
  <2>5. TypeOK'
    BY <2>1, <2>2, <2>3, ResultTypes, CriticAssumption DEF TypeOK
  <2>6. CallsInv'
    BY <2>1, <2>3 DEF CallsInv, CallsBounded
  <2>7. StaticInv'
    BY <2>1, <2>2, <2>3, <2>4 DEF StaticInv
  <2> QED BY <2>5, <2>6, <2>7 DEF CriticInv
<1>2. ASSUME RetryableError PROVE CriticInv'
  <2>1. CallsInv' /\ calls' \in 0..2 * MaxVerdictAttempts /\ asked' \in 0..2
    BY <1>2, AskKeepsBound DEF CriticInv, TypeOK, RetryableError
  <2>2. TypeOK'
    BY <1>2, <2>1 DEF CriticInv, TypeOK, RetryableError
  <2>3. StaticInv'
    BY <1>2 DEF CriticInv, StaticInv, RetryableError, NotReturned
  <2> QED BY <2>1, <2>2, <2>3 DEF CriticInv
<1>3. ASSUME FinalError PROVE CriticInv'
  <2>1. result' = ErrorVerdict /\ ~result'.approved /\ pc' = "answered"
    BY <1>3 DEF FinalError, Return, ErrorVerdict
  <2>2. CallsInv' /\ calls' \in 0..2 * MaxVerdictAttempts /\ asked' \in 0..2
    BY <1>3, <2>1, AskKeepsBound DEF CriticInv, TypeOK, FinalError
  <2>3. TypeOK'
    BY <1>3, <2>1, <2>2, ResultTypes DEF CriticInv, TypeOK, FinalError
  <2>4. StaticInv'
    BY <1>3, <2>1 DEF CriticInv, StaticInv, FinalError
  <2> QED BY <2>2, <2>3, <2>4 DEF CriticInv
<1>4. ASSUME Dismiss PROVE CriticInv'
  <2>1. TypeOK'
    BY <1>4, ResultTypes, CriticAssumption DEF CriticInv, TypeOK, Dismiss
  <2>2. CallsInv' /\ StaticInv'
    BY <1>4 DEF CallsInv, CallsBounded, StaticInv, Dismiss, NotReturned
  <2> QED BY <2>1, <2>2 DEF CriticInv
<1>5. CASE UNCHANGED vars
  BY <1>5 DEF CriticInv, TypeOK, CallsInv, CallsBounded, StaticInv, vars
<1> QED BY <1>1, <1>2, <1>3, <1>4, <1>5, AnswerStep DEF Next, Review

LEMMA InvHolds == Spec => []CriticInv
BY InitHolds, InvStep, PTL DEF Spec
-----------------------------------------------------------------------------
(* Type correctness of the Critic.                                         *)
THEOREM TypeCorrect == Spec => []TypeOK
<1>1. CriticInv => TypeOK
  BY DEF CriticInv
<1> QED BY <1>1, InvHolds, PTL

(* No command is approved unless the filters, a usable bash and the last   *)
(* answer of the reviewer LLM all let it pass.                             *)
THEOREM ApprovalIsEarned == Spec => []ApprovalEarned
<1>1. CriticInv => ApprovalEarned
  BY DEF CriticInv, StaticInv, ApprovalEarned
<1> QED BY <1>1, InvHolds, PTL

(* No attempt costs more than two LLM calls, and the earlier ones between  *)
(* one and two for each of them in total, for every number of attempts.    *)
THEOREM CallsAreBounded == Spec => []CallsBounded
<1>1. CriticInv => CallsBounded
  BY DEF CriticInv, CallsInv
<1> QED BY <1>1, InvHolds, PTL
-----------------------------------------------------------------------------
(* Every behaviour of the Critic is one of its contract: a step of invoke  *)
(* maps to the step of CriticReview that takes the same command or gives   *)
(* the same verdict, or to a stutter.                                      *)
THEOREM ContractIsKept == Spec => KeepsContract
<1>1. Init => Contract!Init
  BY DEF Init, Contract!Init, NotReturned
<1>2. ASSUME CriticInv, [Next]_vars PROVE [Contract!Next]_(Contract!vars)
  <2>1. ASSUME NEW c \in CheckedCommands, Invoke(c) PROVE Contract!Next
    <3>1. PICK check \in CheckOutcomes(c, bash) :
             /\ static' = check.class
             /\ IF check.class = "blank"
                THEN pc' = "answered" /\ result' = Raised
                ELSE pc' = "asking" /\ result' = NotReturned
      BY <2>1 DEF Invoke
    <3>2. check.class \in Contract!Commands
      BY <1>2, <3>1, CheckProperties DEF CriticInv, TypeOK, Contract!Commands
    <3>3. CASE check.class = "blank"
      <4>1. pc = "idle" /\ pc' = "answered" /\ result'.outcome = "raised"
        BY <2>1, <3>1, <3>3 DEF Invoke, Raised
      <4>2. Contract!Submit(check.class)
        BY <3>1, <3>3, <4>1 DEF Contract!Submit
      <4> QED BY <3>2, <4>2 DEF Contract!Next
    <3>4. CASE check.class # "blank"
      <4>1. pc = "idle" /\ pc' = "asking" /\ result'.outcome = "none"
        BY <2>1, <3>1, <3>4 DEF Invoke, NotReturned
      <4>2. Contract!Submit(check.class)
        BY <3>1, <3>4, <4>1 DEF Contract!Submit
      <4> QED BY <3>2, <4>2 DEF Contract!Next
    <3> QED BY <3>3, <3>4
  <2>2. ASSUME pc \in {"asking", "retrying"}, UNCHANGED static,
               NEW b \in BOOLEAN, b => static = "clean",
               result'.outcome = "verdict", result'.approved = b, pc' = "answered"
        PROVE  Contract!Next
    <3>1. static \in {"clean", "flagged"}
      BY <1>2, <2>2 DEF CriticInv, StaticInv
    <3> DEFINE v == IF b THEN "approve" ELSE "reject"
    <3>2. v \in Contract!CriticOutcomes(static) /\ v \in Contract!Verdicts
      BY <2>2, <3>1 DEF Contract!CriticOutcomes, Contract!Verdicts
    <3>3. Contract!Decide(v)
      BY <2>2, <3>2 DEF Contract!Decide
    <3> QED BY <3>2, <3>3 DEF Contract!Next
  <2>3. ASSUME NEW a \in Answers, Answer(a)
        PROVE  [Contract!Next]_(Contract!vars)
    <3>1. CASE Return(Verdict(Approving(a) /\ static = "clean"))
      BY <2>2, <2>3, <3>1, ResultTypes DEF Answer, Return, Verdict
    <3>2. CASE pc' = "asking" /\ UNCHANGED result
      BY <2>3, <3>2 DEF Answer, Contract!vars
    <3>3. CASE Return(ErrorVerdict)
      BY <2>2, <2>3, <3>3 DEF Answer, Return, ErrorVerdict
    <3> QED BY <2>3, <3>1, <3>2, <3>3 DEF Answer, HandleAnswer
  <2>4. ASSUME RetryableError PROVE UNCHANGED Contract!vars
    BY <2>4 DEF RetryableError, Contract!vars
  <2>5. ASSUME FinalError PROVE Contract!Next
    BY <2>2, <2>5 DEF FinalError, Return, ErrorVerdict
  <2>6. ASSUME Dismiss PROVE Contract!Next
    BY <2>6 DEF Dismiss, Contract!Next, Contract!Dismiss, NotReturned
  <2>7. CASE UNCHANGED vars
    BY <2>7 DEF vars, Contract!vars
  <2> QED BY <1>2, <2>1, <2>3, <2>4, <2>5, <2>6, <2>7 DEF Next, Review
<1> QED BY <1>1, <1>2, InvHolds, PTL DEF Spec, KeepsContract, Contract!Spec
-----------------------------------------------------------------------------
(* The LLM calls a review may still make; the last attempt's are counted   *)
(* like any other's.                                                       *)
CallsLeft == IF pc = "asking" THEN 2 * (MaxVerdictAttempts - attempt) + 2
             ELSE IF pc = "retrying" THEN 2 * (MaxVerdictAttempts - attempt) + 1
             ELSE 0

(* A review under way is not given up: it makes one more of these calls,   *)
(* or ends with a verdict.                                                 *)
UsesCall == pc \in {"asking", "retrying"} =>
                /\ pc' # "idle" /\ calls' = calls + 1
                /\ CallsLeft' \in Nat /\ CallsLeft' < CallsLeft
                /\ pc' = "answered" => result'.outcome = "verdict"

(* No review runs for ever, whatever the reviewer LLM answers or fails     *)
(* with: every step of it spends a call that it cannot spend again, and    *)
(* the only way out is a verdict, never an exception.                      *)
THEOREM ReviewRunsOut == Spec => [][UsesCall]_vars
<1>1. ASSUME CriticInv, Next PROVE UsesCall
  <2>1. MaxVerdictAttempts \in Nat /\ attempt \in 1..MaxVerdictAttempts
    BY <1>1, CriticAssumption DEF CriticInv, TypeOK
  <2>2. ASSUME NEW a \in Answers, Answer(a) PROVE UsesCall
    <3>1. CASE Return(Verdict(Approving(a) /\ static = "clean")) /\ UNCHANGED attempt
      BY <2>1, <2>2, <3>1 DEF Answer, Ask, Return, Verdict, UsesCall, CallsLeft
    <3>2. CASE /\ attempt < MaxVerdictAttempts /\ attempt' = attempt + 1
               /\ pc' = "asking" /\ UNCHANGED result
      BY <2>1, <2>2, <3>2 DEF Answer, Ask, UsesCall, CallsLeft
    <3>3. CASE Return(ErrorVerdict) /\ UNCHANGED attempt
      BY <2>1, <2>2, <3>3 DEF Answer, Ask, Return, ErrorVerdict, UsesCall, CallsLeft
    <3> QED BY <2>2, <3>1, <3>2, <3>3 DEF Answer, HandleAnswer
  <2>3. ASSUME RetryableError PROVE UsesCall
    BY <2>1, <2>3 DEF RetryableError, Ask, UsesCall, CallsLeft
  <2>4. ASSUME FinalError PROVE UsesCall
    BY <2>1, <2>4 DEF FinalError, Ask, Return, ErrorVerdict, UsesCall, CallsLeft
  <2>5. ASSUME pc \notin {"asking", "retrying"} PROVE UsesCall
    BY <2>5 DEF UsesCall
  <2> QED BY <1>1, <2>2, <2>3, <2>4, <2>5 DEF Next, Review, Invoke, Dismiss
<1> QED BY <1>1, InvHolds, PTL DEF Spec
=============================================================================
