------------------------------- MODULE Critic -------------------------------
(***************************************************************************)
(* CriticAgent.invoke (agents/critic.py): the static check, then up to     *)
(* MaxVerdictAttempts questions to the reviewer LLM, each with one retry   *)
(* of a transient failure, until an answer parses.  Reviews of different   *)
(* turns share nothing but the probe cache, and the static check has no    *)
(* await in it, so one review at a time shows them all.                    *)
(***************************************************************************)
EXTENDS Naturals, ExecRequestChecker

CONSTANT MaxVerdictAttempts  \* _max_verdict_attempts

ASSUME CriticAssumption == MaxVerdictAttempts \in Nat \ {0}

VARIABLES bash,     \* ExecRequestChecker._bash_available
          pc,       \* "idle", "asking", "retrying" or "answered"
          command,  \* the command under review
          static,   \* what the static check made of it
          attempt,  \* the loop variable
          calls,    \* LLM calls made for this review
          asked,    \* those of them made in the current attempt
          heard,    \* the last LLM answer
          result    \* the CriticVerdict returned, or "raised"

vars == <<bash, pc, command, static, attempt, calls, asked, heard, result>>

NoCommand == [text |-> "empty", first |-> "other", alone |-> FALSE,
              destructive |-> FALSE, grammatical |-> TRUE]

(* An LLM answer: excess braces around its JSON object, an object whose    *)
(* last member is itself an object, prose around it, and what "approved"   *)
(* holds ("missing": no such key, or no JSON at all).                      *)
Answers == [ wrapped  : BOOLEAN, nested : BOOLEAN, prose : BOOLEAN,
             approved : {"true", "false", "text", "missing"} ]

NoAnswer == [wrapped |-> FALSE, nested |-> FALSE, prose |-> FALSE,
             approved |-> "missing"]

(* _parse_verdict finds the object.  Stripping excess braces also strips   *)
(* the closing brace of a nested object; prose leaves only the greedy      *)
(* search from the first to the last brace, which keeps the excess ones.   *)
Parses(a) == IF a.prose THEN ~a.wrapped ELSE ~a.wrapped \/ ~a.nested

Valid(a) == Parses(a) /\ a.approved # "missing"

(* bool(data["approved"]): any non-empty text counts as approval.          *)
Approving(a) == Valid(a) /\ a.approved \in {"true", "text"}

NotReturned == [outcome |-> "none", approved |-> FALSE, error |-> FALSE]
Verdict(approved) == [outcome |-> "verdict", approved |-> approved, error |-> FALSE]
ErrorVerdict == [outcome |-> "verdict", approved |-> FALSE, error |-> TRUE]
Raised == [outcome |-> "raised", approved |-> FALSE, error |-> TRUE]

Init ==
    /\ bash = "unprobed"
    /\ pc = "idle"
    /\ command = NoCommand
    /\ static = "none"
    /\ attempt = 1
    /\ calls = 0
    /\ asked = 0
    /\ heard = NoAnswer
    /\ result = NotReturned
-----------------------------------------------------------------------------
(* The turn handler calls invoke; the static check runs at once.           *)
Invoke(c) ==
    /\ pc = "idle"
    /\ command' = c
    /\ \E check \in CheckOutcomes(c, bash) :
          /\ bash' = check.bash
          /\ static' = check.class
          /\ IF check.class = "blank"
             THEN pc' = "answered" /\ result' = Raised
             ELSE pc' = "asking" /\ result' = NotReturned
    /\ attempt' = 1
    /\ calls' = 0
    /\ asked' = 0
    /\ heard' = NoAnswer

Return(v) == pc' = "answered" /\ result' = v

(* One more call of the reviewer LLM; the next attempt begins with none.   *)
Ask ==
    /\ calls' = calls + 1
    /\ asked' = IF attempt' = attempt THEN asked + 1 ELSE 0

(* Mutant: the LLM's approval stands although the static check failed.     *)
HandleAnswerUnchecked(a) ==
    /\ heard' = a
    /\ \/ /\ Valid(a)
          /\ Return(Verdict(Approving(a)))
          /\ UNCHANGED attempt
       \/ /\ ~Valid(a)
          /\ attempt < MaxVerdictAttempts
          /\ attempt' = attempt + 1
          /\ pc' = "asking"
          /\ UNCHANGED result
       \/ /\ ~Valid(a)
          /\ attempt = MaxVerdictAttempts
          /\ Return(ErrorVerdict)
          /\ UNCHANGED attempt

(* Mutant: the attempts are counted, and checked one too late.             *)
HandleAnswerLate(a) ==
    /\ heard' = a
    /\ IF Valid(a)
       THEN Return(Verdict(Approving(a) /\ static = "clean")) /\ UNCHANGED attempt
       ELSE /\ attempt <= MaxVerdictAttempts
            /\ attempt' = attempt + 1
            /\ pc' = "asking"
            /\ UNCHANGED result

(* The LLM answered.  A failed static check overrides its approval; an     *)
(* answer that does not parse costs an attempt, the last one the review.   *)
HandleAnswer(a) ==
    /\ heard' = a
    /\ \/ /\ Valid(a)
          /\ Return(Verdict(Approving(a) /\ static = "clean"))
          /\ UNCHANGED attempt
       \/ /\ ~Valid(a)
          /\ attempt < MaxVerdictAttempts
          /\ attempt' = attempt + 1
          /\ pc' = "asking"
          /\ UNCHANGED result
       \/ /\ ~Valid(a)
          /\ attempt = MaxVerdictAttempts
          /\ Return(ErrorVerdict)
          /\ UNCHANGED attempt

(* Mutant: "while True" in place of the bounded attempts.                  *)
AnswerForever(a) ==
    /\ pc \in {"asking", "retrying"}
    /\ heard' = a
    /\ IF Valid(a) THEN Return(Verdict(Approving(a) /\ static = "clean"))
                   ELSE pc' = "asking" /\ UNCHANGED result
    /\ UNCHANGED <<bash, command, static, attempt, calls, asked>>

Answer(a) ==
    /\ pc \in {"asking", "retrying"}
    /\ HandleAnswer(a)
    /\ Ask
    /\ UNCHANGED <<bash, command, static>>

(* Mutant: every transient failure is worth one more call.                 *)
RetryEveryError ==
    /\ pc \in {"asking", "retrying"}
    /\ pc' = "retrying"
    /\ UNCHANGED <<bash, command, static, attempt, heard, result>>
    /\ Ask

(* The first call of an attempt failed in a way worth one more call.       *)
RetryableError ==
    /\ pc = "asking"
    /\ pc' = "retrying"
    /\ UNCHANGED <<bash, command, static, attempt, heard, result>>
    /\ Ask

(* Mutant: without a reviewer the command is let through.                  *)
FinalErrorApproves ==
    /\ pc \in {"asking", "retrying"}
    /\ Return(Verdict(TRUE))
    /\ UNCHANGED <<bash, command, static, attempt, heard>>
    /\ Ask

(* It failed for good, or the retry failed in any way.                     *)
FinalError ==
    /\ pc \in {"asking", "retrying"}
    /\ Return(ErrorVerdict)
    /\ UNCHANGED <<bash, command, static, attempt, heard>>
    /\ Ask

(* The turn goes on with the verdict; the next review starts afresh.       *)
Dismiss ==
    /\ pc = "answered"
    /\ pc' = "idle"
    /\ command' = NoCommand
    /\ static' = "none"
    /\ attempt' = 1
    /\ calls' = 0
    /\ asked' = 0
    /\ heard' = NoAnswer
    /\ result' = NotReturned
    /\ UNCHANGED bash

Review == (\E a \in Answers : Answer(a)) \/ RetryableError \/ FinalError

Next == (\E c \in CheckedCommands : Invoke(c)) \/ Review \/ Dismiss

Spec == Init /\ [][Next]_vars

(* Every LLM call ends: with an answer, an error or the request timeout.   *)
FairSpec == Spec /\ WF_vars(Review)
-----------------------------------------------------------------------------
TypeOK ==
    /\ bash \in BashStates
    /\ pc \in {"idle", "asking", "retrying", "answered"}
    /\ command \in CheckedCommands
    /\ static \in {"none", "clean", "flagged", "blank"}
    /\ attempt \in 1..MaxVerdictAttempts
    /\ calls \in 0..2 * MaxVerdictAttempts
    /\ asked \in 0..2
    /\ heard \in Answers
    /\ result \in [outcome : {"none", "verdict", "raised"}, approved : BOOLEAN,
                   error : BOOLEAN]

(* An approval is earned twice: the last LLM answer parses and approves,   *)
(* and the python filters let the command pass.  No error, no unparsable   *)
(* answer, and no failed probe of bash turns into an approval: fail-open   *)
(* gives up the grammar check alone.                                       *)
ApprovalEarned ==
    result.approved =>
        /\ Approving(heard)
        /\ ~result.error
        /\ ~Filtered(command) /\ ~Trips(command)
        /\ bash = "usable" => command.grammatical

(* The bound behind the length of a turn: no attempt of a review costs     *)
(* more than two LLM calls, whatever the others cost (a retry saved in one *)
(* attempt is not carried to the next), and the calls of the attempts      *)
(* before it add up to one or two for each of them.                        *)
CallsBounded ==
    /\ asked <= 2
    /\ attempt - 1 + asked <= calls
    /\ calls <= 2 * (attempt - 1) + asked

(* Every review ends with a verdict, unparsable and failing LLMs included. *)
ReviewEnds == pc \in {"asking", "retrying"} ~> pc = "answered"

(* The code keeps the contract the turn handler is modelled with.          *)
Contract == INSTANCE CriticReview
    WITH phase <- IF pc \in {"asking", "retrying"} THEN "reviewing" ELSE pc,
         class <- static,
         answer <- IF result.outcome # "verdict" THEN result.outcome
                   ELSE IF result.approved THEN "approve" ELSE "reject"

(* Every step of invoke is a step of the contract or changes nothing in it:*)
(* one verdict per review, approval only for a clean command.              *)
KeepsContract == Contract!Spec
=============================================================================
