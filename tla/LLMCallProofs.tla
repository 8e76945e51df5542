---------------------------- MODULE LLMCallProofs ----------------------------
(***************************************************************************)
(* The retry policy for any number of calls on a shared client: no call    *)
(* asks more than twice, none is given up on a first transient error, and  *)
(* every call lost to a 429 is reported.                                   *)
(***************************************************************************)
EXTENDS LLMCall, SequenceTheorems, TLAPS

(* How many errors a call has met, and what became of each: the first of   *)
(* two was worth a retry, the only one was not.                            *)
Heard ==
    \A c \in Calls :
        /\ pc[c] \in {"idle", "asked"} => Len(heard[c]) = 0
        /\ pc[c] = "retried" => Len(heard[c]) = 1
        /\ pc[c] # "ended" => outcome[c] = "none"
        /\ pc[c] = "retried" => IsRetryable(heard[c][1])
        /\ Lost(c) =>
              /\ Len(heard[c]) \in 1..2
              /\ Len(heard[c]) = 2 => IsRetryable(heard[c][1])
              /\ outcome[c] = Consequence(caller[c], LastHeard(c))
              /\ Len(heard[c]) = 1 => ~IsRetryable(LastHeard(c))

RateIsNoted ==
    \A c \in Calls : \A i \in DOMAIN heard[c] : heard[c][i].kind = "rate" => rateLimited

CallInv == TypeOK /\ Heard /\ RateIsNoted

LEMMA OneOrTwo == \A k \in 1..2 : k <= 2
OBVIOUS

(* A failed client call adds its error to the call's own list.             *)
LEMMA ErrorHeard ==
    ASSUME CallInv, NEW c \in Calls, NEW e \in Errors, ClientRaises(c, e)
    PROVE  /\ heard' \in [Calls -> Seq(Errors)]
           /\ \A b \in Calls : b # c => heard'[b] = heard[b]
           /\ Len(heard'[c]) = IF pc[c] = "asked" THEN 1 ELSE 2
           /\ heard'[c][Len(heard'[c])] = e
           /\ pc[c] = "retried" => heard'[c][1] = heard[c][1]
           /\ RateIsNoted'
<1>1. /\ heard \in [Calls -> Seq(Errors)] /\ heard[c] \in Seq(Errors)
      /\ heard' = [heard EXCEPT ![c] = Append(heard[c], e)]
      /\ heard'[c] = Append(heard[c], e)
      /\ rateLimited' = (rateLimited \/ e.kind = "rate") /\ rateLimited \in BOOLEAN
      /\ pc[c] \in {"asked", "retried"}
  BY DEF CallInv, TypeOK, ClientRaises, Asking
<1>2. /\ heard'[c] \in Seq(Errors)
      /\ Len(heard'[c]) = Len(heard[c]) + 1
      /\ \A i \in 1..Len(heard[c]) : heard'[c][i] = heard[c][i]
      /\ heard'[c][Len(heard[c]) + 1] = e
  BY <1>1, AppendProperties
<1>3. heard' \in [Calls -> Seq(Errors)] /\ \A b \in Calls : b # c => heard'[b] = heard[b]
  BY <1>1, <1>2
<1>4. Len(heard[c]) = IF pc[c] = "asked" THEN 0 ELSE 1
  BY <1>1 DEF CallInv, Heard
<1>5. /\ DOMAIN heard[c] = 1..Len(heard[c])
      /\ DOMAIN heard'[c] = 1..(Len(heard[c]) + 1)
  BY <1>1, <1>2, LenProperties
<1>6. RateIsNoted'
  <2> SUFFICES ASSUME NEW b \in Calls, NEW i \in DOMAIN heard'[b], heard'[b][i].kind = "rate"
               PROVE  rateLimited'
    BY DEF RateIsNoted
  <2>1. CASE b # c
    BY <1>1, <1>3, <2>1 DEF CallInv, RateIsNoted
  <2>2. CASE b = c /\ i \in DOMAIN heard[c]
    <3>1. heard[c][i].kind = "rate"
      BY <1>2, <1>5, <2>2
    <3> QED BY <1>1, <2>2, <3>1 DEF CallInv, RateIsNoted
  <2>3. CASE b = c /\ i = Len(heard[c]) + 1
    BY <1>1, <1>2, <2>3
  <2> QED BY <1>4, <1>5, <2>1, <2>2, <2>3
<1>7. Len(heard'[c]) = IF pc[c] = "asked" THEN 1 ELSE 2
  BY <1>2, <1>4
<1>8. pc[c] = "retried" => heard'[c][1] = heard[c][1]
  <2> HAVE pc[c] = "retried"
  <2>1. 1 \in 1..Len(heard[c])
    BY <1>4
  <2> QED BY <1>2, <2>1
<1> QED BY <1>2, <1>3, <1>6, <1>7, <1>8

LEMMA CallStep == CallInv /\ [Next]_vars => CallInv'
<1> SUFFICES ASSUME CallInv, [Next]_vars PROVE CallInv'
  OBVIOUS
<1>0. TypeOK /\ Heard /\ RateIsNoted
  BY DEF CallInv
<1>1. ASSUME NEW c \in Calls, NEW agent \in Callers, Invoke(c, agent) PROVE CallInv'
  BY <1>0, <1>1 DEF Invoke, CallInv, TypeOK, Heard, RateIsNoted, Lost, LastHeard
<1>2. ASSUME NEW c \in Calls, ClientAnswers(c) PROVE CallInv'
  BY <1>0, <1>2 DEF ClientAnswers, Asking, CallInv, TypeOK, Heard, RateIsNoted, Lost, LastHeard
<1>3. ASSUME NEW c \in Calls, NEW e \in Errors, Retry(c, e) PROVE CallInv'
  <2>1. /\ ClientRaises(c, e) /\ pc[c] = "asked"
        /\ pc' = [pc EXCEPT ![c] = "retried"] /\ UNCHANGED <<caller, outcome>>
        /\ rateLimited' \in BOOLEAN
    BY <1>0, <1>3 DEF Retry, ClientRaises, TypeOK
  <2>2. /\ heard' \in [Calls -> Seq(Errors)]
        /\ \A b \in Calls : b # c => heard'[b] = heard[b]
        /\ Len(heard'[c]) = 1 /\ heard'[c][Len(heard'[c])] = e
        /\ RateIsNoted'
    BY <2>1, ErrorHeard
  <2>3. TypeOK'
    <3>1. ASSUME NEW b \in Calls PROVE Len(heard'[b]) <= 2
      <4>1. Len(heard'[b]) \in Nat
        BY <2>2, LenProperties
      <4>2. CASE b = c
        <5>1. Len(heard'[b]) \in 1..2
          BY <2>2, <4>2
        <5> QED BY <5>1, OneOrTwo
      <4>3. CASE b # c
        BY <1>0, <2>2, <4>3 DEF TypeOK
      <4> QED BY <4>2, <4>3
    <3>2. pc' \in [Calls -> {"idle", "asked", "retried", "ended"}]
      BY <1>0, <2>1 DEF TypeOK
    <3> QED BY <1>0, <2>1, <2>2, <3>1, <3>2 DEF TypeOK
  <2>4. Heard'
    <3>1. IsRetryable(heard'[c][1])
      BY <1>3, <2>2 DEF Retry, IsRetryable
    <3> QED BY <1>0, <2>1, <2>2, <3>1 DEF TypeOK, Heard, Lost, LastHeard, IsRetryable
  <2> QED BY <2>2, <2>3, <2>4 DEF CallInv
<1>4. ASSUME NEW c \in Calls, NEW e \in Errors, GiveUp(c, e) PROVE CallInv'
  <2>1. /\ ClientRaises(c, e) /\ pc[c] \in {"asked", "retried"}
        /\ pc[c] = "retried" \/ ~IsRetryable(e)
        /\ pc' = [pc EXCEPT ![c] = "ended"] /\ UNCHANGED caller
        /\ outcome' = [outcome EXCEPT ![c] = Consequence(caller[c], e)]
        /\ rateLimited' \in BOOLEAN
    BY <1>0, <1>4 DEF GiveUp, ClientRaises, Asking, TypeOK
  <2>2. /\ heard' \in [Calls -> Seq(Errors)]
        /\ \A b \in Calls : b # c => heard'[b] = heard[b]
        /\ Len(heard'[c]) = IF pc[c] = "asked" THEN 1 ELSE 2
        /\ heard'[c][Len(heard'[c])] = e
        /\ pc[c] = "retried" => heard'[c][1] = heard[c][1]
        /\ RateIsNoted'
    BY <2>1, ErrorHeard
  <2>3. Consequence(caller[c], e) \in {"noop", "rejected", "failed"}
    BY DEF Consequence
  <2>4. TypeOK'
    <3>1. ASSUME NEW b \in Calls PROVE Len(heard'[b]) <= 2
      <4>1. Len(heard'[b]) \in Nat
        BY <2>2, LenProperties
      <4>2. CASE b = c
        <5>1. Len(heard'[b]) \in 1..2
          BY <2>2, <4>2
        <5> QED BY <5>1, OneOrTwo
      <4>3. CASE b # c
        BY <1>0, <2>2, <4>3 DEF TypeOK
      <4> QED BY <4>2, <4>3
    <3>2. pc' \in [Calls -> {"idle", "asked", "retried", "ended"}]
      BY <1>0, <2>1 DEF TypeOK
    <3>3. outcome' \in [Calls -> {"none", "answer", "noop", "rejected", "failed"}]
      BY <1>0, <2>1, <2>3 DEF TypeOK
    <3> QED BY <1>0, <2>1, <2>2, <3>1, <3>2, <3>3 DEF TypeOK
  <2>5. Heard'
    <3> SUFFICES ASSUME NEW b \in Calls
        PROVE /\ pc'[b] \in {"idle", "asked"} => Len(heard'[b]) = 0
              /\ pc'[b] = "retried" => Len(heard'[b]) = 1
              /\ pc'[b] # "ended" => outcome'[b] = "none"
              /\ pc'[b] = "retried" => IsRetryable(heard'[b][1])
              /\ Lost(b)' =>
                    /\ Len(heard'[b]) \in 1..2
                    /\ Len(heard'[b]) = 2 => IsRetryable(heard'[b][1])
                    /\ outcome'[b] = Consequence(caller'[b], LastHeard(b)')
                    /\ Len(heard'[b]) = 1 => ~IsRetryable(LastHeard(b)')
      BY DEF Heard, IsRetryable
    <3>1. CASE b = c
      <4>1. pc'[c] = "ended" /\ outcome'[c] = Consequence(caller'[c], e) /\ LastHeard(c)' = e
        BY <1>0, <2>1, <2>2 DEF TypeOK, LastHeard
      <4>2. Len(heard'[c]) \in 1..2 /\ (Len(heard'[c]) = 1 => ~IsRetryable(e))
        BY <2>1, <2>2
      <4>3. Len(heard'[c]) = 2 => IsRetryable(heard'[c][1])
        <5>1. CASE pc[c] = "asked"
          <6>1. Len(heard'[c]) = 1
            BY <2>2, <5>1
          <6> QED BY <6>1
        <5>2. CASE pc[c] = "retried"
          <6>1. IsRetryable(heard[c][1]) /\ heard'[c][1] = heard[c][1]
            BY <1>0, <2>2, <5>2 DEF Heard
          <6> QED BY <6>1 DEF IsRetryable
        <5> QED BY <2>1, <5>1, <5>2
      <4> QED BY <3>1, <4>1, <4>2, <4>3
    <3>2. CASE b # c
      <4>1. /\ pc'[b] = pc[b] /\ outcome'[b] = outcome[b] /\ heard'[b] = heard[b]
            /\ caller'[b] = caller[b]
        BY <1>0, <2>1, <2>2, <3>2 DEF TypeOK
      <4>2. LastHeard(b)' = LastHeard(b) /\ Lost(b)' = Lost(b)
        BY <4>1 DEF LastHeard, Lost
      <4> QED BY <1>0, <4>1, <4>2 DEF Heard
    <3> QED BY <3>1, <3>2
  <2> QED BY <2>2, <2>4, <2>5 DEF CallInv
<1>5. CASE UNCHANGED vars
  BY <1>0, <1>5 DEF vars, CallInv, TypeOK, Heard, RateIsNoted, Lost, LastHeard
<1> QED BY <1>1, <1>2, <1>3, <1>4, <1>5 DEF Next, ClientReturns

LEMMA CallInit == Init => CallInv
<1> SUFFICES ASSUME Init PROVE CallInv
  OBVIOUS
<1>1. /\ pc = [c \in Calls |-> "idle"] /\ caller = [c \in Calls |-> "planner"]
      /\ heard = [c \in Calls |-> <<>>] /\ outcome = [c \in Calls |-> "none"]
      /\ rateLimited = FALSE
  BY DEF Init
<1>2. \A c \in Calls : heard[c] = <<>>
  BY <1>1
<1>3. \A c \in Calls : Len(heard[c]) = 0 /\ DOMAIN heard[c] = {}
  <2>1. Len(<<>>) = 0 /\ DOMAIN <<>> = {}
    OBVIOUS
  <2> QED BY <1>2, <2>1
<1>4. <<>> \in Seq(Errors)
  OBVIOUS
<1>5. heard \in [Calls -> Seq(Errors)]
  BY <1>1, <1>4
<1>6. TypeOK
  <2>1. ASSUME NEW c \in Calls PROVE Len(heard[c]) <= 2
    <3>1. Len(heard[c]) = 0
      BY <1>3
    <3> QED BY <3>1
  <2>2. /\ pc \in [Calls -> {"idle", "asked", "retried", "ended"}]
        /\ caller \in [Calls -> Callers]
        /\ outcome \in [Calls -> {"none", "answer", "noop", "rejected", "failed"}]
        /\ rateLimited \in BOOLEAN
    BY <1>1 DEF Callers
  <2> QED BY <1>5, <2>1, <2>2 DEF TypeOK
<1>7. Heard /\ RateIsNoted
  BY <1>1, <1>3 DEF Heard, RateIsNoted, Lost
<1> QED BY <1>6, <1>7 DEF CallInv

(* Every call's errors and its outcome, at every moment.                   *)
THEOREM CallsHold == Spec => []CallInv
BY CallInit, CallStep, PTL DEF Spec
-----------------------------------------------------------------------------
(* The types; no call asks the client more than twice.                     *)
THEOREM CallTypes == Spec => []TypeOK
<1>1. CallInv => TypeOK
  BY DEF CallInv
<1> QED BY <1>1, CallsHold, PTL

(* For any number of concurrent calls and every agent: a call given up on  *)
(* a transient error has failed twice, no other error is asked about       *)
(* again, and a 429, a timeout, an empty generation or a Critic's call     *)
(* never fails the task.                                                   *)
THEOREM GivesUpOnlyTwiceHolds == Spec => []GivesUpOnlyTwice
<1>1. CallInv => GivesUpOnlyTwice
  <2> SUFFICES ASSUME CallInv, NEW c \in Calls, Lost(c)
      PROVE /\ LastHeard(c).kind \in Transient => Len(heard[c]) = 2
            /\ Len(heard[c]) = 2 => heard[c][1].kind \in Transient
            /\ outcome[c] = "failed" =>
                  /\ caller[c] # "critic"
                  /\ LastHeard(c).kind \notin {"rate", "timeout"} /\ ~LastHeard(c).empty
    BY DEF GivesUpOnlyTwice
  <2>1. /\ Len(heard[c]) \in 1..2
        /\ Len(heard[c]) = 2 => IsRetryable(heard[c][1])
        /\ outcome[c] = Consequence(caller[c], LastHeard(c))
        /\ Len(heard[c]) = 1 => ~IsRetryable(LastHeard(c))
    BY DEF CallInv, Heard
  <2>2. /\ LastHeard(c).kind \in Transient => Len(heard[c]) = 2
        /\ Len(heard[c]) = 2 => heard[c][1].kind \in Transient
    BY <2>1 DEF IsRetryable, Transient
  <2>3. outcome[c] = "failed" =>
           /\ caller[c] # "critic"
           /\ LastHeard(c).kind \notin {"rate", "timeout"} /\ ~LastHeard(c).empty
    BY <2>1 DEF Consequence
  <2> QED BY <2>2, <2>3
<1> QED BY <1>1, CallsHold, PTL

(* A call lost to a rate limit is reported, whatever the other calls on    *)
(* the client did meanwhile.                                               *)
THEOREM RateLimitHolds == Spec => []RateLimitReported
<1>1. CallInv => RateLimitReported
  <2> SUFFICES ASSUME CallInv, NEW c \in Calls, Lost(c), LastHeard(c).kind = "rate"
               PROVE  rateLimited
    BY DEF RateLimitReported
  <2>1. heard[c] \in Seq(Errors)
    BY DEF CallInv, TypeOK
  <2>2. Len(heard[c]) \in DOMAIN heard[c]
    BY <2>1, LenProperties DEF CallInv, Heard
  <2> QED BY <2>2 DEF CallInv, RateIsNoted, LastHeard
<1> QED BY <1>1, CallsHold, PTL
-----------------------------------------------------------------------------
(* The client calls an agent may still make for a call.                    *)
AsksLeft(c) == IF pc[c] = "asked" THEN 2 ELSE IF pc[c] = "retried" THEN 1 ELSE 0

(* An open call spends one of them, and no other call gains any.           *)
UsesAsk(c) ==
    /\ Asking(c) => /\ AsksLeft(c)' < AsksLeft(c) /\ pc'[c] # "idle"
                    /\ pc'[c] = "ended" => outcome'[c] # "none"
    /\ \A b \in Calls \ {c} : AsksLeft(b)' = AsksLeft(b) /\ outcome'[b] = outcome[b]

(* No call asks for ever, however many share the client: a step is a step  *)
(* of one call, and brings it to its end, which settles what becomes of    *)
(* the turn.                                                               *)
THEOREM CallsRunOut == Spec => [][\E c \in Calls : UsesAsk(c)]_vars
<1>1. ASSUME CallInv, Next PROVE \E c \in Calls : UsesAsk(c)
  <2>0. TypeOK
    BY <1>1 DEF CallInv
  <2>1. ASSUME NEW c \in Calls, NEW agent \in Callers, Invoke(c, agent) PROVE UsesAsk(c)
    BY <2>0, <2>1 DEF Invoke, TypeOK, UsesAsk, AsksLeft, Asking
  <2>2. ASSUME NEW c \in Calls, ClientAnswers(c) PROVE UsesAsk(c)
    BY <2>0, <2>2 DEF ClientAnswers, TypeOK, UsesAsk, AsksLeft, Asking
  <2>3. ASSUME NEW c \in Calls, NEW e \in Errors, Retry(c, e) PROVE UsesAsk(c)
    BY <2>0, <2>3 DEF Retry, TypeOK, UsesAsk, AsksLeft, Asking
  <2>4. ASSUME NEW c \in Calls, NEW e \in Errors, GiveUp(c, e) PROVE UsesAsk(c)
    <3>1. Consequence(caller[c], e) # "none"
      BY DEF Consequence
    <3> QED BY <2>0, <2>4, <3>1 DEF GiveUp, ClientRaises, TypeOK, UsesAsk, AsksLeft, Asking
  <2> QED BY <1>1, <2>1, <2>2, <2>3, <2>4 DEF Next, ClientReturns
<1> QED BY <1>1, CallsHold, PTL DEF Spec
=============================================================================
