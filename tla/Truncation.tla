----------------------------- MODULE Truncation -----------------------------
(***************************************************************************)
(* truncate_field and truncate_exec_result (utils.py): a long output of a  *)
(* command keeps its head and its tail before it enters the history, with  *)
(* a marker in between that counts what is gone.  A text is its length, as *)
(* the value of a field; the escapes json.dumps adds are left out.         *)
(***************************************************************************)
EXTENDS Integers, FiniteSetTheorems, TLAPS

(* head and tail are the characters kept from either end, elided is the    *)
(* number the marker reports; a text that fits has no marker.              *)
Truncated == [head : Nat, elided : Nat, tail : Nat]

Kept(t) == t.head + t.tail

(* value[-half:] is the whole value when half is 0.                        *)
TruncateField(len, budget) ==
    LET half == budget \div 2
    IN  IF len <= budget
        THEN [head |-> len, elided |-> 0, tail |-> 0]
        ELSE [head |-> half, elided |-> len - 2 * half,
              tail |-> IF half = 0 THEN len ELSE half]

(* How many digits the marker spends on a number below MaxText.            *)
PowersOfTen == <<10, 100, 1000, 10000, 100000, 1000000, 10000000, 100000000>>
MaxText == 1000000000
Digits(n) == 1 + Cardinality({ k \in 1..8 : PowersOfTen[k] <= n })

(* Two line ends, two ellipses, the brackets and " chars truncated".       *)
MarkerText == 22
Marker(t) == IF t.elided = 0 THEN 0 ELSE MarkerText + Digits(t.elided)

(* The length of the text that is returned.                                *)
Length(t) == t.head + Marker(t) + t.tail

Fields == {"stdout", "stderr", "output"}

(* The fields of an exec_result that hold a text; the others stay.  An     *)
(* input that is no JSON is truncated as one text.                         *)
TruncateExecResult(result, budget) ==
    [ f \in DOMAIN result |->
        IF f \in Fields THEN TruncateField(result[f], budget)
                        ELSE [head |-> result[f], elided |-> 0, tail |-> 0] ]
-----------------------------------------------------------------------------
LEMMA HalfProperties ==
    ASSUME NEW budget \in Nat
    PROVE  /\ budget \div 2 \in Nat
           /\ 2 * (budget \div 2) <= budget
           /\ budget < 2 * (budget \div 2) + 2
  OBVIOUS

LEMMA DigitsType == \A n \in Nat : Digits(n) \in 1..9
  <1> TAKE n \in Nat
  <1> DEFINE reached == { k \in 1..8 : PowersOfTen[k] <= n }
  <1>1. IsFiniteSet(1..8) /\ Cardinality(1..8) = 8
    <2> DEFINE low == 1
               high == 8
    <2>1. low \in Int /\ high \in Int
      OBVIOUS
    <2> HIDE DEF low, high
    <2>2. /\ IsFiniteSet(low..high)
          /\ Cardinality(low..high) = IF low > high THEN 0 ELSE high - low + 1
      BY <2>1, FS_Interval
    <2>3. QED
      BY <2>2 DEF low, high
  <1>2. IsFiniteSet(reached) /\ Cardinality(reached) <= 8
    BY <1>1, FS_Subset
  <1>3. Cardinality(reached) \in Nat
    BY <1>2, FS_CardinalityType
  <1> QED
    BY <1>2, <1>3 DEF Digits

(* What the Actor sees of an output exceeds the budget by the marker only  *)
(* (31 characters at most: within the 100 the repository's test allows),   *)
(* accounts for every character of it, and shows none twice (the slices of *)
(* truncate_field do not overlap), whatever the length, from a budget of   *)
(* two characters on.  A text within the budget is returned as it is.      *)
THEOREM FieldIsBounded ==
    ASSUME NEW len \in Nat, len < MaxText, NEW budget \in Nat, budget >= 2
    PROVE  LET t == TruncateField(len, budget)
           IN  /\ t \in Truncated
               /\ Kept(t) <= budget
               /\ Kept(t) + t.elided = len
               /\ t.elided = 0 <=> len <= budget
               /\ Length(t) <= budget + MarkerText + 9
               /\ len <= budget => Length(t) = len
  <1>1. PICK half \in Nat : half = budget \div 2 /\ 2 * half <= budget /\ half > 0
    BY HalfProperties
  <1>2. CASE len <= budget
    BY <1>2 DEF TruncateField, Truncated, Kept, Length, Marker, MarkerText
  <1>3. CASE ~(len <= budget)
    <2>1. TruncateField(len, budget) = [head |-> half, elided |-> len - 2 * half, tail |-> half]
      BY <1>1, <1>3 DEF TruncateField
    <2>2. len - 2 * half \in Nat /\ len - 2 * half > 0
      BY <1>1, <1>3
    <2>3. Digits(len - 2 * half) \in 1..9
      BY <2>2, DigitsType
    <2>4. Length(TruncateField(len, budget)) = 2 * half + MarkerText + Digits(len - 2 * half)
      BY <2>1, <2>2, <2>3 DEF Length, Marker, MarkerText
    <2>5. QED
      BY <1>1, <1>3, <2>1, <2>2, <2>3, <2>4 DEF Truncated, Kept, MarkerText
  <1>4. QED
    BY <1>2, <1>3

(* Below that budget the tail is the whole text (value[-0:]), and with the *)
(* marker the result is longer than the input it was to shorten.           *)
THEOREM TinyBudgetKeepsAll ==
    ASSUME NEW budget \in {0, 1}, NEW len \in Nat, len > budget, len < MaxText
    PROVE  LET t == TruncateField(len, budget)
           IN  Kept(t) = len /\ Length(t) > len
  <1>1. budget \div 2 = 0
    OBVIOUS
  <1>2. ~(len <= budget)
    OBVIOUS
  <1>3. TruncateField(len, budget) = [head |-> 0, elided |-> len, tail |-> len]
    BY <1>1, <1>2 DEF TruncateField
  <1>4. Digits(len) \in 1..9 /\ len # 0
    BY <1>2, DigitsType
  <1>5. QED
    BY <1>3, <1>4 DEF Kept, Length, Marker, MarkerText

(* No text of an exec_result enters the history longer than the budget and *)
(* its marker, and every character of it is kept or counted as elided.     *)
THEOREM ExecResultIsBounded ==
    ASSUME NEW Present \in SUBSET Fields, NEW result \in [Present -> Nat],
           \A f \in Present : result[f] < MaxText,
           NEW budget \in Nat, budget >= 2
    PROVE  \A f \in Present :
              LET t == TruncateExecResult(result, budget)[f]
              IN  /\ Length(t) <= budget + MarkerText + 9
                  /\ Kept(t) + t.elided = result[f]
  <1>1. TAKE f \in Present
  <1>2. TruncateExecResult(result, budget)[f] = TruncateField(result[f], budget)
    BY <1>1 DEF TruncateExecResult
  <1>3. QED
    BY <1>2, FieldIsBounded
=============================================================================
