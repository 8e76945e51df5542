------------------------- MODULE ContextLimitProofs -------------------------
(***************************************************************************)
(* The bracket of the context-length search holds for any arguments and    *)
(* any endpoint, however many probes the search makes.                     *)
(***************************************************************************)
EXTENDS ContextLimit, SequenceTheorems, TLAPS

ProbeRecords == [size : Nat, ok : BOOLEAN]

(* A probe adds its own entry to the list and keeps the others.            *)
LEMMA ProbeRecorded ==
    ASSUME probes \in Seq(ProbeRecords), NEW m \in Nat, NEW b \in BOOLEAN, Probe(m, b)
    PROVE  /\ probes' \in Seq(ProbeRecords)
           /\ b => Worked(probes', m)
           /\ ~b => Failed(probes', m)
           /\ \A k : Worked(probes, k) => Worked(probes', k)
           /\ \A k : Failed(probes, k) => Failed(probes', k)
<1> DEFINE e == [size |-> m, ok |-> b]
<1>1. e \in ProbeRecords /\ e.size = m /\ e.ok = b
  BY DEF ProbeRecords
<1>2. probes' = Append(probes, e)
  BY DEF Probe
<1> HIDE DEF e
<1>3. /\ probes' \in Seq(ProbeRecords)
      /\ Len(probes') = Len(probes) + 1
      /\ \A i \in 1..Len(probes) : probes'[i] = probes[i]
      /\ probes'[Len(probes) + 1] = e
  BY <1>1, <1>2, AppendProperties
<1>4. /\ Len(probes) \in Nat /\ DOMAIN probes = 1..Len(probes)
      /\ DOMAIN probes' = 1..Len(probes')
  BY <1>3, LenProperties
<1>5. Len(probes) + 1 \in DOMAIN probes'
  BY <1>3, <1>4
<1>6. \A i \in DOMAIN probes : i \in DOMAIN probes' /\ probes'[i] = probes[i]
  BY <1>3, <1>4
<1> QED BY <1>1, <1>3, <1>5, <1>6 DEF Worked, Failed

(* The types, and with them where the sizes come from: the growth phase    *)
(* probes beyond low, the binary search strictly inside the bracket.       *)
SearchInv == TypeOK /\ Bracket /\ (pc = "baseline" => low = None /\ high = None)

(* The search narrows to a bracket whose ends were probed.                 *)
LEMMA Narrowed ==
    ASSUME SearchInv, UNCHANGED <<given, n, report>>, probes' \in Seq(ProbeRecords)
    PROVE  \A l, h \in Nat :
              l < h /\ BisectBetween(l, h) /\ Worked(probes', l) /\ Failed(probes', h)
                 => SearchInv'
BY DEF SearchInv, TypeOK, Bracket, BisectBetween, Finish, given, None, ProbeRecords

LEMMA SearchStep == SearchInv /\ [Next]_vars => SearchInv'
<1> SUFFICES ASSUME SearchInv, [Next]_vars PROVE SearchInv'
  OBVIOUS
<1>1. probes \in Seq(ProbeRecords)
  BY DEF SearchInv, TypeOK, ProbeRecords
<1>2. CASE Baseline
  <2>1. CASE Probe(0, TRUE) /\ low' = 0 /\ GrowFrom(n) /\ UNCHANGED high
    <3>1. probes' \in Seq(ProbeRecords) /\ Worked(probes', 0)
      BY <1>1, <2>1, ProbeRecorded
    <3> QED BY <1>2, <2>1, <3>1, SearchAssumption
        DEF SearchInv, TypeOK, Bracket, Baseline, GrowFrom, Finish, given, None, ProbeRecords
  <2>2. CASE Probe(0, FALSE) /\ high' = 0 /\ Finish /\ UNCHANGED <<low, n>>
    <3>1. probes' \in Seq(ProbeRecords) /\ Failed(probes', 0)
      BY <1>1, <2>2, ProbeRecorded
    <3> QED BY <1>2, <2>2, <3>1
        DEF SearchInv, TypeOK, Bracket, Baseline, Finish, given, None, ProbeRecords
  <2> QED BY <1>2, <2>1, <2>2 DEF Baseline
<1>3. CASE Grow
  <2>1. n \in Nat
    BY DEF SearchInv, TypeOK
  <2>2. CASE Probe(n, TRUE) /\ low' = n /\ GrowFrom(2 * n) /\ UNCHANGED high
    <3>1. probes' \in Seq(ProbeRecords) /\ Worked(probes', n)
      BY <1>1, <2>1, <2>2, ProbeRecorded
    <3> QED BY <1>3, <2>2, <3>1
        DEF SearchInv, TypeOK, Bracket, Grow, GrowFrom, Finish, given, None, ProbeRecords
  <2>3. CASE Probe(n, FALSE) /\ BisectBetween(low, n) /\ UNCHANGED n
    <3>1. /\ probes' \in Seq(ProbeRecords) /\ Failed(probes', n)
          /\ Worked(probes, low) => Worked(probes', low)
      BY <1>1, <2>1, <2>3, ProbeRecorded DEF BisectBetween
    <3> QED BY <1>3, <2>3, <3>1
        DEF SearchInv, TypeOK, Bracket, Grow, BisectBetween, Finish, given, None, ProbeRecords
  <2> QED BY <1>3, <2>2, <2>3 DEF Grow
<1>4. CASE Bisect
  <2>1. Middle \in Nat /\ low < Middle /\ Middle < high /\ low \in Nat /\ high \in Nat
    BY <1>4 DEF SearchInv, TypeOK, Bracket, Bisect, Middle, None
  <2>2. CASE Probe(Middle, TRUE) /\ BisectBetween(Middle, high)
    <3>0. Failed(probes, high)
      BY <2>1 DEF SearchInv, Bracket, None
    <3>1. /\ probes' \in Seq(ProbeRecords)
          /\ Worked(probes', Middle)
          /\ Failed(probes', high)
      BY <1>1, <2>1, <2>2, <3>0, ProbeRecorded
    <3>2. UNCHANGED <<given, n, report>>
      BY <1>4 DEF Bisect
    <3> QED BY <2>1, <2>2, <3>1, <3>2, Narrowed
  <2>3. CASE Probe(Middle, FALSE) /\ BisectBetween(low, Middle)
    <3>0. Worked(probes, low)
      BY <2>1 DEF SearchInv, Bracket, None
    <3>1. /\ probes' \in Seq(ProbeRecords)
          /\ Failed(probes', Middle)
          /\ Worked(probes', low)
      BY <1>1, <2>1, <2>3, <3>0, ProbeRecorded
    <3>2. UNCHANGED <<given, n, report>>
      BY <1>4 DEF Bisect
    <3> QED BY <2>1, <2>3, <3>1, <3>2, Narrowed
  <2> QED BY <1>4, <2>2, <2>3 DEF Bisect
<1>5. CASE Report
  BY <1>5 DEF Report, Verdict, given, SearchInv, TypeOK, Bracket, Worked, Failed, None
<1>6. CASE UNCHANGED vars
  BY <1>6 DEF vars, SearchInv, TypeOK, Bracket, Worked, Failed
<1> QED BY <1>2, <1>3, <1>4, <1>5, <1>6 DEF Next

LEMMA SearchInit == Init => SearchInv
BY SearchAssumption, EmptySeq DEF Init, SearchInv, TypeOK, Bracket, None
-----------------------------------------------------------------------------
(* Where the results lie: one entry is at or below low when it worked, at  *)
(* or above high when it failed.                                           *)
Fits(entry, l, h) ==
    IF entry.ok THEN l # None /\ entry.size <= l ELSE h # None /\ h <= entry.size

(* What the bracket says of the endpoint and of the list of probes.        *)
MeasuredInv ==
    /\ \A i \in DOMAIN probes : Fits(probes[i], low, high)
    /\ ProbedOnce
    /\ steady /\ low # None => low <= limit
    /\ steady /\ low # None /\ high # None => limit < high
    /\ low # None => Repeats > 0
    /\ pc = "baseline" => probes = <<>>
    /\ report # "crash"

(* A probe of a new size, with its result inside the new bracket, keeps    *)
(* the list of probes within that bracket and free of repetitions.         *)
LEMMA Remeasured ==
    ASSUME probes \in Seq(ProbeRecords), NEW size \in Nat, NEW ok \in BOOLEAN,
           Probe(size, ok),
           \A i \in DOMAIN probes : probes[i].size # size /\ Fits(probes[i], low', high'),
           Fits([size |-> size, ok |-> ok], low', high'),
           ProbedOnce
    PROVE  (\A i \in DOMAIN probes' : Fits(probes'[i], low', high')) /\ ProbedOnce'
<1> DEFINE e == [size |-> size, ok |-> ok]
<1>1. e \in ProbeRecords /\ e.size = size
  BY DEF ProbeRecords
<1>2. probes' = Append(probes, e)
  BY DEF Probe
<1>3. Fits(e, low', high')
  OBVIOUS
<1> HIDE DEF e
<1>4. /\ Len(probes) \in Nat /\ DOMAIN probes = 1..Len(probes)
      /\ DOMAIN probes' = 1..(Len(probes) + 1)
      /\ \A i \in 1..Len(probes) : probes'[i] = probes[i]
      /\ probes'[Len(probes) + 1] = e
  BY <1>1, <1>2, AppendProperties, LenProperties
<1>5. \A i \in DOMAIN probes' : i \in DOMAIN probes \/ i = Len(probes) + 1
  BY <1>4
<1>6. \A i \in DOMAIN probes' : Fits(probes'[i], low', high')
  <2> SUFFICES ASSUME NEW i \in DOMAIN probes' PROVE Fits(probes'[i], low', high')
    OBVIOUS
  <2>1. CASE i \in DOMAIN probes
    <3>1. probes'[i] = probes[i]
      BY <1>4, <2>1
    <3> QED BY <2>1, <3>1
  <2>2. CASE i = Len(probes) + 1
    BY <1>3, <1>4, <2>2
  <2> QED BY <1>5, <2>1, <2>2
<1>7. ProbedOnce'
  <2> SUFFICES ASSUME NEW i \in DOMAIN probes', NEW j \in DOMAIN probes',
                      probes'[i].size = probes'[j].size
               PROVE  i = j
    BY DEF ProbedOnce
  <2> QED BY <1>1, <1>4, <1>5 DEF ProbedOnce
<1> QED BY <1>6, <1>7

(* A steady endpoint answers a probe by its limit, and no endpoint passes  *)
(* a probe that makes no call.                                             *)
LEMMA SteadyAnswer ==
    ASSUME NEW size \in Nat, limit \in Int, steady \in BOOLEAN
    PROVE  /\ Probe(size, TRUE) => Repeats > 0 /\ (steady => size <= limit)
           /\ Probe(size, FALSE) /\ Repeats > 0 => (steady => limit < size)
BY SearchAssumption DEF Probe, Successes

(* A probe of a new size inside the bracket that works moves low up to it. *)
LEMMA ProbeWorked ==
    ASSUME SearchInv, MeasuredInv, UNCHANGED <<given, report>>,
           NEW size \in Nat, Probe(size, TRUE), low' = size, UNCHANGED high,
           \A i \in DOMAIN probes : probes[i].size # size,
           low = None => high = None,
           low # None => low <= size,
           high # None => size < high,
           pc' # "baseline"
    PROVE  MeasuredInv'
<1>1. /\ probes \in Seq(ProbeRecords) /\ steady \in BOOLEAN /\ limit \in Int
      /\ low \in Nat \cup {None} /\ high \in Nat \cup {None}
  BY SearchAssumption DEF SearchInv, TypeOK, ProbeRecords
<1>2. \A i \in DOMAIN probes : probes[i] \in ProbeRecords
  BY <1>1, ElementOfSeq, LenProperties
<1>3. \A i \in DOMAIN probes : Fits(probes[i], low', high')
  BY <1>1, <1>2 DEF MeasuredInv, Fits, ProbeRecords, None
<1>4. Fits([size |-> size, ok |-> TRUE], low', high')
  BY DEF Fits, None
<1>5. (\A i \in DOMAIN probes' : Fits(probes'[i], low', high')) /\ ProbedOnce'
  BY <1>1, <1>3, <1>4, Remeasured DEF MeasuredInv
<1>6. Repeats > 0 /\ (steady => size <= limit)
  BY <1>1, SteadyAnswer
<1>7. /\ steady' /\ low' # None => low' <= limit'
      /\ steady' /\ low' # None /\ high' # None => limit' < high'
      /\ report' # "crash"
  BY <1>6 DEF MeasuredInv, given, None
<1> QED BY <1>5, <1>6, <1>7 DEF MeasuredInv

(* One that fails moves high down to it.                                   *)
LEMMA ProbeFailed ==
    ASSUME SearchInv, MeasuredInv, UNCHANGED <<given, report>>,
           NEW size \in Nat, Probe(size, FALSE), high' = size, UNCHANGED low,
           \A i \in DOMAIN probes : probes[i].size # size,
           low # None => low < size,
           high # None => size <= high,
           pc' # "baseline"
    PROVE  MeasuredInv'
<1>1. /\ probes \in Seq(ProbeRecords) /\ steady \in BOOLEAN /\ limit \in Int
      /\ low \in Nat \cup {None} /\ high \in Nat \cup {None}
  BY SearchAssumption DEF SearchInv, TypeOK, ProbeRecords
<1>2. \A i \in DOMAIN probes : probes[i] \in ProbeRecords
  BY <1>1, ElementOfSeq, LenProperties
<1>3. \A i \in DOMAIN probes : Fits(probes[i], low', high')
  BY <1>1, <1>2 DEF MeasuredInv, Fits, ProbeRecords, None
<1>4. Fits([size |-> size, ok |-> FALSE], low', high')
  BY DEF Fits, None
<1>5. (\A i \in DOMAIN probes' : Fits(probes'[i], low', high')) /\ ProbedOnce'
  BY <1>1, <1>3, <1>4, Remeasured DEF MeasuredInv
<1>6. Repeats > 0 => (steady => limit < size)
  BY <1>1, SteadyAnswer
<1>7. /\ steady' /\ low' # None => low' <= limit'
      /\ steady' /\ low' # None /\ high' # None => limit' < high'
      /\ low' # None => Repeats > 0
      /\ report' # "crash"
  BY <1>6 DEF MeasuredInv, given, None
<1> QED BY <1>5, <1>7 DEF MeasuredInv

LEMMA MeasuredStep == SearchInv /\ MeasuredInv /\ [Next]_vars => MeasuredInv'
<1> SUFFICES ASSUME SearchInv, MeasuredInv, [Next]_vars PROVE MeasuredInv'
  OBVIOUS
<1>1. /\ probes \in Seq(ProbeRecords) /\ n \in Nat \ {0}
      /\ low \in Nat \cup {None} /\ high \in Nat \cup {None}
  BY DEF SearchInv, TypeOK, ProbeRecords
<1>2. \A i \in DOMAIN probes : probes[i] \in ProbeRecords /\ Fits(probes[i], low, high)
  BY <1>1, ElementOfSeq, LenProperties DEF MeasuredInv
<1>3. CASE Baseline
  <2>1. low = None /\ high = None /\ UNCHANGED <<given, report>>
    BY <1>3 DEF Baseline, SearchInv
  <2>2. \A i \in DOMAIN probes : probes[i].size # 0
    BY <1>3, EmptySeq, LenProperties DEF Baseline, MeasuredInv
  <2>3. CASE Probe(0, TRUE) /\ low' = 0 /\ GrowFrom(n) /\ UNCHANGED high
    <3>1. pc' # "baseline"
      BY <2>3 DEF GrowFrom, Finish
    <3> QED BY <2>1, <2>2, <2>3, <3>1, ProbeWorked
  <2>4. CASE Probe(0, FALSE) /\ high' = 0 /\ Finish /\ UNCHANGED <<low, n>>
    <3>1. pc' # "baseline"
      BY <2>4 DEF Finish
    <3> QED BY <2>1, <2>2, <2>4, <3>1, ProbeFailed
  <2> QED BY <1>3, <2>3, <2>4 DEF Baseline
<1>4. CASE Grow
  <2>1. low # None /\ high = None /\ low < n /\ low <= n /\ UNCHANGED <<given, report>>
    BY <1>1, <1>4 DEF Grow, SearchInv, Bracket, None
  <2>2. \A i \in DOMAIN probes : probes[i].size # n
    BY <1>1, <1>2, <2>1 DEF Fits, ProbeRecords, None
  <2>3. CASE Probe(n, TRUE) /\ low' = n /\ GrowFrom(2 * n) /\ UNCHANGED high
    <3>1. pc' # "baseline"
      BY <2>3 DEF GrowFrom, Finish
    <3> QED BY <1>1, <2>1, <2>2, <2>3, <3>1, ProbeWorked
  <2>4. CASE Probe(n, FALSE) /\ BisectBetween(low, n) /\ UNCHANGED n
    <3>1. pc' # "baseline" /\ low' = low /\ high' = n
      BY <2>4 DEF BisectBetween, Finish
    <3> QED BY <1>1, <2>1, <2>2, <2>4, <3>1, ProbeFailed
  <2> QED BY <1>4, <2>3, <2>4 DEF Grow
<1>5. CASE Bisect
  <2>1. /\ low # None /\ high # None /\ UNCHANGED <<given, report>>
        /\ Middle \in Nat /\ low < Middle /\ Middle < high
        /\ low <= Middle /\ Middle <= high
    BY <1>1, <1>5 DEF SearchInv, Bracket, Bisect, Middle, None
  <2>2. \A i \in DOMAIN probes : probes[i].size # Middle
    BY <1>1, <1>2, <2>1 DEF Fits, ProbeRecords, None
  <2>3. CASE Probe(Middle, TRUE) /\ BisectBetween(Middle, high)
    <3>1. pc' # "baseline" /\ low' = Middle /\ high' = high
      BY <2>3 DEF BisectBetween, Finish
    <3> QED BY <1>1, <2>1, <2>2, <2>3, <3>1, ProbeWorked
  <2>4. CASE Probe(Middle, FALSE) /\ BisectBetween(low, Middle)
    <3>1. pc' # "baseline" /\ low' = low /\ high' = Middle
      BY <2>4 DEF BisectBetween, Finish
    <3> QED BY <1>1, <2>1, <2>2, <2>4, <3>1, ProbeFailed
  <2> QED BY <1>5, <2>3, <2>4 DEF Bisect
<1>6. CASE Report
  <2>1. report' # "crash"
    BY <1>6 DEF Report, Verdict, SearchInv, Bracket
  <2> QED BY <1>6, <2>1 DEF Report, given, MeasuredInv, ProbedOnce
<1>7. CASE UNCHANGED vars
  BY <1>7 DEF vars, MeasuredInv, ProbedOnce
<1> QED BY <1>3, <1>4, <1>5, <1>6, <1>7 DEF Next

LEMMA MeasuredInit == Init => MeasuredInv
BY EmptySeq, LenProperties DEF Init, MeasuredInv, ProbedOnce, None

(* The two invariants hold together.                                       *)
THEOREM Searched == Spec => [](SearchInv /\ MeasuredInv)
BY SearchInit, SearchStep, MeasuredInit, MeasuredStep, PTL DEF Spec
-----------------------------------------------------------------------------
(* What the search reports as working was probed and worked, what it       *)
(* reports as failing was probed and failed, and no size lies between,     *)
(* for any endpoint, flaky ones included.                                  *)
THEOREM BracketHolds == Spec => []Bracket
<1>1. SearchInv /\ MeasuredInv => Bracket
  BY DEF SearchInv
<1> QED BY <1>1, Searched, PTL

(* The types of the search's state.                                        *)
THEOREM SearchTypes == Spec => []TypeOK
<1>1. SearchInv /\ MeasuredInv => TypeOK
  BY DEF SearchInv
<1> QED BY <1>1, Searched, PTL

(* The search never spends the repeated calls on a size it has probed.     *)
THEOREM NeverProbedTwice == Spec => []ProbedOnce
<1>1. SearchInv /\ MeasuredInv => ProbedOnce
  BY DEF MeasuredInv
<1> QED BY <1>1, Searched, PTL

(* The report of main is there, and no probe contradicts it.               *)
THEOREM ReportHolds == Spec => []ReportStands
<1>1. SearchInv /\ MeasuredInv => ReportStands
  BY DEF MeasuredInv, ReportStands, Fits
<1> QED BY <1>1, Searched, PTL

(* On an endpoint with a limit on the size, the search finds that limit,   *)
(* whatever the start size, the cap and the number of repetitions.         *)
THEOREM LimitFound == Spec => []ExactLimit
<1>1. SearchInv /\ MeasuredInv => ExactLimit
  <2> SUFFICES ASSUME SearchInv, MeasuredInv, steady, pc \in {"done", "reported"},
                      low # None, high # None
               PROVE  low = limit
    BY DEF ExactLimit
  <2>1. low \in Nat /\ high \in Nat /\ limit \in Int
    BY SearchAssumption DEF SearchInv, TypeOK
  <2> QED BY <2>1 DEF SearchInv, MeasuredInv, Bracket
<1> QED BY <1>1, Searched, PTL
-----------------------------------------------------------------------------
(* The growth phase stays within max: its loop condition was just checked. *)
GrowsWithin == pc = "grow" => n <= max

LEMMA GrowsWithinStep == SearchInv /\ GrowsWithin /\ [Next]_vars => GrowsWithin'
<1> SUFFICES ASSUME SearchInv, GrowsWithin, [Next]_vars PROVE GrowsWithin'
  OBVIOUS
<1>1. CASE Baseline \/ Grow
  BY <1>1 DEF Baseline, Grow, GrowFrom, BisectBetween, Finish, given, GrowsWithin
<1>2. CASE Bisect \/ Report
  BY <1>2 DEF Bisect, BisectBetween, Finish, Report, GrowsWithin
<1>3. CASE UNCHANGED vars
  BY <1>3 DEF vars, GrowsWithin
<1> QED BY <1>1, <1>2, <1>3 DEF Next

(* A bound on the steps the search may still take.                         *)
SearchLeft ==
    IF pc = "baseline" THEN IF n <= max THEN 2 * max - n + 3 ELSE 2
    ELSE IF pc = "grow" THEN 2 * max - n + 2
    ELSE IF pc = "bisect" THEN high - low + 1
    ELSE IF pc = "done" THEN 1 ELSE 0

(* A step of the search comes closer to its end: a growth probe doubles    *)
(* the size or closes the growth phase, and a bisection halves the bracket *)
(* (of an odd width, the larger half stays).                               *)
Converges ==
    /\ SearchLeft' \in Nat /\ SearchLeft' < SearchLeft
    /\ pc = "grow" => n' = 2 * n \/ (low' = low /\ high' = n)
    /\ pc = "bisect" => 2 * (high' - low') <= (high - low) + 1

LEMMA SearchConverges ==
    ASSUME SearchInv, GrowsWithin, Next
    PROVE  Converges
<1>0. /\ n \in Nat \ {0} /\ max \in Int /\ low \in Nat \cup {None} /\ high \in Nat \cup {None}
      /\ pc \in {"baseline", "grow", "bisect", "done", "reported"} /\ None \notin Nat
  BY SearchAssumption DEF SearchInv, TypeOK, None
<1>1. CASE Baseline
  <2>1. pc = "baseline" /\ max' = max
    BY <1>1 DEF Baseline, given
  <2>2. CASE GrowFrom(n)
    <3>1. n' = n /\ (IF n <= max THEN pc' = "grow" ELSE pc' = "done")
      BY <2>2 DEF GrowFrom, Finish
    <3> QED BY <1>0, <2>1, <3>1 DEF Converges, SearchLeft
  <2>3. CASE Finish
    BY <1>0, <2>1, <2>3 DEF Finish, Converges, SearchLeft
  <2> QED BY <1>1, <2>2, <2>3 DEF Baseline
<1>2. CASE Grow
  <2>1. pc = "grow" /\ max' = max /\ low \in Nat /\ low < n /\ n <= max
    BY <1>0, <1>2 DEF Grow, given, SearchInv, Bracket, GrowsWithin
  <2>2. CASE GrowFrom(2 * n)
    <3>1. n' = 2 * n /\ (IF 2 * n <= max THEN pc' = "grow" ELSE pc' = "done")
      BY <2>2 DEF GrowFrom, Finish
    <3> QED BY <1>0, <2>1, <3>1 DEF Converges, SearchLeft
  <2>3. CASE BisectBetween(low, n)
    <3>1. low' = low /\ high' = n /\ (IF n - low > 1 THEN pc' = "bisect" ELSE pc' = "done")
      BY <2>3 DEF BisectBetween, Finish
    <3> QED BY <1>0, <2>1, <3>1 DEF Converges, SearchLeft
  <2> QED BY <1>2, <2>2, <2>3 DEF Grow
<1>3. CASE Bisect
  <2>1. pc = "bisect" /\ low \in Nat /\ high \in Nat /\ low + 1 < high
    BY <1>0, <1>3 DEF Bisect, SearchInv, Bracket
  <2>2. /\ Middle \in Nat /\ low < Middle /\ Middle < high
        /\ 2 * Middle <= low + high /\ low + high <= 2 * Middle + 1
    BY <2>1 DEF Middle
  <2>3. CASE BisectBetween(Middle, high)
    <3>1. /\ low' = Middle /\ high' = high
          /\ (IF high - Middle > 1 THEN pc' = "bisect" ELSE pc' = "done")
      BY <2>3 DEF BisectBetween, Finish
    <3> QED BY <2>1, <2>2, <3>1 DEF Converges, SearchLeft
  <2>4. CASE BisectBetween(low, Middle)
    <3>1. /\ low' = low /\ high' = Middle
          /\ (IF Middle - low > 1 THEN pc' = "bisect" ELSE pc' = "done")
      BY <2>4 DEF BisectBetween, Finish
    <3> QED BY <2>1, <2>2, <3>1 DEF Converges, SearchLeft
  <2> QED BY <1>3, <2>3, <2>4 DEF Bisect
<1>4. CASE Report
  BY <1>4 DEF Report, Converges, SearchLeft
<1> QED BY <1>1, <1>2, <1>3, <1>4 DEF Next

(* The search comes to an end on any endpoint: growth doubles, bisection   *)
(* halves, and every probe brings it closer to the report.                 *)
THEOREM SearchRunsOut == Spec => [][Converges]_vars
<1>1. Init => GrowsWithin
  BY DEF Init, GrowsWithin
<1>2. SearchInv /\ GrowsWithin /\ [Next]_vars => [Converges]_vars
  BY SearchConverges
<1>3. SearchInv /\ MeasuredInv => SearchInv
  OBVIOUS
<1> QED BY <1>1, <1>2, <1>3, GrowsWithinStep, Searched, PTL DEF Spec
=============================================================================
