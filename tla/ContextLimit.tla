---------------------------- MODULE ContextLimit ----------------------------
(***************************************************************************)
(* find_context_limit (api_bandwith_benchmark/opt_finder.py): exponential  *)
(* growth until a prompt size fails, then binary search between the last   *)
(* size that worked and the first that did not.  The endpoint is steady (a *)
(* limit on the size) or flaky (any call may fail); one action is one      *)
(* probe, with its repetitions and its majority vote, and the code up to   *)
(* the next probe; the last action is the report of main.                  *)
(***************************************************************************)
EXTENDS Integers, Sequences

CONSTANTS Starts,   \* the values tried for --start-messages
          Maxima,   \* the values tried for --max-messages
          Repeats,  \* --repeats
          Limits    \* the limits a steady endpoint may have

ASSUME SearchAssumption ==
    /\ Starts \subseteq Int
    /\ Maxima \subseteq Int
    /\ Limits \subseteq Int
    /\ Repeats \in Nat

None == -1

VARIABLES start, max,     \* the arguments
          steady, limit,  \* the endpoint: steady up to and including limit
          pc,             \* "baseline", "grow", "bisect", "done" or "reported"
          low,            \* largest size known to work, None without any
          high,           \* smallest size known to fail, None without any
          n,              \* the size the growth phase probes next
          probes,         \* every probe made: its size, and whether it worked
          report          \* how main ended

vars == <<start, max, steady, limit, pc, low, high, n, probes, report>>
given == <<start, max, steady, limit>>

(* Mutant: --start-messages is taken as it comes.                          *)
InitUnchecked ==
    /\ start \in Starts
    /\ max \in Maxima
    /\ steady \in BOOLEAN
    /\ limit \in Limits
    /\ pc = "baseline"
    /\ low = None
    /\ high = None
    /\ n = start
    /\ probes = <<>>
    /\ report = "none"

Init ==
    /\ start \in Starts
    /\ max \in Maxima
    /\ steady \in BOOLEAN
    /\ limit \in Limits
    /\ pc = "baseline"
    /\ low = None
    /\ high = None
    /\ n = IF start > 1 THEN start ELSE 1
    /\ probes = <<>>
    /\ report = "none"
-----------------------------------------------------------------------------
(* How many of the repeated calls at one size may succeed.                 *)
Successes(size) ==
    IF steady THEN {IF size <= limit THEN Repeats ELSE 0} ELSE 0..Repeats

(* The majority vote, and the entry in the list of probes.                 *)
Probe(size, ok) ==
    /\ \E s \in Successes(size) : ok = (s * 2 > Repeats)
    /\ probes' = Append(probes, [size |-> size, ok |-> ok])

Finish == pc' = "done"

(* The growth phase goes on while the next size is within max.             *)
GrowFrom(next) ==
    /\ n' = next
    /\ IF next <= max THEN pc' = "grow" ELSE Finish

(* Mutants: the search stops one width too late, or one too early.         *)
BisectTooLong(l, h) ==
    /\ low' = l
    /\ high' = h
    /\ IF h - l >= 1 THEN pc' = "bisect" ELSE Finish

BisectTooShort(l, h) ==
    /\ low' = l
    /\ high' = h
    /\ IF h - l > 2 THEN pc' = "bisect" ELSE Finish

(* The search goes on while the bracket is wider than one.                 *)
BisectBetween(l, h) ==
    /\ low' = l
    /\ high' = h
    /\ IF h - l > 1 THEN pc' = "bisect" ELSE Finish

Baseline ==
    /\ pc = "baseline"
    /\ \/ Probe(0, TRUE)  /\ low' = 0 /\ GrowFrom(n) /\ UNCHANGED high
       \/ Probe(0, FALSE) /\ high' = 0 /\ Finish /\ UNCHANGED <<low, n>>
    /\ UNCHANGED <<given, report>>

(* Mutant: a size that works leaves the best size known where it was.      *)
GrowForgets ==
    /\ pc = "grow"
    /\ \/ Probe(n, TRUE)  /\ GrowFrom(2 * n) /\ UNCHANGED <<low, high>>
       \/ Probe(n, FALSE) /\ BisectBetween(low, n) /\ UNCHANGED n
    /\ UNCHANGED <<given, report>>

Grow ==
    /\ pc = "grow"
    /\ \/ Probe(n, TRUE)  /\ low' = n /\ GrowFrom(2 * n) /\ UNCHANGED high
       \/ Probe(n, FALSE) /\ BisectBetween(low, n) /\ UNCHANGED n
    /\ UNCHANGED <<given, report>>

Middle == (low + high) \div 2

(* Mutant: the two ends of the bracket are swapped.                        *)
BisectSwapped ==
    /\ pc = "bisect"
    /\ \/ Probe(Middle, FALSE) /\ BisectBetween(Middle, high)
       \/ Probe(Middle, TRUE)  /\ BisectBetween(low, Middle)
    /\ UNCHANGED <<given, n, report>>

(* Mutant: the loop never checks its condition, and spins on a bracket of  *)
(* one, where there is nothing new to probe.                               *)
BisectUnbounded ==
    /\ pc = "bisect"
    /\ Middle > low
    /\ \/ Probe(Middle, TRUE)  /\ low' = Middle  /\ UNCHANGED high
       \/ Probe(Middle, FALSE) /\ high' = Middle /\ UNCHANGED low
    /\ UNCHANGED <<given, n, pc, report>>

Bisect ==
    /\ pc = "bisect"
    /\ \/ Probe(Middle, TRUE)  /\ BisectBetween(Middle, high)
       \/ Probe(Middle, FALSE) /\ BisectBetween(low, Middle)
    /\ UNCHANGED <<given, n, report>>

Worked(list, size) == \E i \in DOMAIN list : list[i].size = size /\ list[i].ok
Failed(list, size) == \E i \in DOMAIN list : list[i].size = size /\ ~list[i].ok

(* main saves the probes and prints the verdict: the endpoint fails on     *)
(* everything, no size failed, or the prompt lengths of the two sizes of   *)
(* the bracket, looked up among the probes; a lookup that finds nothing    *)
(* raises.                                                                 *)
Verdict ==
    IF low = None THEN "unreachable"
    ELSE IF high = None THEN "open"
    ELSE IF Worked(probes, low) /\ Failed(probes, high) THEN "limit"
    ELSE "crash"

Report ==
    /\ pc = "done"
    /\ report' = Verdict
    /\ pc' = "reported"
    /\ UNCHANGED <<given, low, high, n, probes>>

Next == Baseline \/ Grow \/ Bisect \/ Report

Spec == Init /\ [][Next]_vars

(* Every call to the endpoint ends, and the script then goes on.           *)
FairSpec == Spec /\ WF_vars(Next)
-----------------------------------------------------------------------------
TypeOK ==
    /\ start \in Starts /\ max \in Maxima /\ steady \in BOOLEAN /\ limit \in Limits
    /\ pc \in {"baseline", "grow", "bisect", "done", "reported"}
    /\ low \in Nat \cup {None}
    /\ high \in Nat \cup {None}
    /\ n \in Nat \ {0}
    /\ probes \in Seq([size : Nat, ok : BOOLEAN])
    /\ report \in {"none", "unreachable", "open", "limit", "crash"}

(* The bracket is real at every moment: what the search calls good was     *)
(* probed and worked, what it calls bad was probed and failed, and the     *)
(* good lies below the bad, however flaky the endpoint is.                 *)
Bracket ==
    /\ low # None => Worked(probes, low)
    /\ high # None => Failed(probes, high)
    /\ pc = "grow" => low # None /\ high = None /\ low < n
    /\ pc = "bisect" => low # None /\ high # None /\ low + 1 < high
    /\ pc \in {"done", "reported"} /\ high # None /\ low # None => high = low + 1

(* No size is probed twice, so a size's result in the report is its only   *)
(* result (save_probes_json takes the first entry that matches).           *)
ProbedOnce == \A i, j \in DOMAIN probes : probes[i].size = probes[j].size => i = j

(* On a steady endpoint the reported pair is the endpoint's limit.         *)
ExactLimit ==
    steady /\ pc \in {"done", "reported"} /\ low # None /\ high # None => low = limit

(* What main prints stands against everything it measured, however flaky   *)
(* the endpoint is: the lookups of the two prompt lengths (next without a  *)
(* default) never run out, no size that worked lies above the one it calls *)
(* the largest, and no size that failed below the one it calls the first.  *)
ReportStands ==
    /\ report # "crash"
    /\ \A i \in DOMAIN probes :
          IF probes[i].ok THEN low # None /\ probes[i].size <= low
          ELSE high # None /\ high <= probes[i].size

(* The search ends, and main reports.                                      *)
Terminates == <>(pc = "reported")
-----------------------------------------------------------------------------
(* opt_finder.py:121-124 says the search returns the largest size that     *)
(* still succeeds, and no failing size only if none was observed up to     *)
(* max_messages (main prints "no failure observed up to" it): without a    *)
(* failing size, the largest working one is max_messages itself.           *)
SearchesUpToMax ==
    steady /\ pc = "reported" /\ high = None /\ Repeats > 0 => low >= max
=============================================================================
