----------------------------- MODULE Regression -----------------------------
(***************************************************************************)
(* compare_run after its reads (EvidenceStore has those): a current run is *)
(* held against the source run of a baseline.  Thresholds are checked, the *)
(* circumstances noted as warnings, the registered metrics both runs have  *)
(* classified one by one in sorted order, and an overall status concluded. *)
(* Values are exact numbers here: the rounding of floats is left out.      *)
(***************************************************************************)
EXTENDS Integers, Sequences

CONSTANTS
  Keys,       \* the (test, metric) pairs of registered metrics, sorted
  Higher,     \* the indexes of Keys whose metric is HIGHER_IS_BETTER
  Values,     \* what a metric may measure
  Thresholds, \* pairs of warning and failure thresholds, in percent
  SourceMetrics, CurrentMetrics \* what the two runs may have measured

Registered == DOMAIN Keys

(* A metric that is missing, or whose value is None, a boolean or a string. *)
Absent == [value |-> 0, unit |-> "none"]
Metrics == [Registered -> {Absent} \cup [value : Values, unit : {"a", "b"}]]
Status == {"PASS", "FAIL", "WARN", "SKIP", "ERROR"}

ASSUME RegressionAssumption ==
  /\ Keys \in Seq(STRING \X STRING) /\ Keys # << >>
  /\ Higher \subseteq Registered
  /\ Values \subseteq Int
  /\ Thresholds \subseteq Int \X Int
  /\ SourceMetrics \subseteq Metrics
  /\ CurrentMetrics \subseteq Metrics

(* What compare_run has read.  A run compared with itself has one set of     *)
(* metrics, one platform and one plan, and as a baseline's source it has     *)
(* neither failed nor errored; a run that is SKIP as a whole has no metrics. *)
Inputs ==
  {i \in [source : SourceMetrics, current : CurrentMetrics, self : BOOLEAN,
          samePlatform : BOOLEAN, samePlan : BOOLEAN, samePower : BOOLEAN,
          thermal : BOOLEAN, status : Status] :
     /\ i.self => /\ i.source = i.current
                  /\ i.samePlatform /\ i.samePlan /\ i.samePower
                  /\ i.status \notin {"FAIL", "ERROR"}
     /\ i.status = "SKIP" => \A k \in Registered : i.current[k] = Absent}

VARIABLES
  input,     \* the comparison asked for
  threshold, \* its thresholds
  pc,        \* "thresholds", "context", "metrics", "summary", "overall" or "done"
  next,      \* index of the next key to compare
  outcomes,  \* outcomes[k]: the outcome of key k, "none" if it was not compared
  warnings,  \* the warnings noted so far
  overall    \* the overall status, "none" before, "rejected" for a ValueError

vars == <<input, threshold, pc, next, outcomes, warnings, overall>>

Init ==
  /\ input \in Inputs
  /\ threshold \in Thresholds
  /\ pc = "thresholds"
  /\ next = 1
  /\ outcomes = [k \in Registered |-> "none"]
  /\ warnings = {}
  /\ overall = "none"

Magnitude(n) == IF n < 0 THEN -n ELSE n

(* Mutant: the direction of the metric is not looked at. *)
OutcomeUndirected(k, baseline, current, limits) ==
  LET change == (current - baseline) * 100
      percent(p) == p * Magnitude(baseline) IN
  IF baseline = 0 THEN IF current = 0 THEN "UNCHANGED" ELSE "UNAVAILABLE"
  ELSE IF change = 0 THEN "UNCHANGED"
  ELSE IF change >= percent(limits[2]) THEN "FAIL"
  ELSE IF change >= percent(limits[1]) THEN "WARN"
  ELSE IF change <= -percent(limits[1]) THEN "IMPROVED"
  ELSE "UNCHANGED"

(* Mutant: no change counts as a change of zero percent. *)
OutcomeZeroCounts(k, baseline, current, limits) ==
  LET change == (current - baseline) * (IF k \in Higher THEN -100 ELSE 100)
      percent(p) == p * Magnitude(baseline) IN
  IF baseline = 0 THEN IF current = 0 THEN "UNCHANGED" ELSE "UNAVAILABLE"
  ELSE IF change >= percent(limits[2]) THEN "FAIL"
  ELSE IF change >= percent(limits[1]) THEN "WARN"
  ELSE IF change <= -percent(limits[1]) THEN "IMPROVED"
  ELSE "UNCHANGED"

(* The adverse change in percent of the baseline, both sides multiplied by   *)
(* the size of the baseline.                                                 *)
Outcome(k, baseline, current, limits) ==
  LET adverse == (current - baseline) * (IF k \in Higher THEN -100 ELSE 100)
      percent(p) == p * Magnitude(baseline) IN
  IF baseline = 0 THEN IF current = 0 THEN "UNCHANGED" ELSE "UNAVAILABLE"
  ELSE IF adverse = 0 THEN "UNCHANGED"
  ELSE IF adverse >= percent(limits[2]) THEN "FAIL"
  ELSE IF adverse >= percent(limits[1]) THEN "WARN"
  ELSE IF adverse <= -percent(limits[1]) THEN "IMPROVED"
  ELSE "UNCHANGED"

-----------------------------------------------------------------------------
(* Thresholds are numbers here: that the code refuses infinities and NaN     *)
(* before it compares them has no counterpart.                               *)
CheckThresholds ==
  /\ pc = "thresholds"
  /\ IF threshold[1] < 0 \/ threshold[2] <= threshold[1]
     THEN pc' = "done" /\ overall' = "rejected"
     ELSE pc' = "context" /\ UNCHANGED overall
  /\ UNCHANGED <<input, threshold, next, outcomes, warnings>>

Compatible == input.samePlatform /\ input.samePlan

Context ==
  /\ pc = "context"
  /\ warnings' = {w \in {"self", "power", "platform", "plan"} :
                    CASE w = "self"     -> input.self
                      [] w = "power"    -> ~input.samePower
                      [] w = "platform" -> ~input.samePlatform
                      [] w = "plan"     -> ~input.samePlan}
  /\ pc' = IF Compatible THEN "metrics" ELSE "summary"
  /\ UNCHANGED <<input, threshold, next, outcomes, overall>>

Both(k) == input.source[k] # Absent /\ input.current[k] # Absent
SameUnit(k) == input.source[k].unit = input.current[k].unit

Advance ==
  IF next = Len(Keys) THEN pc' = "summary" /\ UNCHANGED next
                      ELSE next' = next + 1 /\ UNCHANGED pc

(* Mutant: the comparison stops at a metric whose units differ. *)
CompareMetricBreaking ==
  /\ pc = "metrics"
  /\ IF Both(next) /\ ~SameUnit(next)
     THEN /\ warnings' = warnings \cup {"units"}
          /\ pc' = "summary"
          /\ UNCHANGED <<next, outcomes>>
     ELSE /\ outcomes' = IF Both(next)
                         THEN [outcomes EXCEPT ![next] =
                                 Outcome(next, input.source[next].value,
                                         input.current[next].value, threshold)]
                         ELSE outcomes
          /\ Advance
          /\ UNCHANGED warnings
  /\ UNCHANGED <<input, threshold, overall>>

(* One key of the sorted intersection; the others are passed over. *)
CompareMetric ==
  /\ pc = "metrics"
  /\ \/ /\ Both(next) /\ SameUnit(next)
        /\ outcomes' = [outcomes EXCEPT ![next] =
                          Outcome(next, input.source[next].value,
                                  input.current[next].value, threshold)]
        /\ UNCHANGED warnings
     \/ /\ Both(next) /\ ~SameUnit(next)
        /\ warnings' = warnings \cup {"units"}
        /\ UNCHANGED outcomes
     \/ /\ ~Both(next)
        /\ UNCHANGED <<outcomes, warnings>>
  /\ Advance
  /\ UNCHANGED <<input, threshold, overall>>

Outcomes == {outcomes[k] : k \in Registered} \ {"none"}

(* Temperature that could not be read, and a comparison without a metric. *)
Summary ==
  /\ pc = "summary"
  /\ warnings' = warnings \cup (IF Compatible /\ Outcomes = {} THEN {"nothing"} ELSE {})
                          \cup (IF input.thermal THEN {"temperature"} ELSE {})
  /\ pc' = "overall"
  /\ UNCHANGED <<input, threshold, next, outcomes, overall>>

(* Mutant: a metric without a percentage does not count. *)
OverallStatusQuantified(status) ==
  IF status \in {"ERROR", "FAIL"} THEN status
  ELSE IF ~Compatible THEN "WARN"
  ELSE IF "FAIL" \in Outcomes THEN "FAIL"
  ELSE IF status = "WARN" \/ warnings # {} \/ "WARN" \in Outcomes THEN "WARN"
  ELSE "PASS"

OverallStatus(status) ==
  IF status \in {"ERROR", "FAIL"} THEN status
  ELSE IF ~Compatible THEN "WARN"
  ELSE IF "FAIL" \in Outcomes THEN "FAIL"
  ELSE IF status = "WARN" \/ warnings # {} \/ Outcomes \cap {"WARN", "UNAVAILABLE"} # {}
  THEN "WARN"
  ELSE "PASS"

Conclude ==
  /\ pc = "overall"
  /\ overall' = OverallStatus(input.status)
  /\ pc' = "done"
  /\ UNCHANGED <<input, threshold, next, outcomes, warnings>>

Next == CheckThresholds \/ Context \/ CompareMetric \/ Summary \/ Conclude

Spec == Init /\ [][Next]_vars

-----------------------------------------------------------------------------
OutcomeValues == {"IMPROVED", "UNCHANGED", "WARN", "FAIL", "UNAVAILABLE"}

TypeOK ==
  /\ input \in Inputs /\ threshold \in Thresholds
  /\ pc \in {"thresholds", "context", "metrics", "summary", "overall", "done"}
  /\ next \in Registered
  /\ outcomes \in [Registered -> OutcomeValues \cup {"none"}]
  /\ warnings \subseteq {"self", "power", "platform", "plan", "units", "nothing", "temperature"}
  /\ overall \in Status \cup {"none", "rejected"}

(* How much worse key k is now, in hundredths of the baseline's size. *)
Loss(k) ==
  100 * (IF k \in Higher THEN input.source[k].value - input.current[k].value
                         ELSE input.current[k].value - input.source[k].value)
Size(k) == Magnitude(input.source[k].value)

(* A comparison passes only on evidence: the current run itself passed, on   *)
(* the same platform, plan and power plan, it is not the source, some metric *)
(* of the baseline has been measured again, and every such metric is in the  *)
(* same unit and worse by less than the warning threshold (a baseline of     *)
(* zero is still zero).                                                      *)
PassIsEvidence ==
  overall = "PASS" =>
    /\ input.status = "PASS" /\ Compatible /\ input.samePower /\ ~input.self
    /\ \E k \in Registered : Both(k)
    /\ \A k \in Registered : Both(k) =>
         /\ SameUnit(k)
         /\ IF Size(k) = 0 THEN input.current[k].value = 0
            ELSE Loss(k) <= 0 \/ Loss(k) < threshold[1] * Size(k)

(* architecture.md: "Functional FAIL or ERROR outranks performance           *)
(* classification", and no other run's failure goes unreported: a loss of    *)
(* the failure threshold in any comparable metric fails the comparison.      *)
FailuresSurface ==
  overall \in Status =>
    /\ input.status \in {"FAIL", "ERROR"} => overall = input.status
    /\ overall = "ERROR" => input.status = "ERROR"
    /\ (Compatible /\ \E k \in Registered : /\ Both(k) /\ SameUnit(k) /\ Size(k) > 0
                                           /\ Loss(k) >= threshold[2] * Size(k))
         => overall \in {"FAIL", "ERROR"}

Severities == <<"IMPROVED", "UNCHANGED", "WARN", "FAIL">>
Severity(outcome) == CHOOSE i \in DOMAIN Severities : Severities[i] = outcome

(* A metric that is classified would not be classified worse if it had been  *)
(* better: the outcome is monotone in the current value.                     *)
OutcomeMonotone ==
  \A k \in Registered : outcomes[k] # "none" /\ Size(k) > 0 =>
    \A v \in Values :
      (IF k \in Higher THEN v >= input.current[k].value ELSE v <= input.current[k].value) =>
        Severity(Outcome(k, input.source[k].value, v, threshold)) <= Severity(outcomes[k])

(* A run compared with its own baseline has changed in no metric, whatever   *)
(* the thresholds, and still is no independent evidence.                     *)
SelfIsUnchanged ==
  input.self => Outcomes \subseteq {"UNCHANGED"} /\ overall # "PASS"
=============================================================================
