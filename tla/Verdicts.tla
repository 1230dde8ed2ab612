------------------------------ MODULE Verdicts ------------------------------
(***************************************************************************)
(* From measurements to statuses: evaluate_requirement on one requirement, *)
(* the status of a test and the status of a run.                           *)
(*                                                                         *)
(* A value is a record of its Python type and what comparisons see of it:  *)
(* the number of a number or a bool, the parts of a string that `in` can   *)
(* find, the items of a list.                                              *)
(***************************************************************************)
EXTENDS Integers, Sequences

Status == {"PASS", "FAIL", "WARN", "SKIP", "ERROR"}

Value(type, value, items) == [type |-> type, value |-> value, items |-> items]
Absent      == Value("none", {}, << >>)
Number(n)   == Value("number", {n}, << >>)
Truth(b)    == Value("bool", {IF b THEN 1 ELSE 0}, << >>)
Text(parts) == Value("text", parts, << >>)
Pair(a, b)  == Value("list", {}, <<a, b>>)

Available(v) == v.type # "none"
Numeric(v)   == v.type = "number"

(* Python's ==, for which True equals 1. *)
Equal(a, b) ==
  /\ {a.type, b.type} \subseteq {"number", "bool"} \/ a.type = b.type
  /\ a.value = b.value /\ a.items = b.items

Below(a, b)   == \A x \in a.value, y \in b.value : x < y
AtMostAs(a, b) == \A x \in a.value, y \in b.value : x <= y

Operators == {"equals", "not_equals", "greater_than", "greater_than_or_equal",
              "less_than", "less_than_or_equal", "between", "present", "contains"}

(* The Requirement validator: what a plan may say. *)
WellFormed(requirement) ==
  CASE requirement.operator = "between" -> Len(requirement.expected.items) = 2
    [] requirement.operator = "present" -> ~Available(requirement.expected)
    [] OTHER                            -> Available(requirement.expected)

Verdict(holds) == IF holds THEN "passed" ELSE "unmet"

(* The order operators, on two numbers. *)
Compare(operator, actual, expected) ==
  CASE operator = "greater_than"          -> Below(expected, actual)
    [] operator = "greater_than_or_equal" -> AtMostAs(expected, actual)
    [] operator = "less_than"             -> Below(actual, expected)
    [] operator = "less_than_or_equal"    -> AtMostAs(actual, expected)

(* between needs two numbers in order, and a number between them. *)
Between(actual, bounds) ==
  IF /\ Numeric(actual) /\ Numeric(bounds[1]) /\ Numeric(bounds[2])
     /\ AtMostAs(bounds[1], bounds[2])
  THEN Verdict(AtMostAs(bounds[1], actual) /\ AtMostAs(actual, bounds[2]))
  ELSE "invalid"

(* What is left to compare when the metric is there. *)
EvaluatePresent(operator, actual, expected) ==
  CASE operator = "equals"     -> Verdict(Equal(actual, expected))
    [] operator = "not_equals" -> Verdict(~Equal(actual, expected))
    [] operator = "between"    -> Between(actual, expected.items)
    [] operator = "contains"   ->
         IF actual.type = "text" /\ expected.type = "text"
         THEN Verdict(expected.value \subseteq actual.value) ELSE "invalid"
    [] OTHER ->
         IF Numeric(actual) /\ Numeric(expected)
         THEN Verdict(Compare(operator, actual, expected)) ELSE "invalid"

(* Mutant: not_equals is decided before the metric is looked for. *)
EvaluateDifferentFirst(requirement, actual) ==
  IF requirement.operator = "present" THEN Verdict(Available(actual))
  ELSE IF requirement.operator = "not_equals" THEN Verdict(~Equal(actual, requirement.expected))
  ELSE IF ~Available(actual) THEN "unmet"
  ELSE EvaluatePresent(requirement.operator, actual, requirement.expected)

(* One requirement: it passes, is unmet, or its operands have the wrong type *)
(* (EvaluationError).                                                        *)
Evaluate(requirement, actual) ==
  IF requirement.operator = "present" THEN Verdict(Available(actual))
  ELSE IF ~Available(actual) THEN "unmet"
  ELSE EvaluatePresent(requirement.operator, actual, requirement.expected)

Evaluation == {"passed", "unmet", "invalid"}

(* A metric a case did not measure is absent. *)
Lookup(metrics, name) == IF name \in DOMAIN metrics THEN metrics[name] ELSE Absent

(* The requirements of one test: one wrong type spoils the evaluation. *)
EvaluateAll(requirements, metrics) ==
  LET verdicts == {Evaluate(requirements[i], Lookup(metrics, requirements[i].metric)) :
                     i \in DOMAIN requirements}
  IN  IF "invalid" \in verdicts THEN "invalid"
      ELSE IF "unmet" \in verdicts THEN "unmet"
      ELSE "passed"

-----------------------------------------------------------------------------
(* Mutant: correctness only matters when no requirement is configured. *)
JudgeRequirementsOnly(hint, correct, evaluation) ==
  IF hint \in {"SKIP", "ERROR"} THEN hint
  ELSE IF evaluation = "invalid" THEN "ERROR"
  ELSE IF evaluation = "unmet" THEN "FAIL"
  ELSE hint

(* The verdict on one test; requirements do not matter to a case without a   *)
(* conclusion.                                                               *)
Judge(hint, correct, evaluation) ==
  IF hint \in {"SKIP", "ERROR"} THEN hint
  ELSE IF evaluation = "invalid" THEN "ERROR"
  ELSE IF ~correct \/ evaluation = "unmet" THEN "FAIL"
  ELSE hint

(* Mutant: a failure anywhere in the plan is masked by a warning. *)
AggregateWarnFirst(statuses) ==
  IF "WARN" \in statuses THEN "WARN"
  ELSE IF "ERROR" \in statuses THEN "ERROR"
  ELSE IF "FAIL" \in statuses THEN "FAIL"
  ELSE IF "PASS" \in statuses THEN "PASS"
  ELSE "SKIP"

AggregateStatus(statuses) ==
  IF "ERROR" \in statuses THEN "ERROR"
  ELSE IF "FAIL" \in statuses THEN "FAIL"
  ELSE IF "WARN" \in statuses THEN "WARN"
  ELSE IF "PASS" \in statuses THEN "PASS"
  ELSE "SKIP"
=============================================================================
