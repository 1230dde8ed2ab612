--------------------------- MODULE Regression_proofs ---------------------------
(***************************************************************************)
(* Machine-checked proofs about Regression: for any registered metrics,    *)
(* measured values and thresholds.                                         *)
(***************************************************************************)
EXTENDS Regression, SequenceTheorems, TLAPS

LEMMA RegisteredAre == Registered = 1 .. Len(Keys) /\ Len(Keys) \in Nat \ {0}
  BY RegressionAssumption, LenProperties, EmptySeq DEF Registered

LEMMA InputsAre ==
  ASSUME NEW i \in Inputs
  PROVE  /\ i.source \in Metrics /\ i.current \in Metrics
         /\ i.self \in BOOLEAN /\ i.samePlatform \in BOOLEAN /\ i.samePlan \in BOOLEAN
         /\ i.samePower \in BOOLEAN /\ i.thermal \in BOOLEAN /\ i.status \in Status
  BY RegressionAssumption DEF Inputs

LEMMA MetricsAre ==
  ASSUME NEW m \in Metrics, NEW k \in Registered
  PROVE  /\ m[k].value \in Int
         /\ m[k] # Absent => m[k].value \in Values
<1>1. m[k] \in {Absent} \cup [value : Values, unit : {"a", "b"}]
  BY DEF Metrics
<1>2. CASE m[k] = Absent
  BY <1>2 DEF Absent
<1>3. CASE m[k] \in [value : Values, unit : {"a", "b"}]
  BY <1>3, RegressionAssumption
<1> QED BY <1>1, <1>2, <1>3

LEMMA OutcomeIs ==
  ASSUME NEW k, NEW b, NEW c, NEW l
  PROVE  Outcome(k, b, c, l) \in OutcomeValues
  BY DEF Outcome, OutcomeValues

LEMMA TypeInit == Init => TypeOK
  BY RegisteredAre DEF Init, TypeOK

LEMMA TypeStep == TypeOK /\ [Next]_vars => TypeOK'
<1> SUFFICES ASSUME TypeOK, [Next]_vars PROVE TypeOK'
  OBVIOUS
<1> USE RegisteredAre DEF TypeOK
<1>1. CASE UNCHANGED vars
  BY <1>1 DEF vars
<1>2. CASE CheckThresholds
  BY <1>2 DEF CheckThresholds
<1>3. CASE Context
  BY <1>3 DEF Context
<1>4. CASE CompareMetric
  <2>1. Outcome(next, input.source[next].value, input.current[next].value, threshold)
          \in OutcomeValues
    BY OutcomeIs
  <2>2. outcomes' \in [Registered -> OutcomeValues \cup {"none"}]
    BY <1>4, <2>1 DEF CompareMetric
  <2>3. pc' \in {"metrics", "summary"} /\ next' \in Registered
    BY <1>4 DEF CompareMetric, Advance
  <2> QED BY <1>4, <2>2, <2>3 DEF CompareMetric
<1>5. CASE Summary
  BY <1>5 DEF Summary
<1>6. CASE Conclude
  <2>1. OverallStatus(input.status) \in Status
    BY DEF OverallStatus, Status
  <2> QED BY <1>6, <2>1 DEF Conclude
<1> QED BY <1>1, <1>2, <1>3, <1>4, <1>5, <1>6 DEF Next

-----------------------------------------------------------------------------
(* What is known of a comparison at each of its steps: the thresholds are in *)
(* order, the circumstances are among the warnings, and exactly the metrics  *)
(* passed so far have their outcome.                                         *)
Rejected == overall = "rejected"
InOrder == threshold[1] >= 0 /\ threshold[2] > threshold[1]

Noted ==
  /\ input.self => "self" \in warnings
  /\ ~input.samePower => "power" \in warnings

Compared(k) ==
  /\ Both(k) /\ SameUnit(k) =>
       outcomes[k] = Outcome(k, input.source[k].value, input.current[k].value, threshold)
  /\ Both(k) /\ ~SameUnit(k) => "units" \in warnings
  /\ ~(Both(k) /\ SameUnit(k)) => outcomes[k] = "none"

Untouched(k) == outcomes[k] = "none"

ComparisonOK ==
  /\ pc # "thresholds" /\ ~Rejected => InOrder
  /\ pc \notin {"thresholds", "context"} /\ ~Rejected =>
       /\ Noted
       /\ Compatible => pc = "metrics" \/ \A k \in Registered : Compared(k)
  /\ pc = "metrics" => Compatible /\ \A k \in Registered :
                         IF k < next THEN Compared(k) ELSE Untouched(k)
  /\ (pc \in {"thresholds", "context"} \/ Rejected \/ ~Compatible) =>
       \A k \in Registered : Untouched(k)
  /\ pc \in {"thresholds", "context"} => next = 1
  /\ pc \in {"overall", "done"} /\ ~Rejected /\ Compatible /\ Outcomes = {} =>
       "nothing" \in warnings
  /\ pc # "done" => overall = "none"
  /\ pc = "done" /\ ~Rejected => overall = OverallStatus(input.status)

LEMMA ComparisonInit == Init => ComparisonOK
<1> SUFFICES ASSUME Init PROVE ComparisonOK
  OBVIOUS
<1>1. \A k \in Registered : Untouched(k)
  BY DEF Init, Untouched
<1> QED BY <1>1 DEF Init, ComparisonOK, Rejected

(* Nothing but the thresholds, the order and the outcomes decides these. *)
LEMMA Framed ==
  ASSUME UNCHANGED <<input, threshold, outcomes>>
  PROVE  /\ Compatible' = Compatible /\ InOrder' = InOrder /\ Outcomes' = Outcomes
         /\ \A k \in Registered : /\ Both(k)' = Both(k) /\ SameUnit(k)' = SameUnit(k)
                                  /\ Untouched(k)' = Untouched(k)
         /\ warnings \subseteq warnings' =>
              \A k \in Registered : Compared(k) => Compared(k)'
  BY DEF Compatible, InOrder, Outcomes, Both, SameUnit, Untouched, Compared

LEMMA ComparisonStep == TypeOK /\ ComparisonOK /\ [Next]_vars => ComparisonOK'
<1> SUFFICES ASSUME TypeOK, ComparisonOK, [Next]_vars PROVE ComparisonOK'
  OBVIOUS
<1>1. CASE UNCHANGED vars
  <2>1. UNCHANGED <<input, threshold, outcomes>> /\ UNCHANGED <<pc, next, warnings, overall>>
    BY <1>1 DEF vars
  <2>2. Noted' = Noted /\ Rejected' = Rejected
        /\ OverallStatus(input.status)' = OverallStatus(input.status)
    BY <2>1 DEF Noted, Rejected, OverallStatus, Compatible, Outcomes
  <2> QED BY <2>1, <2>2, Framed DEF ComparisonOK
<1>2. CASE CheckThresholds
  <2>1. UNCHANGED <<input, threshold, outcomes>> /\ next' = next /\ pc = "thresholds"
    BY <1>2 DEF CheckThresholds
  <2>2. \A k \in Registered : Untouched(k)'
    BY <2>1, Framed DEF ComparisonOK
  <2>3. CASE threshold[1] < 0 \/ threshold[2] <= threshold[1]
    BY <1>2, <2>1, <2>2, <2>3 DEF CheckThresholds, ComparisonOK, Rejected
  <2>4. CASE ~(threshold[1] < 0 \/ threshold[2] <= threshold[1])
    <3>1. pc' = "context" /\ overall' = overall
      BY <1>2, <2>4 DEF CheckThresholds
    <3>2. threshold[1] \in Int /\ threshold[2] \in Int
      BY RegressionAssumption DEF TypeOK
    <3>3. InOrder'
      BY <2>1, <2>4, <3>2 DEF InOrder
    <3> QED BY <2>1, <2>2, <3>1, <3>3 DEF ComparisonOK, Rejected
  <2> QED BY <2>3, <2>4
<1>3. CASE Context
  <2>1. /\ UNCHANGED <<input, threshold, outcomes>> /\ UNCHANGED <<next, overall>>
        /\ pc = "context" /\ pc' = IF Compatible THEN "metrics" ELSE "summary"
    BY <1>3 DEF Context
  <2>2. Noted'
    BY <1>3 DEF Context, Noted
  <2>3. \A k \in Registered : Untouched(k)'
    BY <2>1, Framed DEF ComparisonOK
  <2>4. \A k \in Registered : ~(k < next')
    BY <2>1, RegisteredAre DEF ComparisonOK
  <2> QED BY <2>1, <2>2, <2>3, <2>4, Framed DEF ComparisonOK, Rejected
<1>4. CASE CompareMetric
  <2>1. /\ UNCHANGED <<input, threshold, overall>> /\ pc = "metrics" /\ overall = "none"
        /\ next \in Registered /\ Compatible /\ Compatible' /\ InOrder /\ InOrder'
    BY <1>4 DEF CompareMetric, ComparisonOK, TypeOK, Compatible, InOrder, Rejected
  <2>2. warnings \subseteq warnings'
    BY <1>4 DEF CompareMetric
  <2>3. Noted'
    BY <2>1, <2>2 DEF ComparisonOK, Rejected, Noted
  <2>0. PICK n \in Registered : n = next
    BY <2>1
  <2>4. \A k \in Registered : k # n => outcomes'[k] = outcomes[k]
    BY <1>4, <2>0 DEF CompareMetric, TypeOK
  <2>5. \A k \in Registered : k # n /\ Compared(k) => Compared(k)'
    BY <2>1, <2>2, <2>4 DEF Compared, Both, SameUnit
  <2>6. \A k \in Registered : k # n /\ Untouched(k) => Untouched(k)'
    BY <2>4 DEF Untouched
  <2>7. Compared(n)'
    <3>1. Compared(n)' <=>
            /\ Both(n) /\ SameUnit(n) =>
                 outcomes'[n] = Outcome(n, input.source[n].value,
                                           input.current[n].value, threshold)
            /\ Both(n) /\ ~SameUnit(n) => "units" \in warnings'
            /\ ~(Both(n) /\ SameUnit(n)) => outcomes'[n] = "none"
      BY <2>1 DEF Compared, Both, SameUnit
    <3>2. Untouched(n)
      BY <2>0, <2>1, RegisteredAre DEF ComparisonOK
    <3> QED BY <1>4, <2>0, <2>1, <3>1, <3>2 DEF CompareMetric, TypeOK, Untouched
  <2>8. CASE next = Len(Keys)
    <3>1. pc' = "summary" /\ \A k \in Registered : Compared(k)'
      BY <1>4, <2>0, <2>1, <2>5, <2>7, <2>8, RegisteredAre DEF CompareMetric, Advance, ComparisonOK
    <3> QED BY <2>1, <2>3, <3>1 DEF ComparisonOK, Rejected
  <2>9. CASE next # Len(Keys)
    <3>1. pc' = pc /\ next' = next + 1
      BY <1>4, <2>9 DEF CompareMetric, Advance
    <3>2. \A k \in Registered : IF k < next' THEN Compared(k)' ELSE Untouched(k)'
      BY <2>0, <2>1, <2>5, <2>6, <2>7, <3>1, RegisteredAre DEF ComparisonOK
    <3> QED BY <2>1, <2>3, <3>1, <3>2 DEF ComparisonOK, Rejected
  <2> QED BY <2>8, <2>9
<1>5. CASE Summary
  <2>1. /\ UNCHANGED <<input, threshold, outcomes>> /\ UNCHANGED <<next, overall>>
        /\ pc = "summary" /\ pc' = "overall" /\ warnings \subseteq warnings'
        /\ Compatible /\ Outcomes = {} => "nothing" \in warnings'
    BY <1>5 DEF Summary
  <2>2. Noted => Noted'
    BY <2>1 DEF Noted
  <2> QED BY <2>1, <2>2, Framed DEF ComparisonOK, Rejected
<1>6. CASE Conclude
  <2>1. /\ UNCHANGED <<input, threshold, outcomes>> /\ UNCHANGED <<next, warnings>>
        /\ pc = "overall" /\ pc' = "done" /\ overall = "none"
        /\ overall' = OverallStatus(input.status)
    BY <1>6 DEF Conclude, ComparisonOK
  <2>2. (Noted => Noted') /\ OverallStatus(input.status)' = OverallStatus(input.status)
    BY <2>1 DEF Noted, OverallStatus, Compatible, Outcomes
  <2>3. overall' # "rejected"
    BY <2>1 DEF OverallStatus, TypeOK, Status
  <2> QED BY <2>1, <2>2, <2>3, Framed DEF ComparisonOK, Rejected
<1> QED BY <1>1, <1>2, <1>3, <1>4, <1>5, <1>6 DEF Next

ComparedOK == TypeOK /\ ComparisonOK

LEMMA Comparing == Spec => []ComparedOK
<1>1. Init => ComparedOK
  BY TypeInit, ComparisonInit DEF ComparedOK
<1>2. ComparedOK /\ [Next]_vars => ComparedOK'
  BY TypeStep, ComparisonStep DEF ComparedOK
<1> QED BY <1>1, <1>2, PTL DEF Spec

-----------------------------------------------------------------------------
(* The classification of one metric, in terms of its loss.                   *)
Losing(k, b, c) == 100 * (IF k \in Higher THEN b - c ELSE c - b)

LEMMA Scaled ==
  ASSUME NEW p \in Int, NEW q \in Int, NEW s \in Nat \ {0}, 0 <= p, p < q
  PROVE  0 <= p * s /\ p * s < q * s
  OBVIOUS

LEMMA MagnitudeIs ==
  ASSUME NEW b \in Int
  PROVE  Magnitude(b) \in Nat /\ (Magnitude(b) = 0 <=> b = 0)
  BY DEF Magnitude

(* For thresholds in order: where the loss lies decides the outcome. *)
LEMMA OutcomeByLoss ==
  ASSUME NEW k, NEW b \in Int, NEW c \in Int, b # 0, InOrder,
         threshold[1] \in Int, threshold[2] \in Int
  PROVE  LET a == Losing(k, b, c)
             w == threshold[1] * Magnitude(b)
             f == threshold[2] * Magnitude(b)
             o == Outcome(k, b, c, threshold)
         IN  /\ a \in Int /\ w \in Nat /\ f \in Nat /\ w < f
             /\ a = 0 => o = "UNCHANGED"
             /\ a # 0 /\ a >= f => o = "FAIL"
             /\ a # 0 /\ a < f /\ a >= w => o = "WARN"
             /\ a # 0 /\ a < w /\ a <= -w => o = "IMPROVED"
             /\ a < w /\ a > -w => o = "UNCHANGED"
<1> DEFINE a == Losing(k, b, c)
           w == threshold[1] * Magnitude(b)
           f == threshold[2] * Magnitude(b)
<1>1. a \in Int /\ (c - b) * (IF k \in Higher THEN -100 ELSE 100) = a
  BY DEF Losing
<1>2. w \in Nat /\ f \in Nat /\ w < f
  BY MagnitudeIs, Scaled DEF InOrder
<1>3. Outcome(k, b, c, threshold) =
        IF a = 0 THEN "UNCHANGED" ELSE IF a >= f THEN "FAIL" ELSE IF a >= w THEN "WARN"
        ELSE IF a <= -w THEN "IMPROVED" ELSE "UNCHANGED"
  BY <1>1 DEF Outcome
<1>4. /\ a = 0 => Outcome(k, b, c, threshold) = "UNCHANGED"
      /\ a # 0 /\ a >= f => Outcome(k, b, c, threshold) = "FAIL"
      /\ a # 0 /\ a < f /\ a >= w => Outcome(k, b, c, threshold) = "WARN"
      /\ a # 0 /\ a < w /\ a <= -w => Outcome(k, b, c, threshold) = "IMPROVED"
      /\ a < w /\ a > -w => Outcome(k, b, c, threshold) = "UNCHANGED"
  <2> HIDE DEF a, w, f
  <2> QED BY <1>1, <1>2, <1>3
<1> QED BY <1>1, <1>2, <1>4

LEMMA OutcomeOfZero ==
  ASSUME NEW k, NEW c \in Int
  PROVE  Outcome(k, 0, c, threshold) = IF c = 0 THEN "UNCHANGED" ELSE "UNAVAILABLE"
  BY DEF Outcome

(* The facts about a comparison that every property below starts from. *)
LEMMA Operands ==
  ASSUME ComparedOK, NEW k \in Registered
  PROVE  /\ input.source[k].value \in Int /\ input.current[k].value \in Int
         /\ threshold[1] \in Int /\ threshold[2] \in Int
         /\ Loss(k) = Losing(k, input.source[k].value, input.current[k].value)
         /\ Size(k) \in Nat /\ (Size(k) = 0 <=> input.source[k].value = 0)
<1>1. input.source[k].value \in Int /\ input.current[k].value \in Int
  BY InputsAre, MetricsAre DEF ComparedOK, TypeOK
<1>2. threshold[1] \in Int /\ threshold[2] \in Int
  BY RegressionAssumption DEF ComparedOK, TypeOK
<1>3. Loss(k) = Losing(k, input.source[k].value, input.current[k].value)
  BY DEF Loss, Losing
<1> QED BY <1>1, <1>2, <1>3, MagnitudeIs DEF Size

LEMMA ConcludedAre ==
  ASSUME ComparedOK, overall \in Status
  PROVE  /\ pc = "done" /\ ~Rejected /\ InOrder /\ Noted
         /\ overall = OverallStatus(input.status)
         /\ Compatible => \A k \in Registered : Compared(k)
         /\ Compatible /\ Outcomes = {} => "nothing" \in warnings
  BY DEF ComparedOK, ComparisonOK, Rejected, Status

(* For all metrics, values and thresholds: a comparison passes only when the *)
(* current run passed under the same circumstances and no metric both runs   *)
(* have reached the warning threshold.                                       *)
THEOREM PassesAreEvidence == Spec => []PassIsEvidence
<1>1. ASSUME ComparedOK, overall = "PASS" PROVE PassIsEvidence
  <2>1. /\ InOrder /\ Noted /\ overall = OverallStatus(input.status)
        /\ Compatible => \A k \in Registered : Compared(k)
        /\ Compatible /\ Outcomes = {} => "nothing" \in warnings
    BY <1>1, ConcludedAre DEF Status
  <2>2. /\ input.status \notin {"FAIL", "ERROR", "WARN"} /\ Compatible /\ warnings = {}
        /\ Outcomes \cap {"FAIL", "WARN", "UNAVAILABLE"} = {}
    BY <1>1, <2>1 DEF OverallStatus
  <2>3. input.samePower /\ ~input.self
    BY <1>1, <2>1, <2>2, InputsAre DEF Noted, ComparedOK, TypeOK
  <2>4. Outcomes # {}
    BY <2>1, <2>2
  <2>5. PICK m \in Registered : outcomes[m] # "none"
    BY <2>4 DEF Outcomes
  <2>6. Both(m)
    BY <2>1, <2>2, <2>5 DEF Compared
  <2>7. input.status = "PASS"
    <3>1. input.status # "SKIP"
      BY <1>1, <2>6 DEF Both, ComparedOK, TypeOK, Inputs
    <3> QED BY <1>1, <2>2, <3>1, InputsAre DEF ComparedOK, TypeOK, Status
  <2>8. ASSUME NEW k \in Registered, Both(k)
        PROVE  /\ SameUnit(k)
               /\ IF Size(k) = 0 THEN input.current[k].value = 0
                  ELSE Loss(k) <= 0 \/ Loss(k) < threshold[1] * Size(k)
    <3> DEFINE b == input.source[k].value
               c == input.current[k].value
    <3>1. SameUnit(k) /\ outcomes[k] = Outcome(k, b, c, threshold)
      BY <2>1, <2>2, <2>8 DEF Compared
    <3>2. outcomes[k] \notin {"FAIL", "WARN", "UNAVAILABLE"}
      <4>1. Outcome(k, b, c, threshold) # "none"
        BY OutcomeIs DEF OutcomeValues
      <4> QED BY <2>2, <3>1, <4>1 DEF Outcomes
    <3>3. CASE b = 0
      BY <1>1, <3>1, <3>2, <3>3, Operands, OutcomeOfZero
    <3>4. CASE b # 0
      <4>1. /\ Losing(k, b, c) \in Int /\ threshold[1] * Size(k) \in Nat
            /\ Losing(k, b, c) # 0 => Losing(k, b, c) < threshold[1] * Size(k)
        BY <1>1, <2>1, <3>1, <3>2, <3>4, Operands, OutcomeByLoss DEF Size
      <4> QED BY <1>1, <3>1, <3>4, <4>1, Operands
    <3> QED BY <3>3, <3>4
  <2> QED BY <2>2, <2>3, <2>6, <2>7, <2>8 DEF PassIsEvidence
<1>2. ComparedOK => PassIsEvidence
  BY <1>1 DEF PassIsEvidence
<1> QED BY <1>2, Comparing, PTL

(* For all metrics, values and thresholds: the current run's own FAIL or     *)
(* ERROR is the overall status, and otherwise a loss of the failure          *)
(* threshold in any comparable metric fails the comparison.                  *)
THEOREM FailuresAreSurfaced == Spec => []FailuresSurface
<1>1. ASSUME ComparedOK, overall \in Status PROVE FailuresSurface
  <2>1. /\ InOrder /\ overall = OverallStatus(input.status)
        /\ Compatible => \A k \in Registered : Compared(k)
    BY <1>1, ConcludedAre
  <2>2. input.status \in {"FAIL", "ERROR"} => overall = input.status
    BY <2>1 DEF OverallStatus
  <2>3. overall = "ERROR" => input.status = "ERROR"
    BY <2>1 DEF OverallStatus
  <2>4. ASSUME Compatible, NEW k \in Registered, Both(k), SameUnit(k), Size(k) > 0,
               Loss(k) >= threshold[2] * Size(k)
        PROVE  overall \in {"FAIL", "ERROR"}
    <3> DEFINE b == input.source[k].value
               c == input.current[k].value
    <3>1. outcomes[k] = Outcome(k, b, c, threshold)
      BY <2>1, <2>4 DEF Compared
    <3>2. b # 0 /\ Losing(k, b, c) >= threshold[2] * Magnitude(b)
      BY <1>1, <2>4, Operands DEF Size
    <3>3. Outcome(k, b, c, threshold) = "FAIL"
      <4>1. /\ Losing(k, b, c) \in Int /\ threshold[1] * Magnitude(b) \in Nat
            /\ threshold[2] * Magnitude(b) \in Nat
            /\ threshold[1] * Magnitude(b) < threshold[2] * Magnitude(b)
            /\ Losing(k, b, c) # 0 /\ Losing(k, b, c) >= threshold[2] * Magnitude(b) =>
                 Outcome(k, b, c, threshold) = "FAIL"
        BY <1>1, <2>1, <3>2, Operands, OutcomeByLoss
      <4> QED BY <3>2, <4>1
    <3>4. "FAIL" \in Outcomes
      BY <3>1, <3>3 DEF Outcomes
    <3> QED BY <2>1, <2>4, <3>4 DEF OverallStatus
  <2> QED BY <2>2, <2>3, <2>4 DEF FailuresSurface
<1>2. ComparedOK => FailuresSurface
  BY <1>1 DEF FailuresSurface
<1> QED BY <1>2, Comparing, PTL

(* A run compared with its own baseline has changed in no metric, and the    *)
(* comparison does not pass.                                                 *)
THEOREM SelfComparison == Spec => []SelfIsUnchanged
<1>1. ASSUME ComparedOK, input.self, NEW k \in Registered, outcomes[k] # "none"
      PROVE  outcomes[k] = "UNCHANGED"
  <2>1. input.source = input.current
    BY <1>1 DEF ComparedOK, TypeOK, Inputs
  <2>2. Compared(k) /\ InOrder
    <3>1. pc \in {"thresholds", "context", "metrics", "summary", "overall", "done"}
      BY <1>1 DEF ComparedOK, TypeOK
    <3> QED BY <1>1, <3>1 DEF ComparedOK, ComparisonOK, Untouched
  <2>3. outcomes[k] = Outcome(k, input.source[k].value, input.source[k].value, threshold)
    BY <1>1, <2>1, <2>2 DEF Compared
  <2>4. CASE input.source[k].value = 0
    BY <1>1, <2>3, <2>4, Operands, OutcomeOfZero
  <2>5. CASE input.source[k].value # 0
    <3>1. Losing(k, input.source[k].value, input.source[k].value) = 0
      BY <1>1, Operands DEF Losing
    <3> QED BY <1>1, <2>2, <2>3, <2>5, <3>1, Operands, OutcomeByLoss
  <2> QED BY <2>4, <2>5
<1>2. ASSUME ComparedOK, input.self PROVE overall # "PASS"
  <2>1. ASSUME overall = "PASS" PROVE FALSE
    <3>1. "self" \in warnings /\ overall = OverallStatus(input.status)
      BY <1>2, <2>1, ConcludedAre DEF Noted, Status
    <3> QED BY <2>1, <3>1 DEF OverallStatus
  <2> QED BY <2>1
<1>3. ComparedOK => SelfIsUnchanged
  BY <1>1, <1>2 DEF SelfIsUnchanged, Outcomes
<1> QED BY <1>3, Comparing, PTL

-----------------------------------------------------------------------------
(* The severities in their order. *)
LEMMA SeveritiesAre ==
  /\ Severity("IMPROVED") = 1 /\ Severity("UNCHANGED") = 2
  /\ Severity("WARN") = 3 /\ Severity("FAIL") = 4
<1>1. DOMAIN Severities = 1 .. 4
  BY DEF Severities
<1>2. /\ Severities[1] = "IMPROVED" /\ Severities[2] = "UNCHANGED"
      /\ Severities[3] = "WARN" /\ Severities[4] = "FAIL"
  BY DEF Severities
<1>3. ASSUME NEW n \in 1 .. 4, NEW o, Severities[n] = o PROVE Severity(o) = n
  <2>1. \A i \in 1 .. 4 : Severities[i] = o => i = n
    BY <1>2, <1>3
  <2>2. Severity(o) = CHOOSE i \in 1 .. 4 : Severities[i] = o
    BY <1>1 DEF Severity
  <2> QED BY <1>3, <2>1, <2>2
<1> QED BY <1>2, <1>3

(* The outcome of a smaller loss is not more severe. *)
LEMMA LessLossIsBetter ==
  ASSUME NEW k, NEW b \in Int, NEW c \in Int, NEW v \in Int, b # 0, InOrder,
         threshold[1] \in Int, threshold[2] \in Int,
         Losing(k, b, v) <= Losing(k, b, c)
  PROVE  Severity(Outcome(k, b, v, threshold)) <= Severity(Outcome(k, b, c, threshold))
<1> DEFINE a == Losing(k, b, c)
           d == Losing(k, b, v)
           w == threshold[1] * Magnitude(b)
           f == threshold[2] * Magnitude(b)
           o == Outcome(k, b, c, threshold)
           n == Outcome(k, b, v, threshold)
<1>1. /\ a \in Int /\ w \in Nat /\ f \in Nat /\ w < f
      /\ a = 0 => o = "UNCHANGED"
      /\ a # 0 /\ a >= f => o = "FAIL"
      /\ a # 0 /\ a < f /\ a >= w => o = "WARN"
      /\ a # 0 /\ a < w /\ a <= -w => o = "IMPROVED"
      /\ a < w /\ a > -w => o = "UNCHANGED"
  BY OutcomeByLoss
<1>2. /\ d \in Int
      /\ d = 0 => n = "UNCHANGED"
      /\ d # 0 /\ d >= f => n = "FAIL"
      /\ d # 0 /\ d < f /\ d >= w => n = "WARN"
      /\ d # 0 /\ d < w /\ d <= -w => n = "IMPROVED"
      /\ d < w /\ d > -w => n = "UNCHANGED"
  BY OutcomeByLoss
<1>3. d <= a
  OBVIOUS
<1> HIDE DEF a, d, w, f, o, n
<1>4. Severity(n) <= Severity(o)
  BY <1>1, <1>2, <1>3, SeveritiesAre
<1> QED BY <1>4 DEF n, o

(* The outcome of every classified metric is monotone in the current value.  *)
THEOREM OutcomesAreMonotone == Spec => []OutcomeMonotone
<1>1. ASSUME ComparedOK, NEW k \in Registered, outcomes[k] # "none", Size(k) > 0,
             NEW v \in Values,
             IF k \in Higher THEN v >= input.current[k].value ELSE v <= input.current[k].value
      PROVE  Severity(Outcome(k, input.source[k].value, v, threshold)) <= Severity(outcomes[k])
  <2> DEFINE b == input.source[k].value
             c == input.current[k].value
  <2>1. b \in Int /\ c \in Int /\ b # 0 /\ v \in Int
    BY <1>1, Operands, RegressionAssumption
  <2>2. Compared(k) /\ InOrder
    <3>1. pc \in {"thresholds", "context", "metrics", "summary", "overall", "done"}
      BY <1>1 DEF ComparedOK, TypeOK
    <3> QED BY <1>1, <3>1 DEF ComparedOK, ComparisonOK, Untouched
  <2>3. outcomes[k] = Outcome(k, b, c, threshold)
    BY <1>1, <2>2 DEF Compared
  <2>4. Losing(k, b, v) <= Losing(k, b, c)
    <3> HIDE DEF b, c
    <3>1. IF k \in Higher THEN v >= c ELSE v <= c
      BY <1>1 DEF c
    <3> QED BY <2>1, <3>1 DEF Losing
  <2> QED BY <1>1, <2>1, <2>2, <2>3, <2>4, Operands, LessLossIsBetter
<1>2. ComparedOK => OutcomeMonotone
  BY <1>1 DEF OutcomeMonotone
<1> QED BY <1>2, Comparing, PTL
=============================================================================
