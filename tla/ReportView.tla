----------------------------- MODULE ReportView -----------------------------
(***************************************************************************)
(* build_report_view: the labels a report puts on the values of a stored   *)
(* run, and which telemetry rows and which chart it has.  Numbers, texts   *)
(* and layout are left out.                                                *)
(***************************************************************************)
EXTENDS Verdicts, FiniteSets

DerivedMetrics ==
  {"absolute_error", "median_absolute_deviation", "median_duration",
   "operations_per_second", "read_throughput", "robust_variability", "throughput",
   "write_throughput"}

(* Mutant: derived wins over simulated. *)
LabelDerivedFirst(name, injected) ==
  IF name \in DerivedMetrics THEN "derived"
  ELSE IF injected THEN "simulated"
  ELSE "measured"

(* The label of a metric does not depend on its value. *)
Label(name, injected) ==
  IF injected THEN "simulated"
  ELSE IF name \in DerivedMetrics THEN "derived"
  ELSE "measured"

(* The label of what a requirement was compared with does. *)
ActualLabel(evaluation, injected) ==
  IF Available(evaluation.actual) THEN Label(evaluation.metric, injected) ELSE "unavailable"

LabelOf(text) == IF text = "" THEN "unavailable" ELSE "measured"

(* _platform_values: most rows are always there. *)
PlatformLabels(platform) ==
  [row \in {"os", "architecture", "processors", "memory", "capacity", "free", "cpu",
            "powerPlan", "probe", "fingerprint"} |->
     CASE row = "cpu"         -> LabelOf(platform.brand)
       [] row = "powerPlan"   -> LabelOf(platform.powerPlan)
       [] row = "probe"       -> IF platform.probed THEN "measured" ELSE "unavailable"
       [] row = "fingerprint" -> "derived"
       [] OTHER               -> "measured"]

(* A sample: which of its readings were there. *)
With(samples, reading) == {i \in DOMAIN samples : reading \in samples[i]}

(* _telemetry_values: a row for every reading some sample has. *)
TelemetryRows(samples) ==
  {"count"} \cup {reading \in {"cpu", "memory", "temperature"} : With(samples, reading) # {}}

(* _cpu_chart: a line needs two points. *)
Chart(samples) ==
  LET points == Cardinality(With(samples, "cpu"))
  IN  CASE points = 0 -> "none" [] points = 1 -> "point" [] OTHER -> "line"

TestView(result, samples) ==
  [status    |-> result.status,
   metrics   |-> [name \in DOMAIN result.metrics |-> Label(name, result.injected)],
   actuals   |-> [i \in DOMAIN result.requirements |->
                    ActualLabel(result.requirements[i], result.injected)],
   telemetry |-> TelemetryRows(samples),
   chart     |-> Chart(samples)]

View(run, platform, telemetry) ==
  [status    |-> run.status,
   platform  |-> PlatformLabels(platform),
   tests     |-> [i \in DOMAIN run.results |-> TestView(run.results[i], telemetry[i])],
   simulated |-> \E i \in DOMAIN run.results : run.results[i].injected]
=============================================================================
