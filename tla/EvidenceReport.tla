--------------------------- MODULE EvidenceReport ---------------------------
(***************************************************************************)
(* From the machine to the report: a run captures its platform, measures,  *)
(* judges and is stored (PlatformInventory, Verdicts); a report is made of *)
(* what a command reads of the stored run while other commands work on the *)
(* same database (RunRepository), and labels it (ReportView).              *)
(*                                                                         *)
(* Executions, the parameter of RunRepository, are the executions of one   *)
(* test on a host at a moment.  Nothing a run does before it is saved      *)
(* meets another process, so that an execution is made in one step.        *)
(***************************************************************************)
EXTENDS RunRepository, PlatformInventory, ReportView

CONSTANTS
  Hosts,   \* the machines
  Moments, \* how a machine can be found
  Tests    \* the tests of a plan: kind, whether enabled and injected, the
           \* variability tolerated, and requirements

Workloads == {"integer", "stability"}
Kinds == Workloads \cup {"inventory", "telemetry", "configuration", "unregistered"}

(* CPU-001: its checksum cannot match if a fault is injected, and it has no  *)
(* rate if the clock did not move while it ran.                              *)
IntegerCase(test, moment) ==
  LET valid == moment.sound /\ ~test.injected
  IN  CaseOf([checksum_valid        |-> Truth(valid),
              operations            |-> Number(2),
              operations_per_second |-> IF moment.timed THEN Number(1) ELSE Absent],
             "PASS", valid)

(* STB-001: a variability above the test's tolerance, or none for want of a  *)
(* median duration, is a hint.                                               *)
StabilityCase(test, moment) ==
  CaseOf([median_duration    |-> Number(IF moment.timed THEN 1 ELSE 0),
          robust_variability |-> IF moment.timed THEN Number(moment.spread) ELSE Absent],
         IF moment.timed /\ moment.spread <= test.tolerated THEN "PASS" ELSE "WARN",
         moment.sound)

NotImplemented == CaseOf(<< >>, "SKIP", TRUE)

(* The dispatch by test ID; what has no implementation, REG-001 included, is *)
(* skipped.  One workload stands for those without a hint of their own.      *)
Case(test, platform, moment) ==
  CASE test.kind = "inventory"     -> InventoryCase(platform)
    [] test.kind = "integer"       -> IntegerCase(test, moment)
    [] test.kind = "telemetry"     -> TelemetryCase(platform)
    [] test.kind = "stability"     -> StabilityCase(test, moment)
    [] test.kind = "configuration" -> ConfigurationCase(platform)
    [] test.kind = "unregistered"  -> NotImplemented

Failed == CaseOf(<< >>, "ERROR", FALSE)

(* The try of _run_test: a workload may run into its timeout, a limit or an  *)
(* error of the operating system; the other cases only look things up.       *)
Attempt(test, platform, moment) ==
  IF test.kind \in Workloads /\ moment.raises THEN Failed
  ELSE Case(test, platform, moment)

(* The evaluations a TestResult lists: none if none were made or one of them *)
(* was of the wrong type.                                                    *)
Evaluations(test, case, evaluation) ==
  IF case.hint \in {"SKIP", "ERROR"} \/ evaluation = "invalid" THEN << >>
  ELSE [i \in DOMAIN test.requirements |->
          LET requirement == test.requirements[i]
              actual      == Lookup(case.metrics, requirement.metric)
          IN  [metric |-> requirement.metric, actual |-> actual,
               passed |-> Evaluate(requirement, actual) = "passed"]]

Result(test, case) ==
  LET evaluation == EvaluateAll(test.requirements, case.metrics)
  IN  [status       |-> Judge(case.hint, case.correct, evaluation),
       metrics      |-> case.metrics,
       requirements |-> Evaluations(test, case, evaluation),
       injected     |-> test.injected]

(* A disabled test is skipped before anything is started for it. *)
Disabled == [status |-> "SKIP", metrics |-> << >>, requirements |-> << >>, injected |-> FALSE]

(* _run_test: the result, and the samples taken meanwhile. *)
RunTest(test, platform, moment) ==
  IF test.enabled THEN Result(test, Attempt(test, platform, moment)) ELSE Disabled
Samples(test, moment) == IF test.enabled THEN moment.samples ELSE << >>

(* What run_validation_plan returns for a plan of one test.  origin is what  *)
(* it was made from, for the properties; no code reads it.                   *)
Execution(host, moment, test) ==
  LET platform == Capture(host, moment)
      result   == RunTest(test, platform, moment)
  IN  [run       |-> [results     |-> <<result>>,
                      fingerprint |-> Fingerprint(platform),
                      status      |-> AggregateStatus({result.status})],
       platform  |-> platform,
       telemetry |-> <<Samples(test, moment)>>,
       origin    |-> [host |-> host, moment |-> moment, test |-> test]]

(* The fields of leaf 4 hold what fits into their bits, the number of sets    *)
(* whatever a register can hold.                                             *)
ASSUME RegisterAssumption ==
  \A h \in Hosts : \A i \in DOMAIN h.cpu.leaf4 :
    LET subleaf == h.cpu.leaf4[i]
    IN  /\ subleaf.level \in Nat /\ subleaf.line \in Nat /\ subleaf.partitions \in Nat
        /\ subleaf.ways \in Nat /\ subleaf.sets \in 0 .. RegisterValues - 1

ASSUME EvidenceAssumption ==
  Executions \subseteq {Execution(h, m, t) : h \in Hosts, m \in Moments, t \in Tests}

(* Only CPU-001 and CPU-003 may be injected, and not if they are disabled. *)
ASSUME TestAssumption ==
  /\ \A t \in Tests : t.kind \in Kinds /\ t.injected \in BOOLEAN /\ t.enabled \in BOOLEAN
  /\ \A t \in Tests : t.injected => t.enabled /\ t.kind = "integer"
  /\ \A t \in Tests : \A i \in DOMAIN t.requirements : WellFormed(t.requirements[i])

ASSUME MomentAssumption ==
  \A m \in Moments : m.timed \in BOOLEAN /\ IsFiniteSet(DOMAIN m.samples)

-----------------------------------------------------------------------------
(* The host, moment, test and result of a stored run. *)
Host(r)       == rows[r].origin.host
Moment(r)     == rows[r].origin.moment
Test(r)       == rows[r].origin.test
TestResult(r) == rows[r].run.results[1]

(* The size of a cache, in numbers that do not wrap. *)
TrueSize(registers) ==
  (registers.line + 1) * (registers.partitions + 1) * (registers.ways + 1)
    * (registers.sets + 1)

(* If the probe's answer was used, every cache is recorded with its true     *)
(* size, those before an overflow included; if not, none is.  AVX is only    *)
(* said to be enabled if the operating system saves its state.               *)
NativeDetailTrue ==
  \A r \in DOMAIN rows :
    LET cpu == Host(r).cpu  platform == rows[r].platform
    IN  /\ \A i \in DOMAIN platform.caches :
             platform.caches[i].size = TrueSize(cpu.leaf4[i])
        /\ ~platform.probed => platform.caches = << >> /\ platform.features = {}
        /\ "avx_os_enabled" \in platform.features =>
             "avx_hardware" \in platform.features /\ AvxStateSaved(cpu)

(* Comparisons refuse runs whose fingerprints differ.  Two runs on a host    *)
(* have the same one whatever the sensors, the space and the power plan did, *)
(* provided that the probe answered both times or neither, and the volumes   *)
(* could be listed.  (architecture.md: the fingerprint "deliberately         *)
(* excludes free disk space, sensor availability, and other transient        *)
(* capabilities".)                                                           *)
FingerprintStable ==
  \A r \in DOMAIN rows, m \in Moments :
    /\ Native(Host(r), m) = Native(Host(r), Moment(r))
    /\ m.listed = Moment(r).listed
    => Fingerprint(Capture(Host(r), m)) = rows[r].run.fingerprint

(* The doctor and a run look for the same optional parts, each by its own    *)
(* conditions.  A doctor that passes speaks for every run at that moment:    *)
(* what is skipped was disabled or has no implementation, and what warns     *)
(* does so about timing.  A doctor that warns does so for a reason: the      *)
(* configuration test would be skipped, or the telemetry test would warn.    *)
DoctorPredicts ==
  \A r \in DOMAIN rows :
    LET doctor == Doctor(Host(r), Moment(r))
        status == TestResult(r).status
    IN  /\ doctor = "PASS" =>
             /\ status = "SKIP" => ~Test(r).enabled \/ Test(r).kind = "unregistered"
             /\ status = "WARN" => Test(r).kind = "stability"
        /\ doctor = "WARN" =>
             \/ ConfigurationCase(rows[r].platform).hint = "SKIP"
             \/ TelemetryCase(rows[r].platform).hint = "WARN"

(* A test passes, or only warns, if it lists an evaluation of each of its    *)
(* requirements and each of them passed on something that was measured: an   *)
(* absent value is neither zero nor different from what was expected         *)
(* (results-guide.md: unavailable "never means numeric zero").               *)
AbsentNeverPasses ==
  \A r \in DOMAIN rows :
    TestResult(r).status \in {"PASS", "WARN"} =>
      /\ DOMAIN TestResult(r).requirements = DOMAIN Test(r).requirements
      /\ \A i \in DOMAIN TestResult(r).requirements :
           /\ TestResult(r).requirements[i].passed
           /\ Available(TestResult(r).requirements[i].actual)

(* The case measures no such metric, the operating system does not tell, or  *)
(* the clock was too coarse.                                                 *)
Unmeasured(r, metric) ==
  \/ metric \notin DOMAIN TestResult(r).metrics
  \/ metric = "physical_cpu_count" /\ ~Available(Host(r).physical)
  \/ metric \in {"operations_per_second", "robust_variability"} /\ ~Moment(r).timed

Shown(r) == View(reports[r][1], reports[r][2], reports[r][3])

(* What a registered report says agrees with the machine it is about: a text *)
(* the host does not know is unavailable, whatever a fault injection touched *)
(* is simulated and nothing else is, a requirement on nothing shows that,    *)
(* and there is a chart exactly if a sample of the enabled test has a point  *)
(* for it.                                                                   *)
ReportTruthful ==
  \A r \in DOMAIN reports :
    LET view == Shown(r)  test == view.tests[1]
    IN  /\ view.simulated <=> Test(r).injected
        /\ \A name \in DOMAIN test.metrics :
             (test.metrics[name] = "simulated") <=> Test(r).injected
        /\ \A i \in DOMAIN test.actuals :
             (test.actuals[i] = "unavailable") <=> Unmeasured(r, Test(r).requirements[i].metric)
        /\ (view.platform.probe = "measured") <=> Native(Host(r), Moment(r))
        /\ Host(r).processor = "" /\ Host(r).cpu.brand = "" =>
             view.platform.cpu = "unavailable"
        /\ (test.chart = "none") <=>
             \/ ~Test(r).enabled
             \/ \A i \in DOMAIN Moment(r).samples : "cpu" \notin Moment(r).samples[i]
=============================================================================
