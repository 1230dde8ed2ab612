------------------------ MODULE EvidenceReport_proofs ------------------------
(***************************************************************************)
(* Machine-checked proofs about what stored runs say: for every set of     *)
(* hosts, moments and tests, and every width of the registers.  They rest  *)
(* on one invariant, that a stored row is an execution as it was made, and *)
(* on what the pure definitions make of a host at a moment.                *)
(***************************************************************************)
EXTENDS EvidenceReport, RunRepository_proofs, FiniteSetTheorems

RowsMade == \A r \in DOMAIN rows : rows[r] \in Executions

LEMMA RowsStayMade == Spec => []RowsMade
<1>1. Init => RowsMade
  BY DEF Init, RowsMade
<1>2. RowsMade /\ [Next]_vars => RowsMade'
  <2> SUFFICES ASSUME RowsMade, [Next]_vars PROVE RowsMade'
    OBVIOUS
  <2>1. CASE rows' = rows
    BY <2>1 DEF RowsMade
  <2>2. CASE \E p \in Procs : Save(p)
    BY <2>2 DEF Save, Put, RowsMade
  <2>3. CASE \E p \in Procs : Delete(p)
    BY <2>3 DEF Delete, Drop, RowsMade
  <2> QED BY <2>1, <2>2, <2>3 DEF Next, vars, database, Operate, ReadVersion, RunStatement,
          InsertVersion, List, Register, ReadRun, ReadPlatform, ReadTelemetry,
          FailStatement, Crash
<1> QED BY <1>1, <1>2, PTL DEF Spec

(* A stored run is the execution of a test on a host at a moment. *)
LEMMA RowIs ==
  ASSUME RowsMade, NEW r \in DOMAIN rows
  PROVE  \E h \in Hosts, m \in Moments, t \in Tests :
           /\ Host(r) = h /\ Moment(r) = m /\ Test(r) = t
           /\ rows[r].platform = Capture(h, m)
           /\ rows[r].run.fingerprint = Fingerprint(Capture(h, m))
           /\ TestResult(r) = RunTest(t, Capture(h, m), m)
<1>1. PICK h \in Hosts, m \in Moments, t \in Tests : rows[r] = Execution(h, m, t)
  BY EvidenceAssumption DEF RowsMade
<1> QED BY <1>1 DEF Execution, Host, Moment, Test, TestResult

-----------------------------------------------------------------------------
(* The probe.  A cache whose number of sets wrapped has none, and an answer  *)
(* with such a cache is not acceptable: what is accepted did not wrap.       *)

LEMMA AcceptedIsAcceptable ==
  ASSUME NEW h, NEW m, Native(h, m)
  PROVE  Acceptable(ProbeData(h.cpu))
  BY DEF Native, Outcome

LEMMA AcceptedCacheIsTrue ==
  ASSUME NEW h \in Hosts, NEW m, Native(h, m), NEW i \in Listed(h.cpu)
  PROVE  DecodeCache(h.cpu.leaf4[i]).size = TrueSize(h.cpu.leaf4[i])
<1> DEFINE subleaf == h.cpu.leaf4[i]
<1>1. i \in DOMAIN h.cpu.leaf4
  BY DEF Listed
<1>2. subleaf.sets \in 0 .. RegisterValues - 1 /\ RegisterValues \in Nat \ {0}
  BY <1>1, RegisterAssumption, ProbeAssumption
<1>3. ProbeData(h.cpu).caches[i] = DecodeCache(subleaf) /\ i \in DOMAIN ProbeData(h.cpu).caches
  BY DEF ProbeData, Caches
<1>4. DecodeCache(subleaf).sets > 0
  BY <1>3, AcceptedIsAcceptable DEF Acceptable
<1>5. (subleaf.sets + 1) % RegisterValues > 0
  BY <1>4 DEF DecodeCache
<1>6. subleaf.sets + 1 < RegisterValues
  <2>1. CASE subleaf.sets + 1 = RegisterValues
    BY <1>2, <1>5, <2>1
  <2> QED BY <1>2, <2>1
<1>7. (subleaf.sets + 1) % RegisterValues = subleaf.sets + 1
  BY <1>2, <1>6
<1> QED BY <1>7 DEF DecodeCache, TrueSize

LEMMA FeaturesAreTrue ==
  ASSUME NEW cpu, "avx_os_enabled" \in Features(cpu)
  PROVE  "avx_hardware" \in Features(cpu) /\ AvxStateSaved(cpu)
  BY DEF Features

(* Whatever the processor, the registers and the fate of the probe: what a   *)
(* stored run says of caches and vector state is true of its host.           *)
THEOREM NativeDetailIsTrue == Spec => []NativeDetailTrue
<1>1. ASSUME RowsMade PROVE NativeDetailTrue
  <2> SUFFICES ASSUME NEW r \in DOMAIN rows
               PROVE  LET cpu == Host(r).cpu  platform == rows[r].platform
                      IN  /\ \A i \in DOMAIN platform.caches :
                               platform.caches[i].size = TrueSize(cpu.leaf4[i])
                          /\ ~platform.probed => platform.caches = << >> /\ platform.features = {}
                          /\ "avx_os_enabled" \in platform.features =>
                               "avx_hardware" \in platform.features /\ AvxStateSaved(cpu)
    BY DEF NativeDetailTrue
  <2>1. PICK h \in Hosts, m \in Moments : Host(r) = h /\ rows[r].platform = Capture(h, m)
    BY <1>1, RowIs
  <2>2. CASE Native(h, m)
    <3>1. /\ Capture(h, m).probed
          /\ Capture(h, m).features = Features(h.cpu)
          /\ Capture(h, m).caches = Descriptors(Caches(h.cpu))
      BY <2>2 DEF Capture, ProbeData
    <3>2. ASSUME NEW i \in DOMAIN Descriptors(Caches(h.cpu))
          PROVE  Descriptors(Caches(h.cpu))[i].size = TrueSize(h.cpu.leaf4[i])
      <4>1. i \in Listed(h.cpu)
        BY DEF Descriptors, Caches
      <4>2. Descriptors(Caches(h.cpu))[i].size = DecodeCache(h.cpu.leaf4[i]).size
        BY <4>1 DEF Descriptors, Descriptor, Caches
      <4> QED BY <2>2, <4>1, <4>2, AcceptedCacheIsTrue
    <3> QED BY <2>1, <3>1, <3>2, FeaturesAreTrue
  <2>3. CASE ~Native(h, m)
    <3>1. /\ ~Capture(h, m).probed /\ Capture(h, m).features = {}
          /\ Capture(h, m).caches = << >>
      BY <2>3 DEF Capture
    <3> QED BY <2>1, <3>1
  <2> QED BY <2>2, <2>3
<1> QED BY <1>1, RowsStayMade, PTL

-----------------------------------------------------------------------------
(* Two runs on a host whose probe answered both times, or neither, and whose *)
(* volumes could be listed both times, or neither, have one fingerprint.     *)
THEOREM FingerprintsAreStable == Spec => []FingerprintStable
<1>1. ASSUME RowsMade PROVE FingerprintStable
  <2> SUFFICES ASSUME NEW r \in DOMAIN rows, NEW m \in Moments,
                      Native(Host(r), m) = Native(Host(r), Moment(r)),
                      m.listed = Moment(r).listed
               PROVE  Fingerprint(Capture(Host(r), m)) = rows[r].run.fingerprint
    BY DEF FingerprintStable
  <2>1. PICK h \in Hosts, n \in Moments :
           /\ Host(r) = h /\ Moment(r) = n
           /\ rows[r].run.fingerprint = Fingerprint(Capture(h, n))
    BY <1>1, RowIs
  <2>2. /\ Capture(h, m).system = Capture(h, n).system
        /\ Capture(h, m).architecture = Capture(h, n).architecture
        /\ Capture(h, m).vendor = Capture(h, n).vendor
        /\ Capture(h, m).brand = Capture(h, n).brand
        /\ Capture(h, m).logical = Capture(h, n).logical
        /\ Capture(h, m).physical = Capture(h, n).physical
        /\ Capture(h, m).caches = Capture(h, n).caches
        /\ Capture(h, m).memory = Capture(h, n).memory
        /\ Capture(h, m).filesystem = Capture(h, n).filesystem
        /\ Capture(h, m).capacity = Capture(h, n).capacity
    <3>1. Native(h, m) = Native(h, n) /\ m.listed = n.listed
      BY <2>1
    <3>2. /\ Capture(h, m).system = Capture(h, n).system
          /\ Capture(h, m).architecture = Capture(h, n).architecture
          /\ Capture(h, m).vendor = Capture(h, n).vendor
          /\ Capture(h, m).brand = Capture(h, n).brand
      BY <3>1 DEF Capture
    <3>3. /\ Capture(h, m).logical = Capture(h, n).logical
          /\ Capture(h, m).physical = Capture(h, n).physical
          /\ Capture(h, m).caches = Capture(h, n).caches
      BY <3>1 DEF Capture
    <3>4. /\ Capture(h, m).memory = Capture(h, n).memory
          /\ Capture(h, m).filesystem = Capture(h, n).filesystem
          /\ Capture(h, m).capacity = Capture(h, n).capacity
      BY <3>1 DEF Capture
    <3> QED BY <3>2, <3>3, <3>4
  <2> QED BY <2>1, <2>2 DEF Fingerprint
<1> QED BY <1>1, RowsStayMade, PTL

-----------------------------------------------------------------------------
(* The verdict.  A case keeps its hint unless a verdict is worse. *)

LEMMA JudgeIs ==
  ASSUME NEW hint, NEW correct, NEW evaluation
  PROVE  Judge(hint, correct, evaluation) \in {hint, "ERROR", "FAIL"}
  BY DEF Judge

(* What makes a test be skipped or warn. *)
LEMMA HintIs ==
  ASSUME NEW h, NEW m, NEW t \in Tests
  PROVE  LET case == Attempt(t, Capture(h, m), m)
         IN  /\ case.hint = "SKIP" => t.kind = "unregistered" \/ ~Native(h, m)
             /\ case.hint = "WARN" => t.kind = "stability" \/ "temperature" \notin m.sensors
             /\ case.hint \in {"PASS", "WARN", "SKIP", "ERROR"}
<1> DEFINE case == Case(t, Capture(h, m), m)
<1>1. t.kind \in Kinds
  BY TestAssumption
<1>2. /\ case.hint = "SKIP" => t.kind = "unregistered" \/ ~Native(h, m)
      /\ case.hint = "WARN" => t.kind = "stability" \/ "temperature" \notin m.sensors
      /\ case.hint \in {"PASS", "WARN", "SKIP"}
  <2>1. CASE t.kind = "inventory"
    BY <2>1 DEF Case, InventoryCase, CaseOf
  <2>2. CASE t.kind = "integer"
    BY <2>2 DEF Case, IntegerCase, CaseOf
  <2>3. CASE t.kind = "telemetry"
    BY <2>3 DEF Case, TelemetryCase, CaseOf, Capture
  <2>4. CASE t.kind = "stability"
    BY <2>4 DEF Case, StabilityCase, CaseOf
  <2>5. CASE t.kind = "configuration"
    BY <2>5 DEF Case, ConfigurationCase, CaseOf, Capture
  <2>6. CASE t.kind = "unregistered"
    BY <2>6 DEF Case, NotImplemented, CaseOf
  <2> QED BY <1>1, <2>1, <2>2, <2>3, <2>4, <2>5, <2>6 DEF Kinds, Workloads
<1>3. Failed.hint = "ERROR"
  BY DEF Failed, CaseOf
<1> HIDE DEF case
<1>4. Attempt(t, Capture(h, m), m) \in {case, Failed}
  BY DEF Attempt, case
<1> QED BY <1>2, <1>3, <1>4

(* A doctor that passes has asked the probe and the sensors. *)
LEMMA DoctorAsked ==
  ASSUME NEW h, NEW m, Doctor(h, m) = "PASS"
  PROVE  Native(h, m) /\ "temperature" \in m.sensors
<1>1. ASSUME NEW statuses, Worst(statuses) = "PASS" PROVE "WARN" \notin statuses
  BY <1>1 DEF Worst
<1>2. "WARN" \notin {IF Native(h, m) THEN "PASS" ELSE "WARN"}
  BY <1>1 DEF Doctor
<1>3. "WARN" \notin {IF "temperature" \in m.sensors THEN "PASS" ELSE "WARN"}
  BY <1>1 DEF Doctor
<1> QED BY <1>2, <1>3

(* One that warns has found one of them missing. *)
LEMMA DoctorMissed ==
  ASSUME NEW h, NEW m, Doctor(h, m) = "WARN"
  PROVE  ~Native(h, m) \/ "temperature" \notin m.sensors
<1> DEFINE host     == {IF h.complete THEN "PASS" ELSE "FAIL"}
           probe    == {IF Native(h, m) THEN "PASS" ELSE "WARN"}
           sensor   == {IF "temperature" \in m.sensors THEN "PASS" ELSE "WARN"}
           statuses == host \cup RuntimeChecks(m) \cup probe \cup sensor
<1>1. Worst(statuses) = "WARN"
  BY DEF Doctor
<1>2. "WARN" \in statuses
  <2> HIDE DEF statuses
  <2> QED BY <1>1 DEF Worst
<1>3. "WARN" \notin host /\ "WARN" \notin RuntimeChecks(m)
  BY DEF RuntimeChecks
<1>4. "WARN" \in probe \/ "WARN" \in sensor
  <2> HIDE DEF host, probe, sensor
  <2> QED BY <1>2, <1>3
<1> QED BY <1>4

(* On every host and at every moment: where the doctor passes, what a run    *)
(* skips was disabled or is not implemented and what warns does so about     *)
(* timing; where the doctor warns, the test of what it misses would say so.  *)
THEOREM DoctorIsRight == Spec => []DoctorPredicts
<1>1. ASSUME RowsMade PROVE DoctorPredicts
  <2> SUFFICES ASSUME NEW r \in DOMAIN rows
               PROVE  LET doctor == Doctor(Host(r), Moment(r))
                          status == TestResult(r).status
                      IN  /\ doctor = "PASS" =>
                               /\ status = "SKIP" =>
                                    ~Test(r).enabled \/ Test(r).kind = "unregistered"
                               /\ status = "WARN" => Test(r).kind = "stability"
                          /\ doctor = "WARN" =>
                               \/ ConfigurationCase(rows[r].platform).hint = "SKIP"
                               \/ TelemetryCase(rows[r].platform).hint = "WARN"
    BY DEF DoctorPredicts
  <2>1. PICK h \in Hosts, m \in Moments, t \in Tests :
           /\ Host(r) = h /\ Moment(r) = m /\ Test(r) = t
           /\ rows[r].platform = Capture(h, m)
           /\ TestResult(r) = RunTest(t, Capture(h, m), m)
    BY <1>1, RowIs
  <2> DEFINE case == Attempt(t, Capture(h, m), m)
             status == TestResult(r).status
  <2>2. ASSUME Doctor(h, m) = "PASS"
        PROVE  /\ status = "SKIP" => ~t.enabled \/ t.kind = "unregistered"
               /\ status = "WARN" => t.kind = "stability"
    <3>1. CASE t.enabled
      <4>1. /\ case.hint = "SKIP" => t.kind = "unregistered"
            /\ case.hint = "WARN" => t.kind = "stability"
        BY <2>2, DoctorAsked, HintIs
      <4>2. status \in {case.hint, "ERROR", "FAIL"}
        BY <2>1, <3>1, JudgeIs DEF RunTest, Result
      <4> HIDE DEF case, status
      <4> QED BY <4>1, <4>2
    <3>2. CASE ~t.enabled
      BY <2>1, <3>2 DEF RunTest, Disabled
    <3> QED BY <3>1, <3>2
  <2>3. ASSUME Doctor(h, m) = "WARN"
        PROVE  \/ ConfigurationCase(Capture(h, m)).hint = "SKIP"
               \/ TelemetryCase(Capture(h, m)).hint = "WARN"
    <3>1. CASE ~Native(h, m)
      BY <3>1 DEF ConfigurationCase, CaseOf, Capture
    <3>2. CASE "temperature" \notin m.sensors
      BY <3>2 DEF TelemetryCase, CaseOf, Capture
    <3> QED BY <2>3, <3>1, <3>2, DoctorMissed
  <2> QED BY <2>1, <2>2, <2>3
<1> QED BY <1>1, RowsStayMade, PTL

(* A test that passes or warns has met each of its requirements. *)
LEMMA PassMeetsAll ==
  ASSUME NEW t, NEW case, case.hint \in {"PASS", "WARN", "SKIP", "ERROR"},
         Result(t, case).status \in {"PASS", "WARN"}
  PROVE  /\ case.hint \notin {"SKIP", "ERROR"}
         /\ EvaluateAll(t.requirements, case.metrics) = "passed"
<1>1. Judge(case.hint, case.correct, EvaluateAll(t.requirements, case.metrics))
        \in {"PASS", "WARN"}
  BY DEF Result
<1>2. case.hint \notin {"SKIP", "ERROR"}
  BY <1>1 DEF Judge
<1>3. EvaluateAll(t.requirements, case.metrics) \notin {"invalid", "unmet"}
  BY <1>1, <1>2 DEF Judge
<1> QED BY <1>2, <1>3 DEF EvaluateAll

LEMMA PassedIsAvailable ==
  ASSUME NEW requirement, NEW actual, Evaluate(requirement, actual) = "passed"
  PROVE  Available(actual)
  BY DEF Evaluate, Verdict

LEMMA EvaluateIs ==
  ASSUME NEW requirement, NEW actual
  PROVE  Evaluate(requirement, actual) \in {"passed", "unmet", "invalid"}
<1>1. \A holds : Verdict(holds) \in {"passed", "unmet", "invalid"}
  BY DEF Verdict
<1>2. \A bounds : Between(actual, bounds) \in {"passed", "unmet", "invalid"}
  BY <1>1 DEF Between
<1>3. EvaluatePresent(requirement.operator, actual, requirement.expected)
        \in {"passed", "unmet", "invalid"}
  BY <1>1, <1>2 DEF EvaluatePresent
<1> QED BY <1>1, <1>3 DEF Evaluate

(* Whatever is measured and required: a test that passes, or warns, lists    *)
(* an evaluation of each of its requirements, and each passed on a value     *)
(* that was there.                                                           *)
THEOREM AbsentValuesFail == Spec => []AbsentNeverPasses
<1>1. ASSUME RowsMade PROVE AbsentNeverPasses
  <2> SUFFICES ASSUME NEW r \in DOMAIN rows, TestResult(r).status \in {"PASS", "WARN"}
               PROVE  /\ DOMAIN TestResult(r).requirements = DOMAIN Test(r).requirements
                      /\ \A i \in DOMAIN TestResult(r).requirements :
                           /\ TestResult(r).requirements[i].passed
                           /\ Available(TestResult(r).requirements[i].actual)
    BY DEF AbsentNeverPasses
  <2>1. PICK h \in Hosts, m \in Moments, t \in Tests :
           Test(r) = t /\ TestResult(r) = RunTest(t, Capture(h, m), m)
    BY <1>1, RowIs
  <2> DEFINE case == Attempt(t, Capture(h, m), m)
             listed == TestResult(r).requirements
  <2>2. TestResult(r) = Result(t, case)
    BY <2>1 DEF RunTest, Disabled
  <2>3. /\ case.hint \notin {"SKIP", "ERROR"}
        /\ EvaluateAll(t.requirements, case.metrics) = "passed"
    BY <2>2, HintIs, PassMeetsAll
  <2>4. listed = [i \in DOMAIN t.requirements |->
                    LET actual == Lookup(case.metrics, t.requirements[i].metric)
                    IN  [metric |-> t.requirements[i].metric, actual |-> actual,
                         passed |-> Evaluate(t.requirements[i], actual) = "passed"]]
    BY <2>2, <2>3 DEF Result, Evaluations
  <2>5. ASSUME NEW i \in DOMAIN t.requirements
        PROVE  LET actual == Lookup(case.metrics, t.requirements[i].metric)
               IN  Evaluate(t.requirements[i], actual) = "passed" /\ Available(actual)
    <3> DEFINE verdict == Evaluate(t.requirements[i],
                                   Lookup(case.metrics, t.requirements[i].metric))
    <3>1. verdict \notin {"invalid", "unmet"}
      BY <2>3 DEF EvaluateAll
    <3> QED BY <3>1, EvaluateIs, PassedIsAvailable
  <2> HIDE DEF case, listed
  <2>6. DOMAIN listed = DOMAIN t.requirements
    BY <2>4
  <2>7. ASSUME NEW i \in DOMAIN listed
        PROVE  listed[i].passed /\ Available(listed[i].actual)
    BY <2>4, <2>5, <2>6
  <2> QED BY <2>1, <2>6, <2>7 DEF listed
<1> QED BY <1>1, RowsStayMade, PTL

-----------------------------------------------------------------------------
(* The labels.  A metric without a value is one the operating system or the  *)
(* clock did not give.                                                       *)

Unprovided(h, m, name) ==
  \/ name = "physical_cpu_count" /\ ~Available(h.physical)
  \/ name \in {"operations_per_second", "robust_variability"} /\ ~m.timed

LEMMA AbsentMetrics ==
  ASSUME NEW h, NEW m, NEW t \in Tests,
         NEW name \in DOMAIN Attempt(t, Capture(h, m), m).metrics
  PROVE  ~Available(Attempt(t, Capture(h, m), m).metrics[name]) <=> Unprovided(h, m, name)
<1> USE DEF Unprovided
<1>0. /\ \A n : Available(Number(n))
      /\ \A b : Available(Truth(b))
      /\ \A parts : Available(Text(parts))
      /\ ~Available(Absent)
  BY DEF Available, Number, Truth, Text, Absent, Value
<1> DEFINE metrics == Case(t, Capture(h, m), m).metrics
<1>1. Attempt(t, Capture(h, m), m).metrics = metrics /\ name \in DOMAIN metrics
  <2>1. DOMAIN Failed.metrics = {}
    BY DEF Failed, CaseOf
  <2> QED BY <2>1 DEF Attempt
<1>2. CASE t.kind = "inventory"
  <2>1. metrics = InventoryCase(Capture(h, m)).metrics
    BY <1>2 DEF Case
  <2>2. Available(Capture(h, m).logical) /\ Capture(h, m).physical = h.physical
    BY <1>0 DEF Capture
  <2> QED BY <1>0, <1>1, <2>1, <2>2 DEF InventoryCase, CaseOf
<1>3. CASE t.kind = "integer"
  <2>1. metrics = IntegerCase(t, m).metrics
    BY <1>3 DEF Case
  <2> QED BY <1>0, <1>1, <2>1 DEF IntegerCase, CaseOf
<1>4. CASE t.kind = "telemetry"
  BY <1>0, <1>1, <1>4 DEF Case, TelemetryCase, CaseOf
<1>5. CASE t.kind = "stability"
  <2>1. metrics = StabilityCase(t, m).metrics
    BY <1>5 DEF Case
  <2> QED BY <1>0, <1>1, <2>1 DEF StabilityCase, CaseOf
<1>6. CASE t.kind = "configuration"
  <2>1. metrics = ConfigurationCase(Capture(h, m)).metrics
    BY <1>6 DEF Case
  <2> QED BY <1>0, <1>1, <2>1 DEF ConfigurationCase, CaseOf, FeatureFlags
<1>7. CASE t.kind = "unregistered"
  <2>1. metrics = NotImplemented.metrics
    BY <1>7 DEF Case
  <2> QED BY <1>1, <2>1 DEF NotImplemented, CaseOf
<1>8. t.kind \in Kinds
  BY TestAssumption
<1> QED BY <1>2, <1>3, <1>4, <1>5, <1>6, <1>7, <1>8 DEF Kinds, Workloads

LEMMA LabelIs ==
  ASSUME NEW name, NEW injected \in BOOLEAN
  PROVE  /\ Label(name, injected) \in {"simulated", "derived", "measured"}
         /\ (Label(name, injected) = "simulated") <=> injected
<1>1. CASE injected
  BY <1>1 DEF Label
<1>2. CASE ~injected
  BY <1>2 DEF Label
<1> QED BY <1>1, <1>2

(* A chart is left out when there is no point for it. *)
LEMMA ChartIs ==
  ASSUME NEW samples, IsFiniteSet(DOMAIN samples)
  PROVE  Chart(samples) = "none" <=> \A i \in DOMAIN samples : "cpu" \notin samples[i]
<1> DEFINE points == With(samples, "cpu")
<1>1. IsFiniteSet(points)
  BY FS_Subset DEF With
<1>2. Cardinality(points) = 0 <=> points = {}
  BY <1>1, FS_EmptySet
<1>3. Chart(samples) = "none" <=> Cardinality(points) = 0
  BY DEF Chart
<1> QED BY <1>2, <1>3 DEF With

(* The view of a test that was run, and of one that was not. *)
LEMMA ResultViewIs ==
  ASSUME NEW h \in Hosts, NEW m \in Moments, NEW t \in Tests
  PROVE  LET result == Result(t, Attempt(t, Capture(h, m), m))
             test   == TestView(result, m.samples)
         IN  /\ \A name \in DOMAIN test.metrics :
                  (test.metrics[name] = "simulated") <=> t.injected
             /\ \A i \in DOMAIN test.actuals :
                  (test.actuals[i] = "unavailable") <=>
                    \/ t.requirements[i].metric \notin DOMAIN result.metrics
                    \/ Unprovided(h, m, t.requirements[i].metric)
             /\ (test.chart = "none") <=> \A i \in DOMAIN m.samples : "cpu" \notin m.samples[i]
<1> DEFINE case   == Attempt(t, Capture(h, m), m)
           result == Result(t, case)
           test   == TestView(result, m.samples)
<1>0. t.injected \in BOOLEAN /\ m.timed \in BOOLEAN /\ IsFiniteSet(DOMAIN m.samples)
  BY TestAssumption, MomentAssumption
<1>1. result.metrics = case.metrics /\ result.injected = t.injected
  BY DEF Result
<1>2. \A name \in DOMAIN test.metrics : (test.metrics[name] = "simulated") <=> t.injected
  BY <1>0, <1>1, LabelIs DEF TestView
<1>3. ASSUME NEW i \in DOMAIN test.actuals
      PROVE  (test.actuals[i] = "unavailable") <=>
               \/ t.requirements[i].metric \notin DOMAIN result.metrics
               \/ Unprovided(h, m, t.requirements[i].metric)
  <2> DEFINE metric == t.requirements[i].metric
             actual == Lookup(case.metrics, metric)
  <2>1. i \in DOMAIN result.requirements
        /\ test.actuals[i] = ActualLabel(result.requirements[i], t.injected)
    BY <1>1 DEF TestView
  <2>2. result.requirements[i] = [metric |-> metric, actual |-> actual,
                               passed |-> Evaluate(t.requirements[i], actual) = "passed"]
    BY <2>1 DEF Result, Evaluations
  <2>3. (test.actuals[i] = "unavailable") <=> ~Available(actual)
    BY <1>0, <2>1, <2>2, LabelIs DEF ActualLabel
  <2>4. CASE metric \in DOMAIN case.metrics
    <3>1. actual = case.metrics[metric]
      BY <2>4 DEF Lookup
    <3>2. ASSUME NEW name \in DOMAIN case.metrics
          PROVE  ~Available(case.metrics[name]) <=> Unprovided(h, m, name)
      BY AbsentMetrics
    <3> HIDE DEF actual, case, result, test
    <3> QED BY <1>1, <2>3, <2>4, <3>1, <3>2
  <2>5. CASE metric \notin DOMAIN case.metrics
    <3>1. ~Available(actual)
      BY <2>5 DEF Lookup, Available, Absent, Value
    <3> QED BY <1>1, <2>3, <2>5, <3>1
  <2> QED BY <2>4, <2>5
<1>4. (test.chart = "none") <=> \A i \in DOMAIN m.samples : "cpu" \notin m.samples[i]
  BY <1>0, ChartIs DEF TestView
<1> QED BY <1>2, <1>3, <1>4

LEMMA TestViewIs ==
  ASSUME NEW h \in Hosts, NEW m \in Moments, NEW t \in Tests
  PROVE  LET result == RunTest(t, Capture(h, m), m)
             test   == TestView(result, Samples(t, m))
         IN  /\ \A name \in DOMAIN test.metrics :
                  (test.metrics[name] = "simulated") <=> t.injected
             /\ \A i \in DOMAIN test.actuals :
                  (test.actuals[i] = "unavailable") <=>
                    \/ t.requirements[i].metric \notin DOMAIN result.metrics
                    \/ Unprovided(h, m, t.requirements[i].metric)
             /\ (test.chart = "none") <=>
                  \/ ~t.enabled
                  \/ \A i \in DOMAIN m.samples : "cpu" \notin m.samples[i]
<1>1. CASE t.enabled
  <2>1. /\ RunTest(t, Capture(h, m), m) = Result(t, Attempt(t, Capture(h, m), m))
        /\ Samples(t, m) = m.samples
    BY <1>1 DEF RunTest, Samples
  <2> QED BY <1>1, <2>1, ResultViewIs
<1>2. CASE ~t.enabled
  <2> DEFINE test == TestView(Disabled, << >>)
  <2>1. RunTest(t, Capture(h, m), m) = Disabled /\ Samples(t, m) = << >>
    BY <1>2 DEF RunTest, Samples
  <2>2. DOMAIN test.metrics = {} /\ DOMAIN test.actuals = {}
    BY DEF TestView, Disabled
  <2>3. test.chart = "none"
    <3>1. IsFiniteSet(DOMAIN << >>)
      BY FS_EmptySet
    <3> QED BY <3>1, ChartIs DEF TestView
  <2> HIDE DEF test
  <2> QED BY <1>2, <2>1, <2>2, <2>3 DEF test
<1> QED BY <1>1, <1>2

(* For every host, moment and test, and whatever other commands do to the    *)
(* run meanwhile: the labels of a registered report agree with the machine   *)
(* and the test the report is about.                                         *)
THEOREM ReportsAreTruthful == Spec => []ReportTruthful
<1>1. ASSUME RowsMade, ReportIsWhole PROVE ReportTruthful
  <2> SUFFICES ASSUME NEW r \in DOMAIN reports
               PROVE  LET view == Shown(r)  test == view.tests[1]
                      IN  /\ view.simulated <=> Test(r).injected
                          /\ \A name \in DOMAIN test.metrics :
                               (test.metrics[name] = "simulated") <=> Test(r).injected
                          /\ \A i \in DOMAIN test.actuals :
                               (test.actuals[i] = "unavailable") <=>
                                 Unmeasured(r, Test(r).requirements[i].metric)
                          /\ (view.platform.probe = "measured") <=> Native(Host(r), Moment(r))
                          /\ Host(r).processor = "" /\ Host(r).cpu.brand = "" =>
                               view.platform.cpu = "unavailable"
                          /\ (test.chart = "none") <=>
                               \/ ~Test(r).enabled
                               \/ \A i \in DOMAIN Moment(r).samples :
                                    "cpu" \notin Moment(r).samples[i]
    BY DEF ReportTruthful
  <2>1. r \in DOMAIN rows /\ reports[r] = Whole(rows[r])
    BY <1>1 DEF ReportIsWhole
  <2>2. PICK h \in Hosts, m \in Moments, t \in Tests : rows[r] = Execution(h, m, t)
    BY <1>1, <2>1, EvidenceAssumption DEF RowsMade
  <2> DEFINE platform == Capture(h, m)
             result   == RunTest(t, platform, m)
             samples  == Samples(t, m)
  <2>3. /\ Host(r) = h /\ Moment(r) = m /\ Test(r) = t /\ TestResult(r) = result
        /\ rows[r].run.results = <<result>>
        /\ rows[r].platform = platform /\ rows[r].telemetry = <<samples>>
    BY <2>2 DEF Execution, Host, Moment, Test, TestResult
  <2>4. Shown(r) = View(rows[r].run, platform, <<samples>>)
    BY <2>1, <2>3 DEF Shown, Whole
  <2>5. /\ Shown(r).tests[1] = TestView(result, samples)
        /\ Shown(r).platform = PlatformLabels(platform)
        /\ (Shown(r).simulated <=> t.injected)
    <3>1. DOMAIN <<result>> = {1} /\ <<result>>[1] = result /\ <<samples>>[1] = samples
      OBVIOUS
    <3>2. result.injected = t.injected /\ t.injected \in BOOLEAN
      BY TestAssumption DEF RunTest, Result, Disabled
    <3> QED BY <2>3, <2>4, <3>1, <3>2 DEF View
  <2>6. (Shown(r).platform.probe = "measured") <=> Native(h, m)
    <3>1. Shown(r).platform.probe = IF platform.probed THEN "measured" ELSE "unavailable"
      BY <2>5 DEF PlatformLabels
    <3>2. platform.probed <=> Native(h, m)
      BY DEF Capture
    <3> HIDE DEF platform
    <3> QED BY <3>1, <3>2
  <2>7. h.processor = "" /\ h.cpu.brand = "" => Shown(r).platform.cpu = "unavailable"
    BY <2>5 DEF PlatformLabels, Capture, LabelOf, ProbeData
  <2>8. \A metric : Unmeasured(r, metric) <=>
           metric \notin DOMAIN result.metrics \/ Unprovided(h, m, metric)
    BY <2>3 DEF Unmeasured, Unprovided
  <2> DEFINE shown == Shown(r).tests[1]
  <2>9. /\ \A name \in DOMAIN shown.metrics :
             (shown.metrics[name] = "simulated") <=> t.injected
        /\ \A i \in DOMAIN shown.actuals :
             (shown.actuals[i] = "unavailable") <=>
               \/ t.requirements[i].metric \notin DOMAIN result.metrics
               \/ Unprovided(h, m, t.requirements[i].metric)
        /\ (shown.chart = "none") <=>
             \/ ~t.enabled
             \/ \A i \in DOMAIN m.samples : "cpu" \notin m.samples[i]
    BY <2>5, TestViewIs
  <2> HIDE DEF platform, result, samples
  <2> QED BY <2>3, <2>5, <2>6, <2>7, <2>8, <2>9
<1> QED BY <1>1, RowsStayMade, ReportsAreWhole, PTL
=============================================================================
