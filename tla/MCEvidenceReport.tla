-------------------------- MODULE MCEvidenceReport --------------------------
(* Processors, hosts, moments and tests for EvidenceReport: every case of    *)
(* the probe and of its adapter, every operator, every label.                *)
EXTENDS EvidenceReport

MCCommands ==
  [p1 |-> <<[name |-> "run", run |-> "r1"], [name |-> "report", run |-> "r1"]>>,
   p2 |-> <<[name |-> "list", run |-> "r1"], [name |-> "delete", run |-> "r1"]>>]

L1 == Subleaf(1, 1, 1, 0, 1)
L2 == Subleaf(3, 2, 1, 1, 2)

Cpu == [supported |-> TRUE, maxBasic |-> 7, maxExtended |-> 4, vendor |-> "vendor",
        brand |-> "brand", leaf1 |-> {"sse2", "avx_hardware", "osxsave"},
        leaf7 |-> {"avx2_hardware"}, extended1 |-> {"svm"},
        xcr0 |-> {"sse_state", "avx_state"}, leaf4 |-> <<L2, L1>>]

Cpus ==
  {Cpu,
   [Cpu EXCEPT !.supported = FALSE],
   [Cpu EXCEPT !.vendor = ""],
   [Cpu EXCEPT !.maxBasic = 1, !.maxExtended = 1],
   [Cpu EXCEPT !.maxBasic = 0, !.maxExtended = 0, !.brand = ""],
   [Cpu EXCEPT !.xcr0 = {"sse_state"}, !.brand = ""],
   [Cpu EXCEPT !.leaf1 = {"avx_hardware"}, !.leaf4 = <<>>],
   [Cpu EXCEPT !.leaf4 = <<L1, Subleaf(0, 0, 0, 0, 0), L2>>],
   [Cpu EXCEPT !.leaf4 = <<L1, Subleaf(3, 2, 1, 1, RegisterValues - 1)>>],
   [Cpu EXCEPT !.leaf4 = <<L1, Subleaf(3, 2, 1, 1, RegisterValues - 2)>>],
   [Cpu EXCEPT !.leaf4 = <<L1, Subleaf(2, 5, 1, 1, 1)>>],
   [Cpu EXCEPT !.leaf4 = <<L1, L1, L2, Subleaf(1, 3, 1, 1, 1)>>]}

Host0 == [system |-> "Linux", machine |-> "x86_64", processor |-> "name", cpu |-> Cpu,
          logical |-> Number(2), physical |-> Number(1), memory |-> 4,
          filesystem |-> "ext4", capacity |-> 4, complete |-> TRUE]

MCHosts ==
  {[Host0 EXCEPT !.cpu = c, !.processor = n] : c \in Cpus, n \in {"name", ""}}
  \cup {[Host0 EXCEPT !.physical = Absent, !.logical = Absent],
        [Host0 EXCEPT !.system = "Windows"]}

Moment0 == [call |-> "works", free |-> 2, listed |-> TRUE, powerPlan |-> "balanced",
            sensors |-> {"temperature", "frequency"}, writable |-> TRUE,
            timed |-> TRUE, sound |-> TRUE, raises |-> FALSE, spread |-> 1,
            samples |-> <<{"cpu", "memory"}, {"cpu"}>>]

(* A coarse clock, a miscomputed block, an error, uneven timing. *)
WorkMoments ==
  {[Moment0 EXCEPT !.timed = FALSE], [Moment0 EXCEPT !.sound = FALSE],
   [Moment0 EXCEPT !.raises = TRUE], [Moment0 EXCEPT !.spread = 2]}

(* The probe, the sensors, the volumes and what is sampled. *)
PlatformMoments ==
  {[Moment0 EXCEPT !.call = c, !.sensors = s] :
     c \in Calls, s \in {{}, {"temperature", "frequency"}}}
  \cup {[Moment0 EXCEPT !.free = 0],
        [Moment0 EXCEPT !.listed = FALSE, !.powerPlan = ""],
        [Moment0 EXCEPT !.writable = FALSE, !.sensors = {"temperature"}],
        [Moment0 EXCEPT !.samples = << >>],
        [Moment0 EXCEPT !.samples = <<{"memory"}, {"cpu", "temperature"}>>]}

MCMoments == PlatformMoments \cup WorkMoments

Require(metric, operator, expected) ==
  [metric |-> metric, operator |-> operator, expected |-> expected]

Requirements ==
  {<<Require("physical_cpu_count", "present", Absent)>>,
   <<Require("physical_cpu_count", "not_equals", Number(2))>>,
   <<Require("physical_cpu_count", "greater_than_or_equal", Number(1)),
     Require("logical_cpu_count", "between", Pair(Number(1), Number(2)))>>,
   <<Require("logical_cpu_count", "between", Pair(Number(2), Number(1)))>>,
   <<Require("logical_cpu_count", "less_than", Text({"2"}))>>,
   <<Require("architecture", "contains", Text({"x86_64"}))>>}

MCTest(kind, injected, requirements) ==
  [kind |-> kind, enabled |-> TRUE, injected |-> injected, tolerated |-> 1,
   requirements |-> requirements]
Plain(kind) == MCTest(kind, FALSE, << >>)

Configuration ==
  MCTest("configuration", FALSE, <<Require("avx_os_enabled", "equals", Truth(TRUE))>>)

(* failure_demo_plan: the plan platval demo failure runs, stores and reports. *)
FailureDemo ==
  MCTest("integer", TRUE, <<Require("checksum_valid", "equals", Truth(TRUE))>>)

WorkTests ==
  {FailureDemo, Plain("integer"), Plain("stability"),
   MCTest("integer", TRUE, <<Require("operations_per_second", "not_equals", Number(0))>>),
   MCTest("integer", FALSE,
          <<Require("operations_per_second", "less_than_or_equal", Number(1)),
            Require("median_duration", "not_equals", Number(0))>>),
   MCTest("integer", FALSE, <<Require("operations_per_second", "not_equals", Number(0))>>),
   MCTest("stability", FALSE, <<Require("robust_variability", "not_equals", Number(0))>>),
   MCTest("stability", FALSE, <<Require("median_duration", "less_than", Number(2)),
                                Require("checksum_valid", "present", Absent)>>)}

MCTests ==
  {Plain("inventory"), Plain("telemetry"), Configuration, Plain("unregistered"),
   [Configuration EXCEPT !.enabled = FALSE],
   MCTest("telemetry", FALSE, <<Require("temperature_available", "equals", Number(1))>>)}
  \cup {MCTest("inventory", FALSE, q) : q \in Requirements}
  \cup WorkTests

(* Every test on the usual host and on one that knows no counts; every       *)
(* workload at every moment it can tell; on every host, and at every moment, *)
(* the tests that tell them apart.                                           *)
MCExecutions ==
  {Execution(h, Moment0, t) :
     h \in {Host0, [Host0 EXCEPT !.physical = Absent, !.logical = Absent]}, t \in MCTests}
  \cup {Execution(Host0, m, t) : m \in WorkMoments, t \in WorkTests}
  \cup {Execution(h, Moment0, t) : h \in MCHosts, t \in {Configuration, Plain("inventory")}}
  \cup {Execution(h, m, t) : h \in {Host0, [Host0 EXCEPT !.processor = ""]},
                            m \in PlatformMoments, t \in {Configuration, Plain("telemetry")}}
=============================================================================
