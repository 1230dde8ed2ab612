------------------------- MODULE PlatformInventory --------------------------
(***************************************************************************)
(* What a run records of the machine it ran on: the inventory and its      *)
(* fingerprint, the three tests that only look at the inventory, and the   *)
(* doctor, which looks at the same things before a run.                    *)
(*                                                                         *)
(* A host is what stays the same between two runs on a machine; a moment   *)
(* is what may differ: how the call of the probe goes, free space, power   *)
(* plan, whether the volumes can be listed, which sensors answer.          *)
(***************************************************************************)
EXTENDS NativeProbe, Verdicts, TLC

CONSTANTS
  MinimumFree \* free space the doctor asks for (128 MiB)

ASSUME InventoryAssumption == MinimumFree \in Nat

Native(host, moment) == Outcome(moment.call, host.cpu) = "available"

(* What the snapshot keeps of a cache, in the fingerprint's order. *)
Descriptor(cache) == [level |-> cache.level, kind |-> cache.kind,
                      size |-> cache.size, line |-> cache.line]
Descriptors(caches) == [i \in DOMAIN caches |-> Descriptor(caches[i])]

Before(a, b) ==
  \/ a.level < b.level
  \/ a.level = b.level /\ a.kind < b.kind
  \/ a.level = b.level /\ a.kind = b.kind /\ a.size < b.size

(* collect_platform_inventory.  The probe is asked for the processor before  *)
(* the operating system is: a probe that knows no brand leaves none.         *)
Capture(host, moment) ==
  LET native == Native(host, moment)
      probe  == ProbeData(host.cpu)
  IN [system       |-> host.system,
      architecture |-> IF native THEN "x86_64" ELSE host.machine,
      vendor       |-> IF native THEN probe.vendor ELSE "",
      brand        |-> IF native THEN probe.brand ELSE host.processor,
      logical      |-> IF Available(host.logical) THEN host.logical ELSE Number(1),
      physical     |-> host.physical,
      caches       |-> IF native THEN Descriptors(probe.caches) ELSE << >>,
      memory       |-> host.memory,
      filesystem   |-> IF moment.listed THEN host.filesystem ELSE "",
      capacity     |-> host.capacity,
      free         |-> moment.free,
      powerPlan    |-> IF host.system = "Windows" THEN moment.powerPlan ELSE "",
      probed       |-> native,
      features     |-> IF native THEN probe.features ELSE {},
      sensors      |-> moment.sensors]

(* Mutant: free space and the sensors that answered are hashed as well. *)
FingerprintWhole(platform) == platform

(* sanitized_platform_fingerprint: equal inputs, equal digests.  The brand   *)
(* and the caches are those of the snapshot, so they depend on the probe.    *)
Fingerprint(platform) ==
  [field \in {"system", "architecture", "vendor", "brand", "logical", "physical",
              "caches", "memory", "filesystem", "capacity"} |->
     IF field = "caches" THEN SortSeq(platform.caches, Before) ELSE platform[field]]

-----------------------------------------------------------------------------
(* The builders of a case: what it measured, its hint and its correctness. *)
CaseOf(metrics, hint, correct) == [metrics |-> metrics, hint |-> hint, correct |-> correct]

InventoryCase(platform) ==
  CaseOf([logical_cpu_count  |-> platform.logical,
          physical_cpu_count |-> platform.physical,
          storage_free_bytes |-> Number(platform.free),
          architecture       |-> Text({platform.architecture})], "PASS", TRUE)

TelemetryCase(platform) ==
  CaseOf([temperature_available   |-> Truth("temperature" \in platform.sensors),
          cpu_frequency_available |-> Truth("frequency" \in platform.sensors)],
         IF "temperature" \in platform.sensors THEN "PASS" ELSE "WARN", TRUE)

FeatureFlags == {"sse2", "sse41", "sse42", "avx_hardware", "avx2_hardware",
                 "avx_os_enabled", "aes", "virtualization_hardware"}

ConfigurationCase(platform) ==
  IF platform.probed
  THEN CaseOf([flag \in FeatureFlags |-> Truth(flag \in platform.features)], "PASS", TRUE)
  ELSE CaseOf(<< >>, "SKIP", TRUE)

-----------------------------------------------------------------------------
Worst(statuses) ==
  IF "FAIL" \in statuses THEN "FAIL"
  ELSE IF "WARN" \in statuses THEN "WARN"
  ELSE "PASS"

(* A runtime directory that cannot be written is not asked for its space. *)
RuntimeChecks(moment) ==
  IF ~moment.writable THEN {"FAIL"}
  ELSE {IF moment.free >= MinimumFree THEN "PASS" ELSE "FAIL"}

(* Mutant: only a probe that is not installed is worth a warning. *)
DoctorInstalled(host, moment) ==
  Worst({IF host.complete THEN "PASS" ELSE "FAIL"}
        \cup RuntimeChecks(moment)
        \cup {IF Outcome(moment.call, host.cpu) # "missing" THEN "PASS" ELSE "WARN"}
        \cup {IF "temperature" \in moment.sensors THEN "PASS" ELSE "WARN"})

(* run_doctor; a complete host has the Python and the packages. *)
Doctor(host, moment) ==
  Worst({IF host.complete THEN "PASS" ELSE "FAIL"}
        \cup RuntimeChecks(moment)
        \cup {IF Native(host, moment) THEN "PASS" ELSE "WARN"}
        \cup {IF "temperature" \in moment.sensors THEN "PASS" ELSE "WARN"})
=============================================================================
