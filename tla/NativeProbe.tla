---------------------------- MODULE NativeProbe -----------------------------
(***************************************************************************)
(* The adapter around cpuid_probe: locate_native_probe finds the program   *)
(* or not, invoke_native_probe calls it and decides what its answer is     *)
(* worth.  Either all of the answer is used or none of it.                 *)
(***************************************************************************)
EXTENDS CpuidProbe

(* What a call can meet: no program, one that exceeds the timeout, cannot be *)
(* started, fails, floods its output or writes something else, or one that   *)
(* works.                                                                    *)
Calls == {"no_file", "timeout", "cannot_start", "fails", "floods", "garbles", "works"}

ProbeStatus == {"available", "missing", "incompatible", "error"}

(* Mutant: the numbers of a cache may be zero. *)
AcceptableUnsigned(data) ==
  /\ data.vendor # ""
  /\ \A i \in DOMAIN data.caches :
       /\ data.caches[i].level \in 1 .. 4
       /\ \A field \in {"size", "line", "sets", "ways", "partitions"} :
            data.caches[i][field] >= 0

(* The validators of NativeProbeData. *)
Acceptable(data) ==
  /\ data.vendor # ""
  /\ \A i \in DOMAIN data.caches :
       /\ data.caches[i].level \in 1 .. 4
       /\ \A field \in {"size", "line", "sets", "ways", "partitions"} :
            data.caches[i][field] > 0

(* The exit code is looked at before the size of the output, and that before *)
(* its contents.                                                             *)
Outcome(call, cpu) ==
  IF call = "no_file" THEN "missing"
  ELSE IF call \in {"timeout", "cannot_start"} THEN "error"
  ELSE IF call = "fails" \/ ExitCode(cpu) # 0 THEN "error"
  ELSE IF call = "floods" THEN "error"
  ELSE IF call = "garbles" THEN "incompatible"
  ELSE IF Acceptable(ProbeData(cpu)) THEN "available" ELSE "incompatible"
=============================================================================
