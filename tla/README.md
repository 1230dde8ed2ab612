# platval: TLA+ models and proofs

`platval` (src/src/platval) validates a PC platform: it executes a plan of tests
(CPU, memory and storage workloads) beside a telemetry sampler, stores the
evidence of every run as a JSON artifact and as rows of a SQLite database, and
lets the user report on runs, pin them as baselines, compare runs with baselines
and delete runs. A small C++ probe decodes CPUID.

This directory holds the TLA+ modules of the parts in which order, concurrency,
failure or the meaning of absent values matter, TLC runs on small instances of
them, and TLAPS proofs, for every instance, of all the invariants and action
properties those runs check. `PROJECT.json` maps
every definition that models code to its source lines; the sections below say
how to read the modules.

    tlc -workers 2 -config store_faults.cfg MCEvidenceStore.tla
    tlapm EvidenceStore_proofs.tla
    tlapm RunRepository_proofs.tla
    tlapm EvidenceReport_proofs.tla
    tlapm TestExecution_proofs.tla
    tlapm StabilityWorkload_proofs.tla
    tlapm ValidationRunner_proofs.tla
    tlapm Regression_proofs.tla

Contents: 1 inventory, 2 modules, 3 runs and bounds, 4 fairness, 5 proofs,
6 disagreements between code and documents, 7 limits of the models, 8 plan.


## 1. Inventory

Paths are relative to `src/src/platval`.

| component | state | operations | hard behaviour | correct when |
|---|---|---|---|---|
| Evidence store: `persistence/artifacts.py`, `persistence/repository.py`, the commands of `cli.py` | `runs/<id>/` with `run.json`, derived reports and `.tmp` files; `trash/`; tables runs, artifacts, baselines | persist a run, write a derived artifact, create a baseline, delete a run, read for a comparison | file operations and transactions cannot be one atomic step; several processes; crashes; Ctrl+C; failing writes, locks, cleanups and moves | rows never outlive the canonical file; a registered artifact is on disk; a baseline keeps a known-good source; deletion is recoverable |
| Database schema and connections: `persistence/schema.py`, `repository.py` | schema version, foreign keys | initialise, BEGIN IMMEDIATE transactions, WAL reads | two processes initialising; a script that commits statement by statement; reads of several SELECTs | one schema version over complete tables; a foreign database untouched; no report of half a run |
| Reports: `reporting/service.py` | none of its own | load, render, write, register | shares the run directory with deletions and other reports | see evidence store |
| Report view and renderers: `reporting/view.py`, `reporting/renderers.py` | none | a stored run to Markdown or HTML | one value may be derived, absent and simulated at once | simulated exactly what a fault injection touched; absent operands unavailable |
| Baselines: `baselines/service.py`, `repository.py` | table baselines | create, list, get | the check of the source and the insertion are two connections | a baseline never changes and always has its source |
| Regression comparison: `baselines/service.py` | none | thresholds, warnings, outcome per metric, overall status | zero, sign and threshold boundaries; a cascade of statuses that may hide each other | PASS only on evidence; failures surface; nothing concluded across platforms or plans |
| Integer workload: `workloads/cpu.py` | thread pool, futures, shared token | reference, submit, collect, leave | tasks finish in any order; a deadline met by one thread is read by the others through the token | no task outlives the call; sound work passes; a timeout is no cancellation |
| Storage workload: `workloads/storage.py` | a directory and file of its own | limits, write, read, remove | last short block; deadline between blocks; failing cleanup | nothing left; the reserve kept; every byte covered |
| Memory workload: `workloads/memory.py` | one buffer | limits, fill, transform, read | the same, without files | every byte covered in each pass |
| Floating-point workload: `workloads/cpu.py` | none | a loop of float arithmetic | a checkpoint every 4096 terms, and a last one | every term covered; stops within a block |
| Stability workload: `workloads/cpu.py` | one deadline, the checksum so far | repeats the integer workload | remaining time of a passed deadline; a checksum handed from one repetition to the next; outliers | a wrong repetition is never covered up; one slow one is no warning; its end has its cause |
| Cancellation and deadlines: `workloads/control.py` | an event with a parent; a monotonic deadline | cancel, cancelled, checkpoint, remaining_seconds | read by several threads between two of their steps | see the workloads |
| Safety policy: `workloads/safety.py`, `_case_policy` in `runner/engine.py` | limits | require_*, detected, the policy of one case | bounds at their edges | no workload beyond the policy |
| Telemetry sampler: `collectors/sampler.py` | daemon thread, stop event, list of samples | start, stop, loop | two threads; hanging, failing and rejected readings; a bounded join | bounded, stops at once, what stop() returns is final |
| Validation runner: `runner/engine.py`, `run` in `cli.py` | results so far, the run's token | inventory, every test, summary, save, exit code | exceptions through `finally` clauses, some caught, some not | exit 0 only for a complete, saved and sound run; no sampler left |
| Requirement evaluation: `evaluation/evaluator.py` | none | one operator per kind | absent and ill-typed values | an absent value never passes by coercion |
| Result models: `models/results.py`, `models/status.py` | none | aggregate_status, validators | precedence of statuses; wall clock stepping back | the worst status wins |
| Plans and loader: `models/plan.py`, `runner/plan_loader.py` | none | validate, hash | - | unique tests, injection only where it works |
| Inventory: `inventory/collector.py` | none | read psutil and platform | partial failure of single readings | missing is unknown, not zero; the fingerprint does not move between two runs |
| Native probe adapter: `inventory/native_probe.py` | one subprocess | run, parse, validate | timeout, malformed output | all of an answer is used or nothing |
| Native CPUID probe: `src/cpp/cpuid_probe` | none | decode registers | 32-bit arithmetic | decoded values are those of the registers |
| Doctor, capabilities: `doctor.py`, `collectors/capabilities.py` | none | independent probes | conditions of its own | where it passes, only disabled and unimplemented tests are skipped, and only timing warns |
| Demo: `demo.py` | none | run, store, report a fixed plan | - | as its parts |
| Command line: `cli.py` | none | commands and exit codes | Ctrl+C | see runner and evidence store |

Interactions. `platval run` calls `run_validation_plan`, which collects the
inventory and calls `_run_test` for every test. `_run_test` starts a sampler
thread, gives the workload a child of the run's cancellation token, and stops
the sampler in a `finally` clause; the integer workload starts a pool of its
own, whose tasks share the child token with the calling thread. The finished run
goes to `persist_execution`. All later commands are processes of their own that
meet the run only through the runtime directory and the database.
`docs/decisions/0002-sqlite-local-repository.md:15` limits the database to local
use ("not intended for concurrent remote agents"); two local terminals are within
that limit, and the models have two or more local processes.


## 2. Modules

| module | models | composes |
|---|---|---|
| `EvidenceLedger` | the promise of the evidence store, atomic and free of failures | |
| `EvidenceStore` | the commands on files and rows, step by step | refines `EvidenceLedger` |
| `EvidenceStore_proofs` | theorems about `EvidenceStore` | |
| `RunArchive` | the promise of the repository: runs and their reports, every command in one step | |
| `RunRepository` | `SQLiteRepository` below its transactions: `initialize`, the SELECTs of `get_run` | refines `RunArchive` |
| `RunRepository_proofs` | theorems about `RunRepository` | |
| `CpuidProbe` | the C++ probe: leaves, features, caches | |
| `NativeProbe` | `locate_native_probe`, `invoke_native_probe` | `CpuidProbe` |
| `Verdicts` | `evaluate_requirement`, the status of a test and of a run | |
| `PlatformInventory` | inventory, fingerprint, the tests that look at it, doctor | `NativeProbe`, `Verdicts` |
| `ReportView` | `build_report_view` | `Verdicts` |
| `EvidenceReport` | from the processor to the labels of a registered report | `RunRepository`, `PlatformInventory`, `ReportView` |
| `EvidenceReport_proofs` | theorems about `EvidenceReport` | `RunRepository_proofs` |
| `IntegerWorkload` | `run_integer_workload` with its pool | |
| `StabilityWorkload` | `run_stability_workload` | whole calls of `IntegerWorkload` |
| `StabilityWorkload_proofs` | theorems about `StabilityWorkload` and `IntegerWorkload` | |
| `TelemetrySampler` | `PsutilTelemetrySampler`, both threads | |
| `RoundTrip` | `run_storage_workload`, `run_memory_workload`, `run_floating_point_workload` | |
| `TestExecution` | `_run_test`: a sampler around a workload | `TelemetrySampler`, `RoundTrip` |
| `TestExecution_proofs` | theorems about `TestExecution` and its two parts | |
| `ValidationRunner` | `platval run`: all tests, the verdicts, the save, the exit code | `Verdicts` |
| `ValidationRunner_proofs` | theorems about `ValidationRunner` | |
| `Regression` | `compare_run` after its reads | |
| `Regression_proofs` | theorems about `Regression` | |
| `MC...` | values of the constants for TLC | |

**EvidenceStore.** `row`, `artifacts` and `baselines` are the tables (a deleted
run keeps the mark "deleted", although the code has no such row, so that
properties can speak of it); `place`, `files` and `tmp` are the run directory;
`pc[p]`, `run[p]` and `arg[p]` are the command of process p. An action is one
file operation or one database transaction, named after the command and the
step: `PersistMkdir`, `PersistWrite`, `PersistReplace`, `PersistSave`,
`PersistUndo` are `persist_execution`; `ReportLoad` to `ReportUnwind` are
`generate_report` and `write_derived_artifact`; `BaselineSource` and
`BaselinePin`, `DeleteRow` and `DeleteMove`, `CompareBaseline`, `CompareSource`
and `CompareCurrent` the others. A transaction is one action because the code
opens each with BEGIN IMMEDIATE; its foreign keys and primary keys are guards.
What may fail is in `Faults`: "crash" ends a process between two steps,
"interrupt" is KeyboardInterrupt and leads to the handler of the step
(`Handler`), "write", "db" and "move" are failing operations, "undo" a cleanup
that fails half way. The run identifier is fresh (uuid4): `minted`.

**EvidenceLedger** has four actions: `Save`, `Publish`, `Pin`, `Delete`.
`EvidenceStore` implements it under a mapping that reads the ledger off the rows
and the files: a run's evidence is *kept* when the canonical file exists in
`runs/` or in the trash, an artifact is *published* when it is registered and on
disk. `ImplementsLedger` therefore says that no step of a command, whatever
fails in it, loses evidence or takes back a published artifact of a stored run.

**RunRepository** has what happens between the statements that `EvidenceStore`
takes as one step. Every operation begins with `initialize`: `ReadVersion`,
`RunStatement` once for every statement of the schema script, which SQLite
commits one by one, and `InsertVersion`, whose key is unique. `get_run` is
`ReadRun`, `ReadPlatform`, `ReadTelemetry` (the fourth SELECT, of the artifacts,
adds nothing to a report). A report command is load, check, register; `read[p]`
is what it has loaded so far, `reports` what a registered report was made from.
`Executions`, what a validation run stores, is a parameter.

**RunArchive** has `Create`, `Save`, `Report` and `Delete`, atomic: `Report` makes
a report of the run as it is in that step, and `Save` never uses an id twice, not
even after a deletion. `RunRepository` implements it (`ImplementsArchive`) under a
mapping that takes the ids used so far from the outcomes of the commands. So a
report, although it is read in four SELECTs of a first process between which
others delete, fail and die, cannot be told from one made in a single step; and
nothing is stored, reported or deleted before the version is ours.

**EvidenceReport** gives that parameter its value. A *host* is what stays the
same between two runs on a machine (processor registers, counts, volume), a
*moment* what may differ (how the call of the probe goes, sensors, free space,
power plan; whether the clock moved during the work, how evenly, and whether the
work was sound or raised). `Capture` is `collect_platform_inventory`,
`ProbeData` and `Outcome` the probe and its adapter. `Case` is the dispatch of
`_execute_case`: the inventory, the telemetry and the configuration test, the
stability test with its hint, one workload for those that have none, and what has no
implementation (REG-001 and unregistered ids), which is always skipped. `RunTest`
is `_run_test` around it: `Disabled` before anything starts, `Attempt` the try that
turns a timeout, a limit or an I/O error into ERROR, `Evaluate` and `Judge` the
way to a verdict. `View` is the report. Each is an operator on records,
because nothing of it meets another process; the rows and reports they fill are
under the commands of `RunRepository`. A value (`Verdicts`) is a record of its
Python type and what comparisons see of it, so that True equals 1, and a number
compared with a text is an error and not FALSE. `origin` in a stored run is a
history of what it was made from; no operator of the code reads it.

**IntegerWorkload.** `pc` is the calling thread, `task[i]` the i-th future.
Every thread reads the token (`MainToken`, `TaskToken`) and then the clock
(`MainClock`, `TaskClock`), which are two steps, as in `checkpoint`. `Leave` is
the exit of the `with ThreadPoolExecutor` block. `Fits` is the policy, the number of
workers and the memory of their blocks; a timeout of 0 stands for every timeout
that `require_timeout` refuses. A digest is a record of the
worker's seed, the blocks hashed and whether the computation was sound.

**StabilityWorkload** extends it: `step` is the outer loop, whose `Calling`,
`Working` and `Signalling` are the steps of a whole inner call. `RemainingToken`,
`RemainingClock` and `RemainingRead` are `remaining_seconds`, three reads between
which the deadline may pass: the call then begins with a timeout of 0, which
`CheckLimits` refuses. `Report` is the median, the median absolute deviation and
the hint of STB-001, on whole numbers (twice the median, four times the
deviation).

**TelemetrySampler.** `caller` is the runner's thread between `start` and the
return of `stop`, `thread` the sampling thread at its loop test, in a reading,
before the append and in the wait. A reading yields a sample, an exception that
becomes an error sample, one nobody catches, or hangs (`ReadingKinds`). The join
times out only in a hanging reading: the wait ends with the stop event. `Abandon`
is an interrupt that reaches the runner's thread where nothing stops the sampler any
more, between `start` and the try or in the join.

**RoundTrip.** The three workloads are a sequence of phases over `job.size` bytes
(or terms of the series) in blocks; `CaseMaximum` is the policy of the test, the
smaller of what was detected and what the plan asks for; `CheckToken` and
`CheckClock` come before each block, `Process` is the block, `Raise` takes an
exception to the `finally` clause (`Cleanup`) if the directory exists. A file that
is read back may have become short ("short"), and then its phase ends where the file
does. A temporary root that is not there (`RootFails`) is refused before the
directory is made. What the bytes hold is reduced to `sound`.

**TestExecution** puts the two together as `_run_test` does: `StartTest`, `Work`
(a step of the workload), `StopTest` when the workload is over, however it ended,
`JoinTest`; `Sampling` runs beside all of them. `InterruptTest` is a KeyboardInterrupt
outside the workload, before the try or in `sampler.stop()`.

**ValidationRunner** takes the parts above by their outcomes: requirements by the
three ways `Verdicts` lets them come out, a workload by how it ends (`Endings`), a
sampler by whether its thread runs (`samplers`), the evidence store by whether the
rows are committed. `Begin` starts a test; its sampler may fail to start
("start"), which nothing in the engine catches. `Execute` branches over the
endings; `StopSampler` is the `finally` clause, whose own exception replaces the
one on its way; `raised` is the exception that leaves the test or the run.

**Regression.** `input` is what the three reads returned, the steps are those of
the function. A change in percent is compared with a threshold after both sides
are multiplied by the size of the baseline, which is exact.

Definitions whose comment begins with "Mutant:" are not part of a specification:
each is a plausible bug of the definition that follows it, and `PROJECT.json`
names the property that must fail with it.


## 3. Runs and bounds

| run | instance | distinct states | shows |
|---|---|---|---|
| `store_faults` | 2 processes, 2 runs (one known good), 1 report, 1 baseline; crash, write, db, undo, move | 252 thousand | rows never without `run.json`, registered reports on disk, the ledger implemented |
| `store_interrupts` | the same, both runs known good, two reporters of one report allowed; crash, interrupt, db | 1.6 million | baselines keep their source, a comparison finds it, a baseline never changes |
| `store_clean` | the first, only write and db | 78 thousand | disk and database agree when no command works on a run; every deletion reaches the trash |
| `evidence_report` | 26 hosts, 23 moments, 20 tests; one process that runs and reports, one that lists and deletes, on a new or foreign database; crash, statement | 127 thousand | initialisation, reads, the archive implemented, labels: section 5 |
| `stability_pool` | 3 repetitions of 1 to 4 workers under a policy of 3 workers and memory for 2, every expectation, miscomputation, interrupt, 0 or more ticks | 156 thousand | the pool drains, nothing is lost in the split, verdicts and causes are true over all repetitions, outliers are tolerated, everything stops |
| `test_execution` | sizes 1, 3, 4, 6 with blocks of 2; a detected limit of 4, plan limits of 3 and 6; free space 5 and 9 with a reserve of 2; at most 2 samples; every trouble, a short file and an interrupt at any step included | 1.8 million | the workload's and the sampler's properties together; every test ends |
| `runner_faults` | every plan of up to 3 tests, every fault | 4.3 million | verdicts, exit code, cancellation and samplers over whole runs |
| `regression` | 2 metrics of opposite direction, values around 0 and around both thresholds, 4 pairs of thresholds | 186 thousand | the verdict of a comparison |
| `integer_timeout`, `store_two_reporters`, `store_interrupt_save`, `sampler_empty` | small instances, one cause each | violations | section 6 |

Why the bounds are enough. *Store:* the races of the code are between two commands
about one run; a third process adds no new pair of steps, and a second run is
needed for a baseline that could move from one run to another. One report format
suffices because formats share nothing but the directory, which the deletion moves
as a whole. Steps per command are not bounded; a run identifier is used once. The
proofs of section 5 drop all these bounds. *Repository:* both processes may find
the database new, between any two of whose statements the other may run or either
may die; with a schema script of two statements there is a state with some but not
all tables. One run suffices, since commands about different runs share only the
initialisation. *Hosts:* registers of 8 values, of which the last makes the number
of sets wrap to 0 and the last but one does not; three subleaves at most, so that
a processor has more; every vector and extended leaf present and absent; every
fate of the call, and every operator on a value of each type, absent included;
every kind of test enabled, and one disabled. *Pool:* three workers are refused
for the memory of their blocks, four for their number; up to four blocks over up
to two workers give both remainders, and a worker without a block. The middle one
of three repetitions is preceded and followed by another, and three is the first
number with a minority. *Test:* the sizes are below a block, a block and a half,
whole blocks and beyond the limit; the plan's limit is below and above the
detected one; the free spaces are short of, exactly at and above size plus
reserve. Two samples put the sampler's bound inside the test. *Runner:* a failure
can come before, in and after a test, so three tests. *Regression:* the first
metric takes the values at and beside both thresholds on each side of a baseline
of 10 and of 0; the second, in the other direction, is absent, equal or at a
threshold, possibly in another unit.

`CHECK_DEADLOCK FALSE` is set where a behaviour really ends (a call, a test, a
run, a comparison is over); the store runs for ever.


## 4. Fairness

* `EvidenceStore!FairSpec`: weak fairness of every command's steps. A process
  that is scheduled goes on; the code waits for nothing but SQLite's lock, which
  turns into an error after its timeout ("db"). Users need not start commands,
  and nothing makes a crash happen. Used for `DeletionReachesTrash`.
* `StabilityWorkload!StabilitySpec`: weak fairness of the calling thread and of
  every task of the pool; they only wait for each other, and hashing a block ends.
  A deadline need not pass and nobody need cancel. Used for `RepetitionsStop`.
* `TestExecution!TestSpec`: weak fairness of the runner's thread and of the
  sampling thread, but not of `SlowReturns`: a hanging psutil call may hang for
  ever. `TestEnds` holds because the join has a timeout.

`ValidationRunner`, `Regression` and `EvidenceReport` are checked for safety only:
the first two are sequential, and a command of the third may be killed anywhere.


## 5. Proofs

The eight passing runs check 33 invariants and 7 action or temporal properties.
All the invariants, both refinements and the two other action properties are also
theorems, for all values of the constants that their named assumptions admit; so
what section 3 says of bounds matters only for the three liveness properties and
for the mutants.

| module | obligations | about |
|---|---|---|
| `EvidenceStore_proofs` | 913 | files and rows, and the ledger they implement |
| `RunRepository_proofs` | 1214 | initialisation and reads, and the archive they implement |
| `EvidenceReport_proofs` | 413 | from the machine to a report |
| `TestExecution_proofs` | 602 | a sampler around a workload |
| `StabilityWorkload_proofs` | 1182 | the pool, and its repetitions |
| `ValidationRunner_proofs` | 455 | whole runs |
| `Regression_proofs` | 452 | comparisons |

### The evidence store

`EvidenceStore_proofs`, for all sets of processes, runs, reports and names:

| theorem | statement | assumes |
|---|---|---|
| `TypeCorrect` | `Spec => []TypeOK` | |
| `BaselineSourcesSafe` | `BaselineSourceStored`: a baseline's source is stored and known good | |
| `ComparisonsFindTheirSource` | `Spec => []CompareFindsSource` | |
| `BaselinesNeverChange` | `Spec => BaselinesImmutable` | |
| `CanonicalNeverLost` | `Spec => []CanonicalPresent` | `NoInterrupt` |
| `RegisteredStaysOnDisk` | `Spec => []RegisteredOnDisk` | `NoInterrupt`, `SoleReporter` |
| `StoreImplementsLedger` | `Spec => ImplementsLedger` | `NoInterrupt`, `SoleReporter` |
| `NothingIsLeftBehind` | `Spec => []DiskMatchesDatabase` | `OnlyOperationsFail`, `SoleReporter` |
| `FilesAreNeverOverwritten` | `Spec => NeverOverwritten` | `SoleReporter` |

The assumptions are what the code needs: without `NoInterrupt` or `SoleReporter`
TLC finds the counterexample of `store_interrupt_save` or `store_two_reporters`.
`OnlyOperationsFail` (only writes and transactions fail) is the situation
`DiskMatchesDatabase` is about: a process that dies, or whose cleanup or move
fails, leaves something behind. Crashes and every failing operation are allowed in
all other theorems, interrupts too in the first four and in the last.

The argument. `Safe` is the type invariant with the types of the arguments at
each step (`ArgOK`): without it a report command might name the canonical file
or a baseline command no name. None of the properties is inductive:

* `PinnedOK` adds to the property on baselines that a command about to pin has
  read a known-good status, and that a comparison holds a source that *is*
  pinned. The source cannot vanish later, since `DeleteRow` refuses a pinned run
  and baselines never change.
* `SavingOK` adds who owns a run that is being saved: one process at a time, its
  row not yet there, its directory in `runs/` with what its step has already
  written. That is why `PersistUndo` never removes a directory with rows, as long
  as no interrupt takes a command from after the commit to the handler.
* `ReportingOK` adds that a reporter's file is unregistered from its existence
  check until its own registration, and present after its own rename, as long as
  the run is stored. With one reporter per run and format no other command creates,
  renames or removes that file, so an unwinding reporter removes only its own.
* `CleanOK` adds, for a directory with a command at work, what that command still
  has to account for: the files of a run are its registered artifacts and those
  its commands have put there and not yet registered or removed, and the
  temporary files are those of commands between creation and rename. When no command
  is left, nothing is unaccounted for.
* `FreshOK` adds that a reporter between its existence check and its rename still
  finds no file of that name. It holds under interrupts, since no other command
  creates one.

The refinement splits into `DatabaseDecides` (under these invariants the mapped
state is determined by the rows), `OnlyTransactionsWrite` (every step but the
four transactions leaves the rows alone) and `LedgerStep`, one case per
transaction.

### The repository

`RunRepository_proofs`, for all sets of processes, runs and executions, every
number of statements and every list of commands:

| theorem | statement |
|---|---|
| `SchemaNeverHalf` | `Spec => SchemaSafe` |
| `ConflictsPass` | `Spec => []ConflictOnce` |
| `ReportsAreWhole` | `Spec => []ReportIsWhole` |
| `RepositoryImplementsArchive` | `Spec => ImplementsArchive` |

They assume `RepositoryAssumption`: the types of the constants, and that a run id
is saved by one command (it is a fresh uuid4). Crashes and failing statements are
allowed in all of them.

* `SchemaOK`: our version stands over complete tables; whoever has seen it, or is
  about to operate, finds it written; and no process is in the script of a foreign
  database. So nothing but `ReadVersion`, which ends there, happens on one.
* `ConflictOK`: a process with a conflict behind it finds the version written, and
  reads it again in its next command. (The mutant `ReadVersionOnce` remembers it.)
* `ReportOK`: what a reporter has read is what is stored *as long as the run is
  stored* (`SoFar`). A deletion in the middle makes the rest of the reads empty or
  an error; but the id of a run that was saved and is gone is not saved again
  (`Saved`), so that a report of half a run finds no run to register with.

The refinement needs no more than these: `ArchiveStep` has a case per step.
`InsertVersion` is `Create`; `Save`, `Delete` and `Register` are the operations
of the archive when they succeed, with a version that is ours by `SchemaOK`, an id
that was not used by `Saved`, and a report of the whole run by `ReportOK`. Whatever
else happens leaves rows, reports and used ids alone (`UsedAfter`, `UsedStays`).

### From the machine to a report

`EvidenceReport_proofs`, for all hosts, moments, tests and executions of them:

| theorem | statement |
|---|---|
| `NativeDetailIsTrue` | `Spec => []NativeDetailTrue`: caches have their true size, AVX its saved state |
| `FingerprintsAreStable` | `Spec => []FingerprintStable`: whatever sensors, space and power plan do, as long as the probe and the volume list answer alike |
| `DoctorIsRight` | `Spec => []DoctorPredicts`: where the doctor passes, a skipped test was disabled or has no implementation, and a warning is about timing; where it warns, a test that asks for the missing part shows it |
| `AbsentValuesFail` | `Spec => []AbsentNeverPasses` |
| `ReportsAreTruthful` | `Spec => []ReportTruthful` |

They assume `RegisterAssumption` (a register field holds what fits into its bits),
`EvidenceAssumption` (executions are made by `Execution`), `TestAssumption` (what
the validators of a plan let through: requirements are well formed, and only an
enabled workload that supports it is injected) and `MomentAssumption` (types). The
invariant they need is `RowsMade`: every stored run is an execution of `Executions`;
the rest is about the operators. For the caches: a number of sets that wraps is 0,
and then `Acceptable` refuses the whole answer; one that does not wrap is the true
one. For the reports, `ReportIsWhole` says that the labels are those of the row as
it is stored, which is a whole execution, and one lemma per kind of label compares
it with the host.

### One test

`TestExecution_proofs`, for every bound on the samples and every size, block
size, policy and volume, and for every subset of the troubles (interrupts and a
failing rmtree included):

| theorem | statement |
|---|---|
| `SamplerKeepsBounds` | `TestSpec => [](SamplesBounded /\ ReturnedIsFinal /\ StopsPromptly)` |
| `WorkloadKeepsPromises` | `TestSpec => [](NothingLeft /\ LimitsKept /\ ResultCovers /\ StopsSoon /\ EndingHasCause)` |

with a theorem for each of these that is a property of its own:
`ReturnedSamplesAreFinal`, `LimitsAreKept`, `ResultsCoverEverything`,
`SignalsEndTheWork`, `ErrorsHaveTheirCause`.

The workload is any of the three. They assume only `SamplerAssumption` and
`RoundTripAssumption`, the types of the constants. `TestSteps` shows that a step of
the test is a step of each part or leaves it alone, so each part is proved from an
invariant of its own:

* `SamplerOK`: the bound and the stop event are tested before a sample is
  collected, so a sample on its way still has room, and after the stop event none
  has been appended since; a thread that is over appends nothing.
* `DirectoryOK`: a directory exists only for a storage workload that passed the
  limits, from Acquire to the finally clause; every exception on the way goes
  through that clause. The reserve follows, since a phase never goes beyond the
  size (`WorkTypeOK`), and so do the limits, since nothing is gone through before
  they are passed (`WithinOK`).
* `EndingOK`: the workload's own token is cancelled only by its deadline, which
  ends it; so only the run's token can cancel it. A refusal has touched nothing.
* `LateOK`: bytes gone through late mean that a signal was there, and between two
  blocks both checks are passed; so no block starts late twice.
* `CoveredOK`: a phase is left only with its last byte, or at the end of a file that
  has become short, whose result is never correct; so a correct result has all
  bytes of all phases.

### The pool and its repetitions

`StabilityWorkload_proofs`, for any number of workers, operations, repetitions
and ticks, whatever is miscomputed, and whenever the deadline, a cancellation or
Ctrl+C come:

| theorem | statement |
|---|---|
| `PoolsAreDrained` | `StabilitySpec => []PoolDrained` |
| `ResultsAreComplete` | `StabilitySpec => []ResultComplete` |
| `VerdictsAreTrue` | `StabilitySpec => []StabilityVerdict` |
| `EndsHaveCauses` | `StabilitySpec => []RepetitionsEndWithCause` |
| `MinoritiesAreTolerated` | `StabilitySpec => []OutliersTolerated` |
| `OneWorkerTellsTheCause` | `Spec => []CancelledOnlyByRun`, if `WorkerCounts = {1}` |

They assume `ConstantsAssumption` and `RepetitionsAssumption`, the types of the
constants; the last, about a call of its own, that calls have one worker, which is
exactly where `integer_timeout` begins to differ.

The invariant is in two layers. `CallOK` is about the call under way, and every
step of the pool keeps it: what has been done at each place of the calling thread
(`PhaseOK`: the digests collected so far are those of the finished tasks, in the order of
the workers), what a finished task has done (`WorkOK`), and why a task or the call
ended (`SignalOK`). `TokenOK`, that the token is cancelled only for such a reason, is
kept apart: between two calls the clock of the repetitions cancels the token too.
`StabilityOK` is about the calls before: which repetitions are over
(`ScheduleOK`), why the last of them ended the workload (`EndOK`), and the chain of
checksums (`VerdictOK`): after the first repetition `agreed` holds exactly if
everything was sound so far, and as long as it was, the checksum that is handed on,
or that the call under way compares with, is the reference. Only with the second
part does agreement with a predecessor say as much as agreement with the reference.

`SharesAddUp` is the arithmetic of the split: with remainder, the shares of any
number of workers add up to the operations, by counting the pairs of worker
and block against the quotient and the remainder (`Euclid`). `MajorityIsMedian` says that
the median of a sequence is the value that more than half of it has; applied to the
durations and then to their deviations it makes the deviation zero, so that STB-001
gives no hint.

### Whole runs

`ValidationRunner_proofs`, for plans of any length, tests of every kind and every
set of faults:

| theorem | statement |
|---|---|
| `SamplersAreJoined` | `Spec => []SamplersJoined` |
| `PassesAreEarned` | `Spec => []PassIsEarned` |
| `SuccessMeansComplete` | `Spec => []SuccessIsComplete` |
| `CancellationStops` | `Spec => []CancelStopsRun` |

They assume `RunnerAssumption`. `PlaceOK` says where the run is in its plan; with it
and the types, each property has an invariant of its own. `SamplersOK`: between the
start and the join of a sampler no other starts, and the two ways out that leave one
are those `SamplersJoined` names. `EarnedOK`: from the end of an injected workload to
its verdict the case is one no evaluation can make pass (`CannotPass`). `ExitOK`: no
exit code before the end, and the save before it. `CancelOK`: a test that is under way
when the token is cancelled is the last.

### Comparisons

`Regression_proofs`, for all metrics, all integer values and all thresholds:

| theorem | statement |
|---|---|
| `PassesAreEvidence` | `Spec => []PassIsEvidence` |
| `FailuresAreSurfaced` | `Spec => []FailuresSurface` |
| `SelfComparison` | `Spec => []SelfIsUnchanged` |
| `OutcomesAreMonotone` | `Spec => []OutcomeMonotone` |

They assume `RegressionAssumption`. `ComparisonOK` says what each step of the
function has established: the thresholds are in order, the warnings tell the
circumstances, the metrics before the current one are compared and the others
untouched. What remains is the cascade of `OverallStatus`, and the arithmetic of one
metric, for which a comparison of losses takes the place of the quotient in percent.

### What is only model-checked

The liveness properties `TestEnds`, `RepetitionsStop` and `DeletionReachesTrash`:
liveness under fairness is out of the prover's reach. The properties of the four
violating runs fail, and what is proved of some of them under an assumption is
above. The sum of the floating-point series and the hashes are abstract in the
models, so that no theorem speaks of them.


## 6. Disagreements between code and documents

Each has a run that must end in a violation; `PROJECT.json` quotes the lines.

1. `integer_timeout`: a worker that meets the deadline cancels the token the
   others read (`control.py:43`), and futures are collected in index order; with
   two or more workers a *timeout of one test* can come out as a *cancellation of
   the whole run*. `docs/architecture.md:36` excludes that. With one worker it
   cannot happen (`OneWorkerTellsTheCause`).
2. `store_interrupt_save`: Ctrl+C after the commit of `save_execution` and before
   `persist_execution` returns removes the directory of a stored run
   (`artifacts.py:75`).
3. `store_two_reporters`: existence check and `os.replace` are two steps; two
   report commands for one run and format overwrite each other, and the loser's
   handler removes the registered file (`artifacts.py:99,108,118`). With one such
   command at a time no file is overwritten (`FilesAreNeverOverwritten`).
4. `sampler_empty`: a test that ends before the sampling thread's first look at
   the stop event has no sample at all (`sampler.py:53`), against
   `tests/integration/test_runner.py:23` and `docs/architecture.md:38`.

Observations without a run:

* A report command killed between its file and the registration leaves a file
  that makes all later ones refuse, with nothing registered to use instead
  (`artifacts.py:100`); `docs/troubleshooting.md` advises to use "the existing
  registered artifact".
* A deletion killed between the transaction and the move leaves a directory in
  `runs/` that no command can delete any more: its evidence is kept
  (`ImplementsLedger` holds), but not in the trash.
* A metric of the baseline that is absent from the current run is passed over by
  `compare_run` without a warning; `PassIsEvidence` therefore speaks only of the
  metrics both runs have.
* The brand and the caches in the fingerprint are those of the probe, when it
  answers (`collector.py:92-115`, `platform.py:34`). A run during which it times out
  has another fingerprint than one on the same machine during which it did not, and
  comparisons refuse the pair. `docs/architecture.md:72` says the fingerprint
  "deliberately excludes free disk space, sensor availability, and other transient
  capabilities". `FingerprintStable` is what is left: nothing else that changes
  between two runs moves it. (Without its condition on the probe TLC violates it.)
* A metric measured as None (a rate with a coarse clock) is labelled measured or
  derived in the list of metrics (`view.py:304`), although "`unavailable` means no
  trustworthy reading existed" (`docs/results-guide.md:15`); only the operand of a
  requirement is labelled unavailable, and `ReportTruthful` says no more.
* A probe that knows no brand string replaces the one of the operating system by
  nothing (`collector.py`): the report then shows the CPU as unavailable on a
  host that can name it. `ReportTruthful` asks for "unavailable" only where neither
  knows it.
* `platval demo failure` says "completed as intended: FAIL" and exits with 0
  whatever came out; an injected test never passes (`PassIsEarned`), but it may
  end as ERROR.
* `thermal_stop_celsius` of a plan's safety limits is accepted and read nowhere.


## 7. Limits of the models

* `get_run` is one read in `EvidenceStore`, whose properties need only the run's
  row, and its SELECTs in `RunRepository`, which has no files.
* Row contents, hashes and sizes of artifacts are abstract; names reach the
  store validated.
* The default temporary directory and the memory of the rendered report are
  outside `EvidenceStore`.
* Floats: `Regression` and the statistics of `StabilityWorkload` compute exactly;
  the rounding of a division next to a threshold is left out. The sum of the
  floating-point workload is within its tolerance or not.
* The two `unlink` calls of a failing report (`artifacts.py:119-122`) are one step,
  `ReportUnwind`. After its rename a command has no temporary file left, and before it no
  final file, so that only one of them removes something of its own.
* `PRAGMA journal_mode=WAL` comes before the version check (`repository.py:89`) and
  changes the header of a foreign database; `SchemaSafe` and `ImplementsArchive` are
  about its tables and rows.
* `store_clean`, with its liveness property, has neither a crash nor a failing move:
  with them a deletion need not reach the trash. That nothing is lost when they come
  between the transaction and the move is `ImplementsLedger`, in `store_faults`.
* The free space of a volume is constant during a test: the code asks for it once,
  and nothing keeps other users of the volume from filling it afterwards.
* The finiteness check of the thresholds is left out of `Regression`: they are
  integers.
* A run in `EvidenceReport` has one test. `Verdicts` aggregates any number, which
  `ValidationRunner` uses.
* The positions of bits in the CPUID registers, and the numbers of bits of the
  narrow fields, are left out: `CpuidProbe` begins with the fields.
* `RoundTrip` raises MemoryError only at the allocation, and damage is noticed
  by SHA-256 with certainty.
* The sampling interval and timeouts are untimed: a deadline passes at any time,
  a join times out only while a psutil call hangs.
* The order in which the doctor and a run look at the machine is not modelled:
  `DoctorPredicts` compares them at the same moment.


### Not modelled

* YAML parsing, JSON serialisation, Markdown, HTML and SVG, argument parsing and
  tables: presentation or I/O whose errors are the failing steps of the models.
* `SafetyPolicy.detected()`, psutil and powercfg readings: what they return are
  constants of the models.
* The message and the exit code of `platval demo failure`, the tables of
  `platval doctor`, `inspect` and `runs list`.


## 8. Plan

Done, in this order: `EvidenceStore` with ledger and proofs, `IntegerWorkload`,
`TelemetrySampler`, `ValidationRunner`, `Regression`, `RoundTrip`,
`TestExecution` with proofs; then `StabilityWorkload`, `Verdicts`, `CpuidProbe`,
`NativeProbe`, `PlatformInventory`, `ReportView`, `RunRepository` and
`EvidenceReport` with proofs.

Then the proofs of `EvidenceStore` that were missing, of `StabilityWorkload` with
`IntegerWorkload`, `ValidationRunner` and `Regression`, and `RunArchive` with the
refinement. Last, the cases of `_execute_case` that `EvidenceReport` did not have,
the memory limit, the short file, the sampler that does not start, and the
interrupts around the workload.

Next: an abstract test, sampled and judged, that both `TestExecution` and
`ValidationRunner` implement, so that the outcomes by which `ValidationRunner` takes a
test are those the detailed modules have; an abstract call of a workload that
`IntegerWorkload` implements.
