-------------------------- MODULE ValidationRunner --------------------------
(***************************************************************************)
(* platval run: the plan's tests in order, each with a telemetry sampler   *)
(* around it and a child of the run's cancellation token; the verdict on   *)
(* each test and on the run; the saving of the evidence and the exit code. *)
(* What a workload does is reduced to how it ends (IntegerWorkload shows   *)
(* how), a sampler to whether its thread runs (TelemetrySampler), and the  *)
(* saving to whether the rows are committed (EvidenceStore).               *)
(***************************************************************************)
EXTENDS Verdicts, FiniteSets

CONSTANTS
  MaxTests, \* length of the longest plan
  Faults    \* what may go wrong around the tests, a subset of FaultKinds

(* Ctrl+C; a sampler whose start fails or whose thread outlasts its join; an *)
(* exception run_command does not catch; a wall clock that steps back; a     *)
(* failing inventory or save; and a caller that cancels the run's token.     *)
FaultKinds == {"interrupt", "start", "slow", "unhandled", "clock", "io", "cancel"}

ASSUME RunnerAssumption ==
  /\ MaxTests \in Nat \ {0}
  /\ Faults \subseteq FaultKinds

(* A test: parallel if its integer workload has two or more workers.  Fault  *)
(* injection needs an enabled CPU-001 or CPU-003.                            *)
Tests == {t \in [enabled : BOOLEAN, injected : BOOLEAN, parallel : BOOLEAN] :
            t.injected => t.enabled}
Plans == UNION {[1 .. n -> Tests] : n \in 1 .. MaxTests}

VARIABLES
  plan,     \* the validated plan
  pc,       \* the next step of the run, or "exited"
  results,  \* the test results so far
  case,     \* the _CaseExecution of the test: its status hint and correctness
  raised,   \* the exception on its way out of the test or the run, or "none"
  samplers, \* the tests whose sampler thread is running
  runToken, \* the run's token is cancelled
  atCancel, \* number of results when a caller cancelled it; MaxTests before
  saved,    \* the run's rows are committed
  exit      \* the exit code, or "none"

vars == <<plan, pc, results, case, raised, samplers, runToken, atCancel, saved, exit>>

Case(hint, correct) == [hint |-> hint, correct |-> correct]

Init ==
  /\ plan \in Plans
  /\ pc = "inventory"
  /\ results = << >>
  /\ case = Case("PASS", TRUE)
  /\ raised = "none"
  /\ samplers = {}
  /\ runToken = FALSE
  /\ atCancel = MaxTests
  /\ saved = FALSE
  /\ exit = "none"

Current == Len(results) + 1
Test == plan[Current]

(* run_command's handlers: what an exception that leaves the run does. *)
ExitCode(exception) ==
  CASE exception \in {"WorkloadCancelled", "KeyboardInterrupt"} -> "130"
    [] exception \in {"OSError", "ValueError", "RuntimeError"}     -> "2"
    [] OTHER                                                     -> "1"

Leave(exception) ==
  /\ pc' = "exited"
  /\ raised' = exception
  /\ exit' = ExitCode(exception)
  /\ runToken' = (runToken \/ ExitCode(exception) = "130")

Statuses == {results[i].status : i \in DOMAIN results}

-----------------------------------------------------------------------------
Inventory ==
  /\ pc = "inventory"
  /\ \/ pc' = "next" /\ UNCHANGED <<exit, raised, runToken>>
     \/ "io" \in Faults /\ Leave("OSError")
  /\ UNCHANGED <<plan, results, case, samplers, atCancel, saved>>

(* Mutant: the run's token is not looked at between tests. *)
NextTestRegardless ==
  /\ pc = "next"
  /\ pc' = IF Current > Len(plan) THEN "summary" ELSE "begin"
  /\ UNCHANGED <<exit, runToken>>
  /\ UNCHANGED <<plan, results, case, raised, samplers, atCancel, saved>>

(* The head of the loop; the token is not read again after the last test. *)
NextTest ==
  /\ pc = "next"
  /\ IF Current > Len(plan)
     THEN pc' = "summary" /\ UNCHANGED <<exit, raised, runToken>>
     ELSE IF runToken
     THEN Leave("WorkloadCancelled")
     ELSE pc' = "begin" /\ UNCHANGED <<exit, raised, runToken>>
  /\ UNCHANGED <<plan, results, case, samplers, atCancel, saved>>

Record(status, evaluation) ==
  Append(results, [status |-> status, hint |-> case.hint, correct |-> case.correct,
                   evaluation |-> evaluation])

Skipped == [status |-> "SKIP", hint |-> "SKIP", correct |-> TRUE, evaluation |-> "passed"]

(* A disabled test is skipped; an enabled one starts its sampler first,      *)
(* before the try, unless psutil or the new thread fails.  A wall clock that *)
(* stepped back makes a TestResult invalid (ValueError).                     *)
Begin ==
  /\ pc = "begin"
  /\ IF Test.enabled
     THEN /\ \/ /\ samplers' = samplers \cup {Current}
                /\ pc' = "armed"
                /\ UNCHANGED <<exit, raised, runToken>>
             \/ /\ "start" \in Faults
                /\ \E exception \in {"RuntimeError", "PsutilError"} : Leave(exception)
                /\ UNCHANGED samplers
          /\ UNCHANGED results
     ELSE /\ \/ /\ results' = Append(results, Skipped)
                /\ pc' = "next"
                /\ UNCHANGED <<exit, raised, runToken>>
             \/ /\ "clock" \in Faults
                /\ Leave("ValueError")
                /\ UNCHANGED results
          /\ UNCHANGED samplers
  /\ UNCHANGED <<plan, case, atCancel, saved>>

(* Between sampler.start() and the try: the case and the child token. *)
Armed ==
  /\ pc = "armed"
  /\ case' = Case("PASS", TRUE)
  /\ raised' = "none"
  /\ pc' = "execute"
  /\ UNCHANGED <<plan, results, samplers, runToken, atCancel, saved, exit>>

(* How _execute_case can end.  An injected checksum never matches.  A        *)
(* parallel workload may raise WorkloadCancelled for its own timeout.        *)
Endings ==
  (IF Test.injected THEN {} ELSE
     {[hint |-> h, correct |-> c, exc |-> "none"] : h \in {"PASS", "WARN"}, c \in BOOLEAN}
     \cup {[hint |-> "SKIP", correct |-> TRUE, exc |-> "none"]})
  \cup {[hint |-> "PASS", correct |-> FALSE, exc |-> "none"],
        [hint |-> "ERROR", correct |-> FALSE, exc |-> "none"]}
  \cup (IF runToken \/ Test.parallel
        THEN {[hint |-> "PASS", correct |-> TRUE, exc |-> "WorkloadCancelled"]} ELSE {})
  \cup (IF "unhandled" \in Faults
        THEN {[hint |-> "PASS", correct |-> TRUE, exc |-> "MemoryError"]} ELSE {})

Execute ==
  /\ pc = "execute"
  /\ \E ending \in Endings :
       /\ case' = Case(ending.hint, ending.correct)
       /\ raised' = ending.exc
  /\ pc' = "stop"
  /\ UNCHANGED <<plan, results, samplers, runToken, atCancel, saved, exit>>

(* Mutant: the sampler is stopped at the end of the test, not in a finally.  *)
StopSamplerOnReturn ==
  /\ pc = "stop"
  /\ IF raised = "none"
     THEN /\ samplers' = samplers \ {Current}
          /\ pc' = "judge"
          /\ UNCHANGED <<exit, raised, runToken>>
     ELSE Leave(raised) /\ UNCHANGED samplers
  /\ UNCHANGED <<plan, results, case, atCancel, saved>>

(* The finally clause.  A sampler that does not stop raises RuntimeError in  *)
(* the place of whatever was on its way out.                                 *)
StopSampler ==
  /\ pc = "stop"
  /\ \/ /\ samplers' = samplers \ {Current}
        /\ IF raised = "none"
           THEN pc' = "judge" /\ UNCHANGED <<exit, raised, runToken>>
           ELSE Leave(raised)
     \/ /\ "slow" \in Faults
        /\ Leave("RuntimeError")
        /\ UNCHANGED samplers
  /\ UNCHANGED <<plan, results, case, atCancel, saved>>

(* Requirements are only evaluated for a case that came to a conclusion.     *)
JudgeTest ==
  /\ pc = "judge"
  /\ \/ /\ \E evaluation \in Evaluation :
             results' = Record(Judge(case.hint, case.correct, evaluation), evaluation)
        /\ pc' = "next"
        /\ UNCHANGED <<exit, raised, runToken>>
     \/ /\ "clock" \in Faults
        /\ Leave("ValueError")
        /\ UNCHANGED results
  /\ UNCHANGED <<plan, case, samplers, atCancel, saved>>

(* RunResult is built and persist_execution saves it. *)
Save ==
  /\ pc = "summary"
  /\ \/ saved' = TRUE /\ pc' = "exit" /\ UNCHANGED <<exit, raised, runToken>>
     \/ /\ "clock" \in Faults
        /\ Leave("ValueError")
        /\ UNCHANGED saved
     \/ /\ "io" \in Faults
        /\ Leave("OSError")
        /\ UNCHANGED saved
  /\ UNCHANGED <<plan, results, case, samplers, atCancel>>

Exit ==
  /\ pc = "exit"
  /\ pc' = "exited"
  /\ exit' = CASE AggregateStatus(Statuses) = "ERROR" -> "2"
               [] AggregateStatus(Statuses) = "FAIL"  -> "1"
               [] OTHER                               -> "0"
  /\ UNCHANGED <<plan, results, case, raised, samplers, runToken, atCancel, saved>>

-----------------------------------------------------------------------------
CancelRun ==
  /\ "cancel" \in Faults
  /\ ~runToken
  /\ pc # "exited"
  /\ runToken' = TRUE
  /\ atCancel' = Len(results)
  /\ UNCHANGED <<plan, pc, results, case, raised, samplers, saved, exit>>

(* Ctrl+C.  In the try it passes through the finally clause; while saving,   *)
(* the rows may be committed already; after the save run_command does not    *)
(* catch it and the exit code is the command-line library's.                 *)
Interrupt ==
  /\ "interrupt" \in Faults
  /\ \/ /\ pc = "execute"
        /\ raised' = "KeyboardInterrupt"
        /\ pc' = "stop"
        /\ UNCHANGED <<exit, runToken, saved>>
     \/ /\ pc = "summary"
        /\ saved' \in BOOLEAN
        /\ Leave("KeyboardInterrupt")
     \/ /\ pc \in {"inventory", "next", "begin", "armed", "stop", "judge"}
        /\ Leave("KeyboardInterrupt")
        /\ UNCHANGED saved
     \/ /\ pc = "exit"
        /\ pc' = "exited"
        /\ raised' = "KeyboardInterrupt"
        /\ exit' \in {"1", "130"}
        /\ UNCHANGED <<saved, runToken>>
  /\ UNCHANGED <<plan, results, case, samplers, atCancel>>

Step ==
  \/ Inventory \/ NextTest \/ Begin \/ Armed \/ Execute \/ StopSampler
  \/ JudgeTest \/ Save \/ Exit
Next == Step \/ CancelRun \/ Interrupt

Spec == Init /\ [][Next]_vars

-----------------------------------------------------------------------------
Result == [status : Status, hint : Status, correct : BOOLEAN, evaluation : Evaluation]

TypeOK ==
  /\ plan \in Plans
  /\ pc \in {"inventory", "next", "begin", "armed", "execute", "stop", "judge",
             "summary", "exit", "exited"}
  /\ results \in Seq(Result)
  /\ Len(results) <= Len(plan)
  /\ case \in [hint : Status, correct : BOOLEAN]
  /\ raised \in {"none", "WorkloadCancelled", "KeyboardInterrupt", "MemoryError",
                 "PsutilError", "OSError", "ValueError", "RuntimeError"}
  /\ samplers \subseteq 1 .. Len(plan)
  /\ runToken \in BOOLEAN
  /\ atCancel \in 0 .. MaxTests
  /\ saved \in BOOLEAN
  /\ exit \in {"none", "0", "1", "2", "130"}

(* A test passes only if it is enabled, its workload was correct and every   *)
(* requirement passed; a test with an injected fault never passes, is never  *)
(* skipped and never only warns.                                             *)
PassIsEarned ==
  \A i \in DOMAIN results :
    /\ results[i].status \in {"PASS", "WARN"} =>
         plan[i].enabled /\ results[i].correct /\ results[i].evaluation = "passed"
    /\ plan[i].injected => results[i].status \in {"FAIL", "ERROR"}

(* Exit code 0 means that the evidence of the whole plan is saved and that   *)
(* no test of it failed or errored, whatever was cancelled or went wrong.    *)
SuccessIsComplete ==
  exit = "0" => /\ saved
                /\ Len(results) = Len(plan)
                /\ \A i \in DOMAIN results : results[i].status \notin {"FAIL", "ERROR"}

(* Once the run's token is cancelled, at most the test in progress yields a  *)
(* result.                                                                   *)
CancelStopsRun == Len(results) <= atCancel + 1

(* While a test executes its sampler runs, and no other: no test shares the  *)
(* machine with the sampler of an earlier one, whatever failed before.  And, *)
(* as architecture.md says of the sampler ("joins before the test result is  *)
(* finalized"), no sampler thread outlives the run, unless Ctrl+C ended it   *)
(* or the sampler's own RuntimeError says so.                                *)
SamplersJoined ==
  /\ pc = "execute" => samplers = {Current}
  /\ pc = "exited" /\ raised \notin {"KeyboardInterrupt", "RuntimeError"} =>
       samplers = {}
=============================================================================
