------------------------ MODULE ValidationRunner_proofs ------------------------
(***************************************************************************)
(* Machine-checked proofs about ValidationRunner, for plans of any length  *)
(* and every subset of the faults.                                         *)
(***************************************************************************)
EXTENDS ValidationRunner, SequenceTheorems, TLAPS

InTest == {"armed", "execute", "stop"}

(* A plan is a sequence of tests within the bound. *)
LEMMA PlansAre ==
  ASSUME NEW p \in Plans
  PROVE  /\ Len(p) \in 1 .. MaxTests /\ DOMAIN p = 1 .. Len(p)
         /\ \A i \in 1 .. Len(p) : /\ p[i] \in Tests
                                   /\ p[i].injected => p[i].enabled
<1>1. PICK n \in 1 .. MaxTests : p \in [1 .. n -> Tests]
  BY DEF Plans
<1>2. n \in Nat
  BY <1>1, RunnerAssumption
<1>3. p \in Seq(Tests) /\ Len(p) = n
  BY <1>1, <1>2, SeqDef, LenProperties
<1> QED BY <1>1, <1>3 DEF Tests

LEMMA TypeInit == Init => TypeOK
<1> SUFFICES ASSUME Init PROVE TypeOK
  OBVIOUS
<1>1. Len(plan) \in Nat /\ MaxTests \in Nat
  BY PlansAre, RunnerAssumption DEF Init
<1>2. results \in Seq(Result) /\ Len(results) <= Len(plan)
  <2>1. results \in Seq(Result) /\ Len(results) = 0
    BY DEF Init
  <2> QED BY <1>1, <2>1
<1>3. case \in [hint : Status, correct : BOOLEAN]
  BY DEF Init, Case, Status
<1>4. atCancel \in 0 .. MaxTests
  BY <1>1 DEF Init
<1>5. plan \in Plans /\ samplers \subseteq 1 .. Len(plan)
  BY DEF Init
<1> QED BY <1>2, <1>3, <1>4, <1>5 DEF Init, TypeOK

LEMMA ExitCodes ==
  ASSUME NEW e \in {"WorkloadCancelled", "KeyboardInterrupt", "MemoryError",
                    "PsutilError", "OSError", "ValueError", "RuntimeError"}
  PROVE  ExitCode(e) \in {"1", "2", "130"}
  BY DEF ExitCode

(* The verdict on a test is a status. *)
LEMMA JudgeIsStatus ==
  ASSUME NEW hint \in Status, NEW correct \in BOOLEAN, NEW evaluation \in Evaluation
  PROVE  /\ Judge(hint, correct, evaluation) \in Status
         /\ Judge(hint, correct, evaluation) \in {"PASS", "WARN"} =>
              correct /\ evaluation = "passed" /\ hint \in {"PASS", "WARN"}
         /\ hint \in {"PASS", "ERROR"} /\ ~correct =>
              Judge(hint, correct, evaluation) \in {"FAIL", "ERROR"}
  BY DEF Judge, Status, Evaluation

(* How a workload ends is well typed, and an injected fault is no success.   *)
LEMMA EndingsAre ==
  /\ Endings \subseteq [hint : Status, correct : BOOLEAN,
                        exc : {"none", "WorkloadCancelled", "MemoryError"}]
  /\ Test.injected => \A e \in Endings : e.exc = "none" =>
       e.hint \in {"PASS", "ERROR"} /\ ~e.correct
<1> DEFINE E == [hint : Status, correct : BOOLEAN,
                 exc : {"none", "WorkloadCancelled", "MemoryError"}]
           Concluded == {[hint |-> h, correct |-> c, exc |-> "none"] :
                           h \in {"PASS", "WARN"}, c \in BOOLEAN}
           Skip == [hint |-> "SKIP", correct |-> TRUE, exc |-> "none"]
           Wrong == [hint |-> "PASS", correct |-> FALSE, exc |-> "none"]
           Broken == [hint |-> "ERROR", correct |-> FALSE, exc |-> "none"]
           Stopped == [hint |-> "PASS", correct |-> TRUE, exc |-> "WorkloadCancelled"]
           Memory == [hint |-> "PASS", correct |-> TRUE, exc |-> "MemoryError"]
<1>1. Concluded \subseteq E
  BY DEF Status
<1>2. Skip \in E /\ Wrong \in E /\ Broken \in E /\ Stopped \in E /\ Memory \in E
  BY DEF Status
<1>3. Wrong.hint = "PASS" /\ ~Wrong.correct /\ Broken.hint = "ERROR" /\ ~Broken.correct
  OBVIOUS
<1>4. Stopped.exc # "none" /\ Memory.exc # "none"
  OBVIOUS
<1>5. \A e \in Endings : \/ e \in Concluded /\ ~Test.injected
                         \/ e = Skip /\ ~Test.injected
                         \/ e = Wrong \/ e = Broken \/ e = Stopped \/ e = Memory
  <2> SUFFICES ASSUME NEW e \in Endings
               PROVE  \/ e \in Concluded /\ ~Test.injected
                      \/ e = Skip /\ ~Test.injected
                      \/ e = Wrong \/ e = Broken \/ e = Stopped \/ e = Memory
    OBVIOUS
  <2>1. Endings = (IF Test.injected THEN {} ELSE Concluded \cup {Skip})
                  \cup {Wrong, Broken}
                  \cup (IF runToken \/ Test.parallel THEN {Stopped} ELSE {})
                  \cup (IF "unhandled" \in Faults THEN {Memory} ELSE {})
    BY DEF Endings
  <2> HIDE DEF Concluded, Skip, Wrong, Broken, Stopped, Memory
  <2> QED BY <2>1
<1> HIDE DEF Concluded, Skip, Wrong, Broken, Stopped, Memory
<1> QED BY <1>1, <1>2, <1>3, <1>4, <1>5, Zenon

-----------------------------------------------------------------------------
(* Where the run is in its plan.  A test in progress is one of the plan, and *)
(* it is enabled once its sampler has been started.                          *)
PlaceOK ==
  /\ pc \in {"begin", "judge"} \cup InTest => Current <= Len(plan)
  /\ pc \in {"judge"} \cup InTest => Test.enabled
  /\ pc \in {"summary", "exit"} => Len(results) = Len(plan)

LEMMA PlaceInit == Init => PlaceOK
  BY DEF Init, PlaceOK, InTest

LEMMA TypeStep == TypeOK /\ PlaceOK /\ [Next]_vars => TypeOK' /\ PlaceOK'
<1> SUFFICES ASSUME TypeOK, PlaceOK, [Next]_vars PROVE TypeOK' /\ PlaceOK'
  OBVIOUS
<1>0. /\ Len(plan) \in 1 .. MaxTests /\ DOMAIN plan = 1 .. Len(plan)
      /\ \A i \in 1 .. Len(plan) : plan[i] \in Tests
      /\ Len(results) \in Nat /\ MaxTests \in Nat
  BY PlansAre, RunnerAssumption DEF TypeOK
<1> USE <1>0, ExitCodes DEF TypeOK, PlaceOK, InTest, Current
<1>1. CASE UNCHANGED vars
  BY <1>1 DEF vars, Test
<1>2. CASE Inventory
  BY <1>2 DEF Inventory, Leave, Test
<1>3. CASE NextTest
  BY <1>3 DEF NextTest, Leave, Test
<1>4. CASE Begin
  <2>1. Skipped \in Result
    BY DEF Skipped, Result, Status, Evaluation
  <2>2. Append(results, Skipped) \in Seq(Result) /\ Len(Append(results, Skipped)) = Len(results) + 1
    BY <2>1, AppendProperties
  <2>3. CASE Test.enabled
    <3>1. /\ plan' = plan /\ results' = results /\ case' = case
          /\ atCancel' = atCancel /\ saved' = saved
          /\ \/ /\ pc' = "armed" /\ samplers' = samplers \cup {Current}
                /\ UNCHANGED <<raised, runToken, exit>>
             \/ /\ pc' = "exited" /\ samplers' = samplers
                /\ raised' \in {"RuntimeError", "PsutilError"}
                /\ runToken' \in BOOLEAN /\ exit' \in {"1", "2", "130"}
          /\ Current <= Len(plan)
      BY <1>4, <2>3 DEF Begin, Leave
    <3>2. Test' = Test
      BY <3>1 DEF Test
    <3>3. samplers' \subseteq 1 .. Len(plan')
      <4>1. samplers \subseteq 1 .. Len(plan) /\ Current \in 1 .. Len(plan)
        BY <3>1
      <4> QED BY <3>1, <4>1
    <3>4. PlaceOK'
      BY <2>3, <3>1, <3>2
    <3> QED BY <3>1, <3>3, <3>4
  <2>4. CASE ~Test.enabled
    BY <1>4, <2>2, <2>4 DEF Begin, Leave, Test
  <2> QED BY <2>3, <2>4
<1>5. CASE Armed
  BY <1>5 DEF Armed, Case, Status, Test
<1>6. CASE Execute
  <2>1. Endings \subseteq [hint : Status, correct : BOOLEAN,
                           exc : {"none", "WorkloadCancelled", "MemoryError"}]
    BY EndingsAre
  <2> QED BY <1>6, <2>1 DEF Execute, Case, Test
<1>7. CASE StopSampler
  BY <1>7 DEF StopSampler, Leave, Test
<1>8. CASE JudgeTest
  <2>1. ASSUME NEW e \in Evaluation
        PROVE  LET r == Record(Judge(case.hint, case.correct, e), e)
               IN  r \in Seq(Result) /\ Len(r) = Len(results) + 1
    <3>1. [status |-> Judge(case.hint, case.correct, e), hint |-> case.hint,
           correct |-> case.correct, evaluation |-> e] \in Result
      BY JudgeIsStatus DEF Result
    <3> QED BY <3>1, AppendProperties DEF Record
  <2> QED BY <1>8, <2>1 DEF JudgeTest, Leave, Test
<1>9. CASE Save
  BY <1>9 DEF Save, Leave, Test
<1>10. CASE Exit
  BY <1>10 DEF Exit, Test
<1>11. CASE CancelRun
  BY <1>11 DEF CancelRun, Test
<1>12. CASE Interrupt
  BY <1>12 DEF Interrupt, Leave, Test
<1> QED BY <1>1, <1>2, <1>3, <1>4, <1>5, <1>6, <1>7, <1>8, <1>9, <1>10, <1>11, <1>12
        DEF Next, Step

LEMMA Typed == Spec => [](TypeOK /\ PlaceOK)
<1>1. TypeOK /\ PlaceOK /\ [Next]_vars => TypeOK' /\ PlaceOK'
  BY TypeStep
<1> QED BY TypeInit, PlaceInit, <1>1, PTL DEF Spec

-----------------------------------------------------------------------------
(* Samplers.  Between a sampler's start and its stop no other can start, and *)
(* every way out of a test passes through StopSampler, except the two that   *)
(* SamplersJoined names.                                                     *)
SamplersOK ==
  /\ pc \in InTest => samplers = {Current}
  /\ pc \in {"inventory", "next", "begin", "judge", "summary", "exit"} => samplers = {}
  /\ pc = "exited" /\ raised \notin {"KeyboardInterrupt", "RuntimeError"} => samplers = {}

LEMMA SamplersInit == Init => SamplersOK
  BY DEF Init, SamplersOK, InTest

LEMMA SamplersStep == TypeOK /\ SamplersOK /\ [Next]_vars => SamplersOK'
<1> SUFFICES ASSUME TypeOK, SamplersOK, [Next]_vars PROVE SamplersOK'
  OBVIOUS
<1> USE DEF SamplersOK, InTest, Current
<1>1. CASE UNCHANGED vars
  BY <1>1 DEF vars
<1>2. CASE Inventory
  BY <1>2 DEF Inventory, Leave
<1>3. CASE NextTest
  BY <1>3 DEF NextTest, Leave
<1>4. CASE Begin
  BY <1>4 DEF Begin, Leave
<1>5. CASE Armed
  BY <1>5 DEF Armed
<1>6. CASE Execute
  BY <1>6 DEF Execute
<1>7. CASE StopSampler
  BY <1>7 DEF StopSampler, Leave
<1>8. CASE JudgeTest
  BY <1>8 DEF JudgeTest, Leave
<1>9. CASE Save
  BY <1>9 DEF Save, Leave
<1>10. CASE Exit
  BY <1>10 DEF Exit
<1>11. CASE CancelRun
  BY <1>11 DEF CancelRun
<1>12. CASE Interrupt
  BY <1>12 DEF Interrupt, Leave
<1> QED BY <1>1, <1>2, <1>3, <1>4, <1>5, <1>6, <1>7, <1>8, <1>9, <1>10, <1>11, <1>12
        DEF Next, Step

(* For every plan and whatever goes wrong: a test executes beside its own    *)
(* sampler only, and no sampler outlives the run, except after Ctrl+C or a   *)
(* sampler's own RuntimeError.                                               *)
THEOREM SamplersAreJoined == Spec => []SamplersJoined
<1>1. TypeOK /\ SamplersOK /\ [Next]_vars => SamplersOK'
  BY SamplersStep
<1>2. SamplersOK => SamplersJoined
  BY DEF SamplersOK, SamplersJoined, InTest
<1> QED BY Typed, SamplersInit, <1>1, <1>2, PTL DEF Spec

-----------------------------------------------------------------------------
(* Verdicts.  From the end of an injected workload to its verdict the case   *)
(* is one that cannot pass.                                                  *)
CannotPass == case.hint \in {"PASS", "ERROR"} /\ ~case.correct

EarnedOK ==
  /\ PassIsEarned
  /\ pc = "stop" /\ raised = "none" /\ Test.injected => CannotPass
  /\ pc = "judge" /\ Test.injected => CannotPass

LEMMA EarnedInit == Init => EarnedOK
  BY DEF Init, EarnedOK, PassIsEarned

(* The verdicts so far stay, and the new one is earned. *)
LEMMA EarnedAppend ==
  ASSUME TypeOK, PassIsEarned, NEW result \in Result, Current <= Len(plan),
         plan' = plan, results' = Append(results, result),
         result.status \in {"PASS", "WARN"} =>
           Test.enabled /\ result.correct /\ result.evaluation = "passed",
         Test.injected => result.status \in {"FAIL", "ERROR"}
  PROVE  PassIsEarned'
<1>1. /\ DOMAIN results' = 1 .. Len(results) + 1
      /\ \A i \in 1 .. Len(results) : results'[i] = results[i]
      /\ results'[Len(results) + 1] = result
      /\ DOMAIN results = 1 .. Len(results) /\ Len(results) \in Nat
  BY AppendProperties, LenProperties DEF TypeOK
<1> SUFFICES ASSUME NEW i \in DOMAIN results'
             PROVE  /\ results'[i].status \in {"PASS", "WARN"} =>
                         /\ plan[i].enabled
                         /\ results'[i].correct /\ results'[i].evaluation = "passed"
                    /\ plan[i].injected => results'[i].status \in {"FAIL", "ERROR"}
  BY DEF PassIsEarned
<1>2. CASE i \in DOMAIN results
  <2>1. results'[i] = results[i]
    BY <1>1, <1>2
  <2> QED BY <1>2, <2>1, Zenon DEF PassIsEarned
<1>3. CASE i = Current
  <2>1. results'[i] = result /\ plan[i] = Test
    BY <1>1, <1>3 DEF Current, Test
  <2> QED BY <2>1, Zenon
<1> QED BY <1>1, <1>2, <1>3 DEF Current

LEMMA EarnedStep == TypeOK /\ PlaceOK /\ EarnedOK /\ [Next]_vars => EarnedOK'
<1> SUFFICES ASSUME TypeOK, PlaceOK, EarnedOK, [Next]_vars PROVE EarnedOK'
  OBVIOUS
<1>0. UNCHANGED <<plan, results>> => PassIsEarned'
  BY DEF EarnedOK, PassIsEarned
<1>1. CASE UNCHANGED vars
  BY <1>0, <1>1 DEF vars, EarnedOK, CannotPass, Test, Current
<1>2. CASE Inventory
  BY <1>0, <1>2 DEF Inventory, Leave, EarnedOK
<1>3. CASE NextTest
  BY <1>0, <1>3 DEF NextTest, Leave, EarnedOK
<1>4. CASE Begin
  <2>1. CASE UNCHANGED <<plan, results>>
    BY <1>0, <1>4, <2>1 DEF Begin, Leave, EarnedOK
  <2>2. CASE results' = Append(results, Skipped) /\ ~Test.enabled
    <3>1. Current <= Len(plan) /\ plan' = plan /\ pc' # "stop" /\ pc' # "judge"
      BY <1>4, <2>2 DEF Begin, Leave, PlaceOK
    <3>2. ~Test.injected
      <4>1. Current \in 1 .. Len(plan) /\ plan \in Plans
        BY <3>1, PlansAre DEF TypeOK, Current
      <4> QED BY <2>2, <4>1, PlansAre DEF Test
    <3>3. Skipped \in Result /\ Skipped.status = "SKIP"
      BY DEF Skipped, Result, Status, Evaluation
    <3>4. PassIsEarned'
      BY <2>2, <3>1, <3>2, <3>3, EarnedAppend DEF EarnedOK
    <3> QED BY <3>1, <3>4 DEF EarnedOK
  <2> QED BY <1>4, <2>1, <2>2 DEF Begin
<1>5. CASE Armed
  BY <1>0, <1>5 DEF Armed, EarnedOK
<1>6. CASE Execute
  <2>1. PICK e \in Endings : case' = Case(e.hint, e.correct) /\ raised' = e.exc
    BY <1>6 DEF Execute
  <2>2. pc' = "stop" /\ UNCHANGED <<plan, results>> /\ Test' = Test
    BY <1>6 DEF Execute, Test, Current
  <2>3. case'.hint = e.hint /\ case'.correct = e.correct
    BY <2>1 DEF Case
  <2> QED BY <1>0, <2>1, <2>2, <2>3, EndingsAre DEF EarnedOK, CannotPass
<1>7. CASE StopSampler
  <2>1. UNCHANGED <<plan, results, case>> /\ Test' = Test /\ pc' # "stop"
        /\ (pc' = "judge" => pc = "stop" /\ raised = "none")
    BY <1>7 DEF StopSampler, Leave, Test, Current
  <2> QED BY <1>0, <2>1 DEF EarnedOK, CannotPass
<1>8. CASE JudgeTest
  <2>1. CASE UNCHANGED <<plan, results>>
    BY <1>0, <1>8, <2>1 DEF JudgeTest, Leave, EarnedOK
  <2>2. ASSUME NEW evaluation \in Evaluation,
               results' = Record(Judge(case.hint, case.correct, evaluation), evaluation)
        PROVE  PassIsEarned'
    <3> DEFINE status == Judge(case.hint, case.correct, evaluation)
               result == [status |-> status, hint |-> case.hint, correct |-> case.correct,
                          evaluation |-> evaluation]
    <3>1. /\ Current <= Len(plan) /\ Test.enabled /\ plan' = plan
          /\ case.hint \in Status /\ case.correct \in BOOLEAN
          /\ Test.injected => CannotPass
      BY <1>8 DEF JudgeTest, PlaceOK, TypeOK, EarnedOK
    <3>2. /\ status \in Status
          /\ status \in {"PASS", "WARN"} => case.correct /\ evaluation = "passed"
          /\ Test.injected => status \in {"FAIL", "ERROR"}
      BY <3>1, JudgeIsStatus DEF CannotPass
    <3>3. /\ result \in Result /\ result.status = status
          /\ result.correct = case.correct /\ result.evaluation = evaluation
      BY <3>1, <3>2 DEF Result
    <3>4. results' = Append(results, result)
      BY <2>2 DEF Record
    <3> HIDE DEF status, result
    <3> QED BY <3>1, <3>2, <3>3, <3>4, EarnedAppend DEF EarnedOK
  <2> QED BY <1>8, <2>1, <2>2 DEF JudgeTest, Leave, EarnedOK
<1>9. CASE Save
  BY <1>0, <1>9 DEF Save, Leave, EarnedOK
<1>10. CASE Exit
  BY <1>0, <1>10 DEF Exit, EarnedOK
<1>11. CASE CancelRun
  BY <1>0, <1>11 DEF CancelRun, EarnedOK, CannotPass, Test, Current
<1>12. CASE Interrupt
  BY <1>0, <1>12 DEF Interrupt, Leave, EarnedOK
<1> QED BY <1>1, <1>2, <1>3, <1>4, <1>5, <1>6, <1>7, <1>8, <1>9, <1>10, <1>11, <1>12
        DEF Next, Step

(* For every plan, every ending of a workload and every fault around it: a   *)
(* verdict of PASS or WARN is earned, and an injected fault is never missed. *)
THEOREM PassesAreEarned == Spec => []PassIsEarned
<1>1. TypeOK /\ PlaceOK /\ EarnedOK /\ [Next]_vars => EarnedOK'
  BY EarnedStep
<1>2. EarnedOK => PassIsEarned
  BY DEF EarnedOK
<1> QED BY Typed, EarnedInit, <1>1, <1>2, PTL DEF Spec

-----------------------------------------------------------------------------
(* Exit codes.  Only the last step yields 0, after the save, and it looks at *)
(* the statuses of all results.                                              *)
ExitOK ==
  /\ SuccessIsComplete
  /\ pc # "exited" => exit = "none"
  /\ pc = "exit" => saved

LEMMA ExitInit == Init => ExitOK
  BY DEF Init, ExitOK, SuccessIsComplete

LEMMA AggregateIsWorst ==
  ASSUME AggregateStatus(Statuses) \notin {"ERROR", "FAIL"}
  PROVE  \A i \in DOMAIN results : results[i].status \notin {"FAIL", "ERROR"}
<1>1. "ERROR" \notin Statuses /\ "FAIL" \notin Statuses
  BY DEF AggregateStatus
<1> QED BY <1>1 DEF Statuses

LEMMA ExitStep == TypeOK /\ PlaceOK /\ ExitOK /\ [Next]_vars => ExitOK'
<1> SUFFICES ASSUME TypeOK, PlaceOK, ExitOK, [Next]_vars PROVE ExitOK'
  OBVIOUS
<1> USE ExitCodes DEF ExitOK, SuccessIsComplete
<1>1. CASE UNCHANGED vars
  BY <1>1 DEF vars
<1>2. CASE Inventory
  BY <1>2 DEF Inventory, Leave
<1>3. CASE NextTest
  BY <1>3 DEF NextTest, Leave
<1>4. CASE Begin
  BY <1>4 DEF Begin, Leave
<1>5. CASE Armed
  BY <1>5 DEF Armed
<1>6. CASE Execute
  BY <1>6 DEF Execute
<1>7. CASE StopSampler
  <2>1. ASSUME raised # "none" PROVE ExitCode(raised) # "0"
    BY <2>1 DEF TypeOK
  <2> QED BY <1>7, <2>1 DEF StopSampler, Leave
<1>8. CASE JudgeTest
  BY <1>8 DEF JudgeTest, Leave
<1>9. CASE Save
  BY <1>9 DEF Save, Leave
<1>10. CASE Exit
  <2>1. /\ pc = "exit" /\ pc' = "exited" /\ saved /\ UNCHANGED <<plan, results, saved>>
        /\ Len(results) = Len(plan)
    BY <1>10 DEF Exit, PlaceOK
  <2>2. exit' = "0" => AggregateStatus(Statuses) \notin {"ERROR", "FAIL"}
    BY <1>10 DEF Exit
  <2>3. exit' = "0" => \A i \in DOMAIN results : results[i].status \notin {"FAIL", "ERROR"}
    BY <2>2, AggregateIsWorst
  <2> QED BY <2>1, <2>3
<1>11. CASE CancelRun
  BY <1>11 DEF CancelRun
<1>12. CASE Interrupt
  BY <1>12 DEF Interrupt, Leave
<1> QED BY <1>1, <1>2, <1>3, <1>4, <1>5, <1>6, <1>7, <1>8, <1>9, <1>10, <1>11, <1>12
        DEF Next, Step

(* For every plan and every fault: a run that exits with 0 has saved a       *)
(* result for each test of its plan, and none of them failed or errored.     *)
THEOREM SuccessMeansComplete == Spec => []SuccessIsComplete
<1>1. TypeOK /\ PlaceOK /\ ExitOK /\ [Next]_vars => ExitOK'
  BY ExitStep
<1>2. ExitOK => SuccessIsComplete
  BY DEF ExitOK
<1> QED BY Typed, ExitInit, <1>1, <1>2, PTL DEF Spec

-----------------------------------------------------------------------------
(* Cancellation.  The token is read before each test, so only a test that    *)
(* had begun by then adds a result.                                          *)
CancelOK ==
  /\ CancelStopsRun
  /\ ~runToken => atCancel = MaxTests
  /\ pc \in {"begin", "judge"} \cup InTest => Len(results) <= atCancel

LEMMA CancelInit == Init => CancelOK
<1> SUFFICES ASSUME Init PROVE CancelOK
  OBVIOUS
<1>1. Len(results) = 0 /\ atCancel = MaxTests /\ MaxTests \in Nat
  BY RunnerAssumption DEF Init
<1> QED BY <1>1 DEF Init, CancelOK, CancelStopsRun, InTest

LEMMA LeaveCancels ==
  ASSUME NEW e, Leave(e)
  PROVE  pc' = "exited" /\ (~runToken' => ~runToken)
  BY Zenon DEF Leave

LEMMA CancelStep == TypeOK /\ PlaceOK /\ CancelOK /\ [Next]_vars => CancelOK'
<1> SUFFICES ASSUME TypeOK, PlaceOK, CancelOK, [Next]_vars PROVE CancelOK'
  OBVIOUS
<1>0. /\ Len(plan) \in 1 .. MaxTests /\ MaxTests \in Nat
      /\ Len(results) \in Nat /\ atCancel \in 0 .. MaxTests
      /\ Len(results) <= Len(plan)
  BY PlansAre, RunnerAssumption DEF TypeOK
<1> USE <1>0, LeaveCancels DEF CancelOK, CancelStopsRun, InTest
<1>1. CASE UNCHANGED vars
  BY <1>1 DEF vars
<1>2. CASE Inventory
  BY <1>2 DEF Inventory
<1>3. CASE NextTest
  BY <1>3 DEF NextTest
<1>4. CASE Begin
  <2>1. UNCHANGED results \/ (pc' = "next" /\ Len(results') = Len(results) + 1)
    BY <1>4, AppendProperties DEF Begin, TypeOK, Skipped, Result, Status, Evaluation
  <2> QED BY <1>4, <2>1 DEF Begin
<1>5. CASE Armed
  BY <1>5 DEF Armed
<1>6. CASE Execute
  BY <1>6 DEF Execute
<1>7. CASE StopSampler
  BY <1>7 DEF StopSampler
<1>8. CASE JudgeTest
  <2>1. UNCHANGED results \/ (pc' = "next" /\ Len(results') = Len(results) + 1)
    <3>1. ASSUME NEW evaluation \in Evaluation
          PROVE  Len(Record(Judge(case.hint, case.correct, evaluation), evaluation))
                   = Len(results) + 1
      <4>1. [status |-> Judge(case.hint, case.correct, evaluation), hint |-> case.hint,
             correct |-> case.correct, evaluation |-> evaluation] \in Result
        BY JudgeIsStatus DEF Result, TypeOK
      <4> QED BY <4>1, AppendProperties DEF Record, TypeOK
    <3> QED BY <1>8, <3>1 DEF JudgeTest
  <2> QED BY <1>8, <2>1 DEF JudgeTest
<1>9. CASE Save
  BY <1>9 DEF Save
<1>10. CASE Exit
  BY <1>10 DEF Exit
<1>11. CASE CancelRun
  BY <1>11 DEF CancelRun
<1>12. CASE Interrupt
  BY <1>12 DEF Interrupt
<1> QED BY <1>1, <1>2, <1>3, <1>4, <1>5, <1>6, <1>7, <1>8, <1>9, <1>10, <1>11, <1>12
        DEF Next, Step

(* For every plan: after the run's token is cancelled at most the test in    *)
(* progress yields a result.                                                 *)
THEOREM CancellationStops == Spec => []CancelStopsRun
<1>1. TypeOK /\ PlaceOK /\ CancelOK /\ [Next]_vars => CancelOK'
  BY CancelStep
<1>2. CancelOK => CancelStopsRun
  BY DEF CancelOK
<1> QED BY Typed, CancelInit, <1>1, <1>2, PTL DEF Spec
=============================================================================
