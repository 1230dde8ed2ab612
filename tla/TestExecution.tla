---------------------------- MODULE TestExecution ----------------------------
(***************************************************************************)
(* One enabled test, _run_test: the runner starts the sampler, executes a  *)
(* workload (here one of RoundTrip) on its own thread beside the sampling  *)
(* thread, and stops the sampler in a finally clause however the workload  *)
(* has ended.  A deadline, a cancellation from another thread and Ctrl+C   *)
(* come at any time while the workload is under way.                       *)
(***************************************************************************)
EXTENDS TelemetrySampler, RoundTrip

testVars == <<vars, workVars>>

TestInit == Init /\ WorkInit

(* The runner's thread: the sampler's calls around the workload. *)
StartTest == Start /\ UNCHANGED workVars

(* Mutant: sampler.stop() follows the try instead of being its finally.      *)
StopAfterResult == Done /\ ending = "result" /\ SetStop /\ UNCHANGED workVars

StopTest == Done /\ SetStop /\ UNCHANGED workVars
JoinTest == (Join \/ JoinTimeout) /\ UNCHANGED workVars
Work == caller = "started" /\ WorkStep /\ UNCHANGED vars

(* The sampling thread. *)
Sampling == Thread /\ UNCHANGED workVars
SlowSample == SlowReturns /\ UNCHANGED workVars

(* The signals are of no consequence once the workload is done. *)
Disturb == caller = "started" /\ ~Done /\ (Signal \/ Interrupt) /\ UNCHANGED vars

(* Ctrl+C between the sampler's start and the try, between the end of the    *)
(* try and stop(), and during its join.                                      *)
InterruptTest ==
  /\ "interrupt" \in Trouble
  /\ caller = "joining" \/ pc = "limits" \/ Done
  /\ Abandon
  /\ UNCHANGED workVars

TestNext == StartTest \/ StopTest \/ JoinTest \/ Work \/ Sampling \/ SlowSample
            \/ Disturb \/ InterruptTest

(* The operating system schedules the runner's thread and the sampling      *)
(* thread, and file operations return.  Nothing makes a slow psutil call    *)
(* return, a signal arrive or a deadline pass.                              *)
TestSpec ==
  /\ TestInit /\ [][TestNext]_testVars
  /\ WF_testVars(StartTest \/ StopTest \/ JoinTest \/ Work)
  /\ WF_testVars(Sampling)

-----------------------------------------------------------------------------
(* Every test ends: whatever the workload runs into and whatever psutil      *)
(* does, _run_test comes out of the workload and out of stop(), if it is not *)
(* interrupted.                                                              *)
TestEnds == <>(caller = "interrupted" \/ (Done /\ caller \in {"joined", "stuck"}))
=============================================================================
