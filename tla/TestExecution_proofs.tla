------------------------- MODULE TestExecution_proofs -------------------------
(***************************************************************************)
(* Machine-checked proofs about one test: the sampler's promises and the   *)
(* workload's, for every bound on the samples, every size, block size,     *)
(* policy and volume.  A step of the test is a step of the sampler or a    *)
(* step of the workload, so each is proved from its own invariant.         *)
(***************************************************************************)
EXTENDS TestExecution, TLAPS

WorkNext == WorkStep \/ Signal \/ Interrupt

(* A step of the test moves its two parts by steps of their own. *)
LEMMA TestSteps == [TestNext]_testVars => [Next]_vars /\ [WorkNext]_workVars
  BY DEF TestNext, testVars, StartTest, StopTest, JoinTest, Work, Sampling,
     SlowSample, Disturb, InterruptTest, Next, Runner, WorkNext

-----------------------------------------------------------------------------
(* The sampler.  The bound and the stop event are tested before a sample is  *)
(* collected, so a sample on its way still has room; after the stop event it *)
(* is the last one; and a thread that is over appends nothing.               *)

OnItsWay == thread \in {"collect", "slow", "append"}

SamplerOK ==
  /\ TypeOK
  /\ SamplesBounded
  /\ OnItsWay => Len(samples) < MaxSamples
  /\ ReturnedIsFinal
  /\ caller = "new" => thread = "none"
  /\ stopEvent => caller \in {"joining", "joined", "stuck", "interrupted"}
  /\ StopsPromptly
  /\ stopEvent /\ OnItsWay => Len(samples) = atStop

LEMMA SamplerInit == Init => SamplerOK
<1> SUFFICES ASSUME Init PROVE SamplerOK
  OBVIOUS
<1>1. samples \in Seq(Sample) /\ returned \in Seq(Sample) /\ Len(samples) = 0
  BY DEF Init
<1>2. MaxSamples >= 0
  BY SamplerAssumption
<1>3. /\ caller = "new" /\ thread = "none"
      /\ stopEvent \in BOOLEAN /\ ~stopEvent
      /\ reading \in Sample /\ atStop \in Nat
  BY DEF Init, Sample
<1>4. SamplesBounded
  BY <1>1, <1>2 DEF SamplesBounded
<1> QED BY <1>1, <1>3, <1>4 DEF SamplerOK, TypeOK, OnItsWay, ReturnedIsFinal, StopsPromptly

LEMMA SamplerStep == SamplerOK /\ [Next]_vars => SamplerOK'
<1> SUFFICES ASSUME SamplerOK, [Next]_vars PROVE SamplerOK'
  OBVIOUS
<1> USE SamplerAssumption DEF SamplerOK, TypeOK, SamplesBounded, OnItsWay,
        ReturnedIsFinal, StopsPromptly, Sample, Alive
<1>1. CASE UNCHANGED vars
  BY <1>1 DEF vars
<1>2. CASE Start
  BY <1>2 DEF Start
<1>3. CASE SetStop
  BY <1>3 DEF SetStop
<1>4. CASE Join
  BY <1>4 DEF Join
<1>5. CASE JoinTimeout
  BY <1>5 DEF JoinTimeout
<1>6. CASE Check
  BY <1>6 DEF Check
<1>7. CASE Collect
  BY <1>7 DEF Collect
<1>8. CASE SlowReturns
  BY <1>8 DEF SlowReturns
<1>9. CASE AppendSample
  BY <1>9 DEF AppendSample
<1>10. CASE Wake
  BY <1>10 DEF Wake
<1>11. CASE Abandon
  BY <1>11 DEF Abandon
<1> QED BY <1>1, <1>2, <1>3, <1>4, <1>5, <1>6, <1>7, <1>8, <1>9, <1>10, <1>11
        DEF Next, Runner, Thread

(* The sampler keeps at most max_samples samples, keeps its promise about    *)
(* what stop() returns, and adds at most one sample after the stop event,    *)
(* whatever the workload beside it does.                                     *)
THEOREM SamplerKeepsBounds ==
  TestSpec => [](SamplesBounded /\ ReturnedIsFinal /\ StopsPromptly)
<1>1. TestInit => SamplerOK
  BY SamplerInit DEF TestInit
<1>2. SamplerOK /\ [TestNext]_testVars => SamplerOK'
  BY SamplerStep, TestSteps
<1>3. SamplerOK => SamplesBounded /\ ReturnedIsFinal /\ StopsPromptly
  BY DEF SamplerOK
<1> QED BY <1>1, <1>2, <1>3, PTL DEF TestSpec

(* Once stop() has returned, the thread is over and nothing is added to what *)
(* it returned.                                                              *)
THEOREM ReturnedSamplesAreFinal == TestSpec => []ReturnedIsFinal
  BY SamplerKeepsBounds, PTL

-----------------------------------------------------------------------------
(* The workload.  Types first: a phase never goes beyond the size.           *)

LEMMA PhasesAre ==
  ASSUME job \in Jobs
  PROVE  /\ job.kind = "storage" => Phases = <<"write", "read">>
         /\ job.kind = "memory" => Phases = <<"fill", "transform", "read">>
         /\ job.kind = "series" => Phases = <<"sum">>
         /\ job.kind = "storage" => Len(Phases) = 2
         /\ job.kind \in {"storage", "memory", "series"}
         /\ Len(Phases) \in {1, 2, 3} /\ DOMAIN Phases = 1 .. Len(Phases)
         /\ 1 \in DOMAIN Phases
         /\ job.size \in Nat \ {0} /\ job.free \in Nat
<1>1. /\ job.kind \in {"storage", "memory", "series"}
      /\ job.size \in Nat \ {0} /\ job.free \in Nat
  BY RoundTripAssumption DEF Jobs
<1>2. CASE job.kind = "storage"
  <2>1. Phases = <<"write", "read">>
    BY <1>2 DEF Phases
  <2> QED BY <1>1, <1>2, <2>1
<1>3. CASE job.kind = "memory"
  <2>1. Phases = <<"fill", "transform", "read">>
    BY <1>3 DEF Phases
  <2> QED BY <1>1, <1>3, <2>1
<1>4. CASE job.kind = "series"
  <2>1. Phases = <<"sum">>
    BY <1>4 DEF Phases
  <2> QED BY <1>1, <1>4, <2>1
<1> QED BY <1>1, <1>2, <1>3, <1>4

LEMMA LengthFits ==
  ASSUME WorkTypeOK
  PROVE  /\ processed[phase] \in 0 .. job.size
         /\ Length \in 0 .. Block
         /\ processed[phase] + Length \in 0 .. job.size
         /\ Length = 0 => processed[phase] = job.size
<1>1. processed[phase] \in 0 .. job.size /\ job.size \in Nat
  BY PhasesAre DEF WorkTypeOK
<1>2. WholeBlock \in 1 .. Block
  <2>1. (processed[phase] + 1) % Block \in 0 .. Block - 1
    BY <1>1, RoundTripAssumption
  <2> QED BY <2>1, RoundTripAssumption DEF WholeBlock
<1> QED BY <1>1, <1>2, RoundTripAssumption DEF Length

(* A turn of the loop goes through no more than its block, and through less  *)
(* only where a file has become short.                                       *)
LEMMA GoneFits ==
  ASSUME WorkTypeOK, NEW n \in Gone
  PROVE  /\ n \in 0 .. Length
         /\ processed[phase] + n \in 0 .. job.size
         /\ n # Length => job.kind = "storage" /\ Phases[phase] = "read"
<1>1. Length \in Nat /\ processed[phase] \in Nat /\ job.size \in Nat
      /\ processed[phase] + Length \in 0 .. job.size
  BY LengthFits, PhasesAre, RoundTripAssumption DEF WorkTypeOK
<1>2. CASE Shortened
  BY <1>1, <1>2 DEF Gone, Shortened
<1>3. CASE ~Shortened
  BY <1>1, <1>3 DEF Gone
<1> QED BY <1>2, <1>3

LEMMA WorkTypeInit == WorkInit => WorkTypeOK
<1> SUFFICES ASSUME WorkInit PROVE WorkTypeOK
  OBVIOUS
<1>1. job \in Jobs
  BY DEF WorkInit
<1>2. phase \in DOMAIN Phases /\ processed \in [DOMAIN Phases -> 0 .. job.size]
  BY <1>1, PhasesAre DEF WorkInit
<1> QED BY <1>1, <1>2 DEF WorkInit, WorkTypeOK

LEMMA WorkTypeStep == WorkTypeOK /\ [WorkNext]_workVars => WorkTypeOK'
<1> SUFFICES ASSUME WorkTypeOK, [WorkNext]_workVars PROVE WorkTypeOK'
  OBVIOUS
<1> USE DEF progress, signals
<1>0. job' = job /\ Phases' = Phases
  BY DEF WorkNext, workVars, WorkStep, CheckLimits, CheckToken, CheckClock, Acquire,
     Process, Cleanup, Signal, Expire, CancelRun, Interrupt, Phases
<1>1. CASE UNCHANGED workVars
  BY <1>0, <1>1 DEF workVars, WorkTypeOK
<1>2. CASE CheckLimits
  BY <1>0, <1>2 DEF CheckLimits, RootFails, Raise, WorkTypeOK
<1>3. CASE CheckToken
  BY <1>0, <1>3 DEF CheckToken, Raise, WorkTypeOK
<1>4. CASE CheckClock
  BY <1>0, <1>4 DEF CheckClock, Raise, WorkTypeOK
<1>5. CASE Acquire
  BY <1>0, <1>5 DEF Acquire, FirstStep, Raise, WorkTypeOK
<1>6. CASE Process
  <2>1. processed' \in [DOMAIN Phases -> 0 .. job.size]
    BY <1>6, GoneFits DEF Process, WorkTypeOK
  <2>2. late' \in Nat
    BY <1>6, LengthFits, GoneFits, RoundTripAssumption DEF Process, WorkTypeOK
  <2>3. phase' \in {phase, phase + 1} /\ (phase' # phase => phase < Len(Phases))
    BY <1>6 DEF Process, Conclude
  <2>4. phase' \in DOMAIN Phases
    BY <2>3, PhasesAre DEF WorkTypeOK
  <2>5. /\ pc' \in {"token", "cleanup", "done"}
        /\ ending' \in {ending, "result", "os"}
    BY <1>6 DEF Process, Conclude, Raise
  <2>6. sound' \in BOOLEAN /\ correct' \in BOOLEAN
    BY <1>6 DEF Process, Conclude, WorkTypeOK
  <2> QED BY <1>0, <1>6, <2>1, <2>2, <2>4, <2>5, <2>6 DEF Process, WorkTypeOK
<1>7. CASE Cleanup
  BY <1>0, <1>7 DEF Cleanup, WorkTypeOK
<1>8. CASE Expire
  BY <1>0, <1>8 DEF Expire, WorkTypeOK
<1>9. CASE CancelRun
  BY <1>0, <1>9 DEF CancelRun, WorkTypeOK
<1>10. CASE Interrupt
  BY <1>0, <1>10 DEF Interrupt, Raise, WorkTypeOK
<1> QED BY <1>1, <1>2, <1>3, <1>4, <1>5, <1>6, <1>7, <1>8, <1>9, <1>10
        DEF WorkNext, WorkStep, Signal

-----------------------------------------------------------------------------
(* The directory.  A storage workload that has passed the limits leaves the  *)
(* reserve free; its directory exists from Acquire to the finally clause,    *)
(* and exceptions on the way end in that clause.                             *)

Admitted ==
  /\ job.kind = "storage" => job.size + Reserve <= job.free
  /\ job.kind # "series" => job.size <= job.limit /\ job.size <= MaxBytes

DirectoryOK ==
  /\ directory # "none" => job.kind = "storage"
  /\ pc \notin {"limits", "done"} \/ directory # "none" => Admitted
  /\ pc = "limits" \/ (after = "acquire" /\ pc # "done") => directory = "none"
  /\ ending = "limit" => pc = "done" /\ directory = "none"
  /\ pc = "acquire" => after = "acquire"
  /\ directory = "made" => pc # "done"
  /\ pc = "cleanup" => directory = "made"
  /\ directory = "left" => pc = "done" /\ ending \in {"rmtree", "interrupt"}

LEMMA DirectoryInit == WorkInit => DirectoryOK
  BY DEF WorkInit, DirectoryOK

LEMMA DirectoryStep == WorkTypeOK /\ DirectoryOK /\ [WorkNext]_workVars => DirectoryOK'
<1> SUFFICES ASSUME WorkTypeOK, DirectoryOK, [WorkNext]_workVars PROVE DirectoryOK'
  OBVIOUS
<1> USE DEF DirectoryOK, progress, signals
<1>0. job' = job /\ (Admitted' <=> Admitted)
  BY DEF WorkNext, workVars, WorkStep, CheckLimits, CheckToken, CheckClock, Acquire,
     Process, Cleanup, Signal, Expire, CancelRun, Interrupt, Admitted
<1>1. CASE UNCHANGED workVars
  BY <1>0, <1>1 DEF workVars
<1>2. CASE CheckLimits
  <2>1. directory = "none" /\ directory' = "none"
    BY <1>2 DEF CheckLimits
  <2>2. \/ pc' = "done" /\ ending' \in {"limit", "os"}
        \/ pc' = "token" /\ ending' = ending /\ Admitted
    <3>1. /\ job.size \in Nat /\ job.free \in Nat /\ job.limit \in Nat
          /\ MaxBytes \in Nat /\ Reserve \in Nat
      BY RoundTripAssumption DEF WorkTypeOK, Jobs
    <3>2. ~(job.size > CaseMaximum) => job.size <= job.limit /\ job.size <= MaxBytes
      BY <3>1 DEF CaseMaximum
    <3>3. ~(job.free < job.size + Reserve) => job.size + Reserve <= job.free
      BY <3>1
    <3>4. ~Refused /\ ~NoSpace => Admitted
      BY <3>2, <3>3 DEF Refused, NoSpace, Admitted
    <3> QED BY <1>2, <2>1, <3>4 DEF CheckLimits, RootFails, Raise
  <2> QED BY <1>0, <1>2, <2>1, <2>2 DEF CheckLimits
<1>3. CASE CheckToken
  BY <1>0, <1>3 DEF CheckToken, Raise
<1>4. CASE CheckClock
  <2>1. after \in {"acquire", "block"} /\ UNCHANGED <<after, directory>>
    BY <1>4 DEF CheckClock, WorkTypeOK
  <2> QED BY <1>0, <1>4, <2>1 DEF CheckClock, Raise
<1>5. CASE Acquire
  BY <1>0, <1>5 DEF Acquire, FirstStep, Raise
<1>6. CASE Process
  <2>1. /\ pc = "block" /\ UNCHANGED <<after, directory>>
        /\ \/ pc' = "token" /\ ending' = ending
           \/ /\ pc' = IF directory = "made" THEN "cleanup" ELSE "done"
              /\ ending' \in {"result", "os"}
    BY <1>6 DEF Process, Conclude, Raise
  <2> QED BY <1>0, <2>1
<1>7. CASE Cleanup
  BY <1>0, <1>7 DEF Cleanup
<1>8. CASE Expire
  BY <1>0, <1>8 DEF Expire
<1>9. CASE CancelRun
  BY <1>0, <1>9 DEF CancelRun
<1>10. CASE Interrupt
  BY <1>0, <1>10 DEF Interrupt, Raise, Done
<1> QED BY <1>1, <1>2, <1>3, <1>4, <1>5, <1>6, <1>7, <1>8, <1>9, <1>10
        DEF WorkNext, WorkStep, Signal

(* The ending.  Nobody but the workload's own deadline cancels its token,    *)
(* and that ends it: so only the run's token can cancel it.                  *)
Untouched == \A i \in DOMAIN Phases : processed[i] = 0

EndingOK ==
  /\ ending # "none" <=> pc \in {"cleanup", "done"}
  /\ token => pc \in {"cleanup", "done"}
  /\ ending = "cancelled" => runToken
  /\ ending = "timeout" => expired
  /\ pc = "limits" \/ ending = "limit" => Untouched

LEMMA EndingInit == WorkInit => EndingOK
  BY DEF WorkInit, EndingOK, Untouched

LEMMA EndingStep == WorkTypeOK /\ EndingOK /\ [WorkNext]_workVars => EndingOK'
<1> SUFFICES ASSUME WorkTypeOK, EndingOK, [WorkNext]_workVars PROVE EndingOK'
  OBVIOUS
<1> USE DEF progress, signals
<1>0. job' = job /\ Phases' = Phases
  BY DEF WorkNext, workVars, WorkStep, CheckLimits, CheckToken, CheckClock, Acquire,
     Process, Cleanup, Signal, Expire, CancelRun, Interrupt, Phases
<1>u. processed' = processed => (Untouched' <=> Untouched)
  BY <1>0 DEF Untouched
<1>1. CASE UNCHANGED workVars
  BY <1>1, <1>u DEF workVars, EndingOK
<1>2. CASE CheckLimits
  <2>1. /\ pc = "limits" /\ UNCHANGED <<processed, signals>>
        /\ \/ pc' = "token" /\ ending' = ending
           \/ pc' \in {"cleanup", "done"} /\ ending' \in {"limit", "os"}
    BY <1>2 DEF CheckLimits, RootFails, Raise
  <2> QED BY <1>u, <2>1 DEF EndingOK
<1>3. CASE CheckToken
  <2>1. CASE Cancelled
    <3>1. runToken
      BY <1>3, <2>1 DEF CheckToken, Cancelled, EndingOK
    <3> QED BY <1>3, <1>u, <2>1, <3>1 DEF CheckToken, Raise, EndingOK
  <2>2. CASE ~Cancelled
    BY <1>3, <1>u, <2>2 DEF CheckToken, EndingOK
  <2> QED BY <2>1, <2>2
<1>4. CASE CheckClock
  <2>1. CASE expired
    BY <1>4, <1>u, <2>1 DEF CheckClock, Raise, EndingOK
  <2>2. CASE ~expired
    <3>1. pc' \in {"acquire", "block"}
      BY <1>4, <2>2 DEF CheckClock, WorkTypeOK
    <3> QED BY <1>4, <1>u, <2>2, <3>1 DEF CheckClock, EndingOK
  <2> QED BY <2>1, <2>2
<1>5. CASE Acquire
  BY <1>5, <1>u DEF Acquire, FirstStep, Raise, EndingOK
<1>6. CASE Process
  <2>1. ending = "none" /\ pc = "block" /\ ~token
    BY <1>6 DEF Process, EndingOK
  <2>2. /\ UNCHANGED signals
        /\ \/ pc' = "token" /\ ending' = "none"
           \/ pc' \in {"cleanup", "done"} /\ ending' \in {"result", "os"}
    BY <1>6, <2>1 DEF Process, Conclude, Raise
  <2> QED BY <2>1, <2>2 DEF EndingOK
<1>7. CASE Cleanup
  BY <1>7, <1>u DEF Cleanup, EndingOK
<1>8. CASE Expire
  BY <1>8, <1>u DEF Expire, EndingOK
<1>9. CASE CancelRun
  BY <1>9, <1>u DEF CancelRun, EndingOK
<1>10. CASE Interrupt
  <2>1. pc' \in {"cleanup", "done"} /\ ending' = "interrupt"
    BY <1>10 DEF Interrupt, Raise
  <2> QED BY <1>10, <2>1 DEF Interrupt, EndingOK
<1> QED BY <1>1, <1>2, <1>3, <1>4, <1>5, <1>6, <1>7, <1>8, <1>9, <1>10
        DEF WorkNext, WorkStep, Signal

(* The delay.  Bytes gone through late mean that a signal was there, and the *)
(* two checks before the next block stop at every signal.                    *)
LateOK ==
  /\ late <= Block
  /\ late > 0 => Signalled
  /\ pc = "clock" /\ late > 0 => expired
  /\ pc \in {"limits", "acquire", "block"} => late = 0

LEMMA LateInit == WorkInit => LateOK
  BY RoundTripAssumption DEF WorkInit, LateOK

LEMMA LateStep == WorkTypeOK /\ LateOK /\ [WorkNext]_workVars => LateOK'
<1> SUFFICES ASSUME WorkTypeOK, LateOK, [WorkNext]_workVars PROVE LateOK'
  OBVIOUS
<1> USE DEF LateOK, Signalled, Cancelled, progress, signals
<1>1. CASE UNCHANGED workVars
  BY <1>1 DEF workVars
<1>2. CASE CheckLimits
  BY <1>2 DEF CheckLimits, RootFails, Raise
<1>3. CASE CheckToken
  BY <1>3 DEF CheckToken, Raise
<1>4. CASE CheckClock
  <2>1. CASE expired
    BY <2>1, <1>4 DEF CheckClock, Raise
  <2>2. CASE ~expired
    <3>1. late = 0 /\ after \in {"acquire", "block"}
      BY <2>2, <1>4 DEF CheckClock, WorkTypeOK
    <3> QED BY <2>2, <3>1, <1>4 DEF CheckClock
  <2> QED BY <2>1, <2>2
<1>5. CASE Acquire
  BY <1>5 DEF Acquire, FirstStep, Raise
<1>6. CASE Process
  <2>1. late = 0 /\ Block \in Nat
    BY <1>6, RoundTripAssumption DEF Process
  <2>2. /\ pc' \in {"token", "cleanup", "done"} /\ UNCHANGED signals
        /\ \/ late' = late
           \/ Signalled /\ \E n \in Gone : late' = late + n
    BY <1>6 DEF Process, Conclude, Raise
  <2>3. \A n \in Gone : n \in 0 .. Block
    BY GoneFits, LengthFits, <2>1
  <2> QED BY <2>1, <2>2, <2>3
<1>7. CASE Cleanup
  BY <1>7 DEF Cleanup
<1>8. CASE Expire
  BY <1>8 DEF Expire
<1>9. CASE CancelRun
  BY <1>9 DEF CancelRun
<1>10. CASE Interrupt
  BY <1>10 DEF Interrupt, Raise
<1> QED BY <1>1, <1>2, <1>3, <1>4, <1>5, <1>6, <1>7, <1>8, <1>9, <1>10
        DEF WorkNext, WorkStep, Signal

(* The coverage.  A phase is left only when all its bytes are gone through,  *)
(* and the last one too unless the file has become short, which is unsound.  *)
LastComplete == sound \/ job.kind # "storage" => processed[phase] = job.size

CoveredOK ==
  /\ \A i \in DOMAIN Phases : i < phase => processed[i] = job.size
  /\ ending = "result" => phase = Len(Phases) /\ LastComplete
  /\ Done /\ ending = "result" => (correct <=> sound)

LEMMA CoveredInit == WorkInit => CoveredOK
  BY DEF WorkInit, CoveredOK, Done, Phases

LEMMA CoveredStep == WorkTypeOK /\ EndingOK /\ CoveredOK /\ [WorkNext]_workVars => CoveredOK'
<1> SUFFICES ASSUME WorkTypeOK, EndingOK, CoveredOK, [WorkNext]_workVars PROVE CoveredOK'
  OBVIOUS
<1> USE DEF CoveredOK, LastComplete, EndingOK, Phases, progress, signals, Done
<1>1. CASE UNCHANGED workVars
  BY <1>1 DEF workVars
<1>2. CASE CheckLimits
  BY <1>2 DEF CheckLimits, RootFails, Raise
<1>3. CASE CheckToken
  BY <1>3 DEF CheckToken, Raise
<1>4. CASE CheckClock
  BY <1>4 DEF CheckClock, Raise
<1>5. CASE Acquire
  BY <1>5 DEF Acquire, FirstStep, Raise
<1>6. CASE Process
  <2> USE DEF ChecksOnceMore
  <2>0. /\ Phases' = Phases /\ job' = job /\ ending = "none"
        /\ phase \in 1 .. Len(Phases) /\ Len(Phases) \in Nat /\ job.size \in Nat
    BY <1>6, PhasesAre DEF Process, WorkTypeOK
  <2>1. CASE Raise("os") /\ UNCHANGED progress
    BY <2>0, <2>1 DEF Raise
  <2>2. ASSUME NEW n \in Gone, processed' = [processed EXCEPT ![phase] = @ + n],
               sound' \in {sound /\ n = Length,
                          sound /\ n = Length /\ ~("damage" \in Trouble /\ n > 0)},
               \/ UNCHANGED <<phase, ending>>
               \/ /\ phase < Len(Phases) /\ phase' = phase + 1 /\ UNCHANGED ending
                  /\ ~ChecksOnceMore => ~(processed'[phase] < job.size)
                  /\ ChecksOnceMore => ~(n > 0)
               \/ /\ ~(phase < Len(Phases)) /\ Conclude /\ UNCHANGED phase
                  /\ ~ChecksOnceMore => ~(processed'[phase] < job.size)
                  /\ ChecksOnceMore => ~(n > 0)
        PROVE  CoveredOK'
    <3>1. /\ n \in 0 .. Length /\ processed[phase] + n \in 0 .. job.size
          /\ n # Length => job.kind = "storage" /\ Phases[phase] = "read"
      BY <2>2, GoneFits
    <3>2. processed'[phase] = processed[phase] + n
      BY <2>2 DEF WorkTypeOK
    <3>3. ASSUME NEW i \in DOMAIN Phases, i < phase PROVE processed'[i] = job.size
      BY <2>0, <2>2, <3>3 DEF WorkTypeOK
    <3>4. ASSUME ~ChecksOnceMore => ~(processed'[phase] < job.size),
                 ChecksOnceMore => ~(n > 0),
                 n = Length
          PROVE  processed'[phase] = job.size
      <4> HIDE DEF CoveredOK, EndingOK, Phases, ChecksOnceMore
      <4>1. CASE ChecksOnceMore
        BY <2>0, <3>1, <3>2, <3>4, <4>1, LengthFits
      <4>2. CASE ~ChecksOnceMore
        BY <2>0, <3>1, <3>2, <3>4, <4>2
      <4> QED BY <4>1, <4>2
    <3>5. CASE UNCHANGED <<phase, ending>>
      BY <2>0, <3>3, <3>5
    <3>6. CASE /\ phase < Len(Phases) /\ phase' = phase + 1 /\ UNCHANGED ending
               /\ ~ChecksOnceMore => ~(processed'[phase] < job.size)
               /\ ChecksOnceMore => ~(n > 0)
      <4>1. n = Length
        BY <2>0, <3>1, <3>6, PhasesAre DEF WorkTypeOK
      <4>2. ASSUME NEW i \in DOMAIN Phases, i < phase' PROVE processed'[i] = job.size
        BY <2>0, <3>3, <3>4, <3>6, <4>1, <4>2, PhasesAre DEF WorkTypeOK
      <4> QED BY <2>0, <3>6, <4>2
    <3>7. CASE /\ ~(phase < Len(Phases)) /\ Conclude /\ UNCHANGED phase
               /\ ~ChecksOnceMore => ~(processed'[phase] < job.size)
               /\ ChecksOnceMore => ~(n > 0)
      <4>1. phase' = Len(Phases)'
        BY <2>0, <3>7
      <4>2. LastComplete'
        <5>1. sound' \/ job.kind # "storage" => n = Length
          BY <2>2, <3>1
        <5> QED BY <2>0, <3>4, <3>7, <5>1
      <4>3. (Done /\ ending = "result" => (correct <=> sound))'
        BY <3>7 DEF Conclude
      <4> QED BY <2>0, <3>3, <3>7, <4>1, <4>2, <4>3
    <3> QED BY <2>2, <3>5, <3>6, <3>7
  <2> HIDE DEF CoveredOK, EndingOK, Phases, ChecksOnceMore
  <2> QED BY <1>6, <2>1, <2>2 DEF Process
<1>7. CASE Cleanup
  BY <1>7 DEF Cleanup
<1>8. CASE Expire
  BY <1>8 DEF Expire
<1>9. CASE CancelRun
  BY <1>9 DEF CancelRun
<1>10. CASE Interrupt
  BY <1>10 DEF Interrupt, Raise
<1> QED BY <1>1, <1>2, <1>3, <1>4, <1>5, <1>6, <1>7, <1>8, <1>9, <1>10
        DEF WorkNext, WorkStep, Signal

-----------------------------------------------------------------------------
(* The limits.  Nothing is gone through before they are passed.              *)
WithinOK == Untouched \/ Admitted

LEMMA WithinInit == WorkInit => WithinOK
  BY DEF WorkInit, WithinOK, Untouched

LEMMA WithinStep == WorkTypeOK /\ DirectoryOK /\ WithinOK /\ [WorkNext]_workVars => WithinOK'
<1> SUFFICES ASSUME WorkTypeOK, DirectoryOK, WithinOK, [WorkNext]_workVars PROVE WithinOK'
  OBVIOUS
<1>0. job' = job
  BY DEF WorkNext, workVars, WorkStep, CheckLimits, CheckToken, CheckClock, Acquire,
     Process, Cleanup, Signal, Expire, CancelRun, Interrupt
<1>1. CASE Process
  <2>1. Admitted
    BY <1>1 DEF Process, DirectoryOK
  <2> QED BY <1>0, <2>1 DEF Admitted, WithinOK
<1>2. CASE ~Process
  <2>1. processed' = processed
    BY <1>2 DEF WorkNext, workVars, WorkStep, CheckLimits, CheckToken, CheckClock, Acquire,
       Cleanup, Signal, Expire, CancelRun, Interrupt, progress
  <2> QED BY <1>0, <2>1 DEF WithinOK, Untouched, Admitted, Phases
<1> QED BY <1>1, <1>2

WorkOK == WorkTypeOK /\ DirectoryOK /\ EndingOK /\ LateOK /\ CoveredOK /\ WithinOK

(* Whatever goes wrong in one of the workloads beside the sampler,           *)
(* its directory is removed, the limits and the disk reserve are kept, a     *)
(* result covers every byte of every phase, a signal ends it within a block  *)
(* and the error that leaves it names its cause.                             *)
THEOREM WorkloadKeepsPromises ==
  TestSpec => [](NothingLeft /\ LimitsKept /\ ResultCovers /\ StopsSoon /\ EndingHasCause)
<1>1. TestInit => WorkOK
  BY WorkTypeInit, DirectoryInit, EndingInit, LateInit, CoveredInit, WithinInit DEF TestInit, WorkOK
<1>2. WorkOK /\ [TestNext]_testVars => WorkOK'
  BY TestSteps, WorkTypeStep, DirectoryStep, EndingStep, LateStep, CoveredStep,
     WithinStep DEF WorkOK
<1>3. ASSUME WorkOK
      PROVE  NothingLeft /\ LimitsKept /\ ResultCovers /\ StopsSoon /\ EndingHasCause
  <2>1. NothingLeft
    BY <1>3 DEF WorkOK, WorkTypeOK, DirectoryOK, NothingLeft, Done
  <2>2. LimitsKept
    <3>1. directory # "none" => job.size + Reserve <= job.free
      BY <1>3 DEF WorkOK, DirectoryOK, Admitted
    <3>2. job.size \in Nat /\ job.limit \in Nat /\ job.free \in Nat
      BY <1>3, RoundTripAssumption DEF WorkOK, WorkTypeOK, Jobs
    <3>3. \A i \in DOMAIN Phases : processed[i] \in 0 .. job.size
      BY <1>3 DEF WorkOK, WorkTypeOK
    <3>4. directory # "none" => processed[1] + Reserve <= job.free
      <4>1. processed[1] \in 0 .. job.size
        <5>1. job \in Jobs
          BY <1>3 DEF WorkOK, WorkTypeOK
        <5> QED BY <5>1, <3>3, PhasesAre
      <4> QED BY <3>1, <3>2, <4>1, RoundTripAssumption
    <3>5. ASSUME job.kind # "series", NEW i \in DOMAIN Phases
          PROVE  processed[i] <= job.limit /\ processed[i] <= MaxBytes
      BY <1>3, <3>2, <3>3, <3>5, RoundTripAssumption DEF WorkOK, WithinOK, Untouched, Admitted
    <3> QED BY <3>4, <3>5 DEF LimitsKept
  <2>3. ResultCovers
    <3> SUFFICES ASSUME Done, ending = "result"
                 PROVE  /\ processed[1] = job.size
                        /\ job.kind # "storage" \/ correct =>
                             \A i \in DOMAIN Phases : processed[i] = job.size
                        /\ correct <=> sound
      BY DEF ResultCovers
    <3>1. /\ \A i \in DOMAIN Phases : i < phase => processed[i] = job.size
          /\ phase = Len(Phases) /\ LastComplete /\ (correct <=> sound)
      BY <1>3 DEF WorkOK, CoveredOK
    <3>2. /\ DOMAIN Phases = 1 .. Len(Phases) /\ Len(Phases) \in Nat
          /\ job.kind = "storage" => Len(Phases) = 2
          /\ 1 \in DOMAIN Phases
      <4>1. job \in Jobs
        BY <1>3 DEF WorkOK, WorkTypeOK
      <4> QED BY <4>1, PhasesAre
    <3>3. ASSUME LastComplete, sound \/ job.kind # "storage", NEW i \in DOMAIN Phases
          PROVE  processed[i] = job.size
      BY <3>1, <3>2, <3>3 DEF LastComplete
    <3> QED BY <3>1, <3>2, <3>3
  <2>4. StopsSoon
    BY <1>3 DEF WorkOK, LateOK, StopsSoon
  <2>5. EndingHasCause
    BY <1>3 DEF WorkOK, DirectoryOK, EndingOK, Untouched, EndingHasCause
  <2> QED BY <2>1, <2>2, <2>3, <2>4, <2>5
<1> QED BY <1>1, <1>2, <1>3, PTL DEF TestSpec
(* No size beyond the detected limit, the limit of the test, or the disk     *)
(* space above the reserve is ever processed.                                *)
THEOREM LimitsAreKept == TestSpec => []LimitsKept
  BY WorkloadKeepsPromises, PTL

(* A result stands for every byte of every phase, and its verdict is true.   *)
THEOREM ResultsCoverEverything == TestSpec => []ResultCovers
  BY WorkloadKeepsPromises, PTL

(* At most one more block follows a cancellation or the deadline.            *)
THEOREM SignalsEndTheWork == TestSpec => []StopsSoon
  BY WorkloadKeepsPromises, PTL

(* The error that leaves the workload names its cause.                       *)
THEOREM ErrorsHaveTheirCause == TestSpec => []EndingHasCause
  BY WorkloadKeepsPromises, PTL
=============================================================================
