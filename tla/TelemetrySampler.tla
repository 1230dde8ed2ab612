-------------------------- MODULE TelemetrySampler --------------------------
(***************************************************************************)
(* A PsutilTelemetrySampler: the daemon thread that collects samples while *)
(* a test runs, against the runner's thread, which starts it, runs the     *)
(* test, sets the stop event and joins the thread with a timeout.          *)
(***************************************************************************)
EXTENDS Naturals, Sequences

CONSTANTS
  MaxSamples, \* the sampler's bound, max_samples
  Readings    \* what collecting a sample may come to, a subset of ReadingKinds

(* A sample; an exception that becomes an error sample; an exception nobody  *)
(* catches (pydantic rejects a value); a psutil call longer than the join.   *)
ReadingKinds == {"sample", "error", "invalid", "slow"}

ASSUME SamplerAssumption ==
  /\ MaxSamples \in Nat \ {0}
  /\ Readings \subseteq ReadingKinds
  /\ "sample" \in Readings

VARIABLES
  caller,    \* the runner: "new", "started", "joining", "joined", "stuck"
             \* or "interrupted"
  thread,    \* "none", "check", "collect", "slow", "append", "wait", "ended", "dead"
  reading,   \* the sample about to be appended
  stopEvent, \* the stop event is set
  samples,   \* the list of samples
  returned,  \* what stop() returned
  atStop     \* length of samples when the stop event was set

vars == <<caller, thread, reading, stopEvent, samples, returned, atStop>>

Init ==
  /\ caller = "new"
  /\ thread = "none"
  /\ reading = "sample"
  /\ stopEvent = FALSE
  /\ samples = << >>
  /\ returned = << >>
  /\ atStop = 0

Alive == thread \notin {"none", "ended", "dead"}

Start ==
  /\ caller = "new"
  /\ caller' = "started"
  /\ thread' = "check"
  /\ UNCHANGED <<reading, stopEvent, samples, returned, atStop>>

SetStop ==
  /\ caller = "started"
  /\ caller' = "joining"
  /\ stopEvent' = TRUE
  /\ atStop' = Len(samples)
  /\ UNCHANGED <<thread, reading, samples, returned>>

(* Mutant: stop() returns the samples without joining the thread. *)
JoinNot ==
  /\ caller = "joining"
  /\ caller' = "joined"
  /\ returned' = samples
  /\ UNCHANGED <<thread, reading, stopEvent, samples, atStop>>

Join ==
  /\ caller = "joining"
  /\ ~Alive
  /\ caller' = "joined"
  /\ returned' = samples
  /\ UNCHANGED <<thread, reading, stopEvent, samples, atStop>>

(* Only a psutil call that hangs outlasts the join: a waiting thread is      *)
(* woken by the stop event.                                                  *)
JoinTimeout ==
  /\ caller = "joining"
  /\ thread = "slow"
  /\ caller' = "stuck"
  /\ UNCHANGED <<thread, reading, stopEvent, samples, returned, atStop>>

(* Ctrl+C reaches the runner outside of the try, on either side of the stop  *)
(* event: the join is cut short or never made.                               *)
Abandon ==
  /\ caller \in {"started", "joining"}
  /\ caller' = "interrupted"
  /\ UNCHANGED <<thread, reading, stopEvent, samples, returned, atStop>>

-----------------------------------------------------------------------------
(* Mutant: the loop only looks at the bound. *)
CheckBoundOnly ==
  /\ thread = "check"
  /\ thread' = IF Len(samples) < MaxSamples THEN "collect" ELSE "ended"
  /\ UNCHANGED <<caller, reading, stopEvent, samples, returned, atStop>>

Check ==
  /\ thread = "check"
  /\ thread' = IF ~stopEvent /\ Len(samples) < MaxSamples THEN "collect" ELSE "ended"
  /\ UNCHANGED <<caller, reading, stopEvent, samples, returned, atStop>>

Collect ==
  /\ thread = "collect"
  /\ \E kind \in Readings :
       /\ thread' = CASE kind = "invalid" -> "dead"
                      [] kind = "slow"    -> "slow"
                      [] OTHER            -> "append"
       /\ reading' = IF kind = "error" THEN "error" ELSE "sample"
  /\ UNCHANGED <<caller, stopEvent, samples, returned, atStop>>

(* A slow call may still fail, or yield a value that is rejected. *)
SlowReturns ==
  /\ thread = "slow"
  /\ thread' \in {"append", "dead"}
  /\ reading' \in {"sample", "error"}
  /\ UNCHANGED <<caller, stopEvent, samples, returned, atStop>>

AppendSample ==
  /\ thread = "append"
  /\ samples' = Append(samples, reading)
  /\ thread' = "wait"
  /\ UNCHANGED <<caller, reading, stopEvent, returned, atStop>>

(* The interval is over, or the stop event ends the wait. *)
Wake ==
  /\ thread = "wait"
  /\ thread' = "check"
  /\ UNCHANGED <<caller, reading, stopEvent, samples, returned, atStop>>

Runner == Start \/ SetStop \/ Join \/ JoinTimeout
Thread == Check \/ Collect \/ AppendSample \/ Wake
Next == Runner \/ Thread \/ SlowReturns \/ Abandon

Spec == Init /\ [][Next]_vars

-----------------------------------------------------------------------------
Sample == {"sample", "error"}

TypeOK ==
  /\ caller \in {"new", "started", "joining", "joined", "stuck", "interrupted"}
  /\ thread \in {"none", "check", "collect", "slow", "append", "wait", "ended", "dead"}
  /\ reading \in Sample
  /\ stopEvent \in BOOLEAN
  /\ samples \in Seq(Sample)
  /\ returned \in Seq(Sample)
  /\ atStop \in Nat

(* The sampler never keeps more samples than its bound. *)
SamplesBounded == Len(samples) <= MaxSamples

(* What stop() returns is final: the thread is over and the list it returns  *)
(* is all the thread ever collected.                                         *)
ReturnedIsFinal == caller = "joined" => ~Alive /\ returned = samples

(* After the stop event at most the sample in progress is added. *)
StopsPromptly == stopEvent => Len(samples) <= atStop + 1

(* test_runner.py line 23, of every enabled test of a run: it has samples    *)
(* (architecture.md: "It samples immediately"; results-guide.md: "A very     *)
(* short test may contain only one sample").                                 *)
SampledImmediately == caller = "joined" => samples # << >>
=============================================================================
