-------------------------- MODULE StabilityWorkload --------------------------
(***************************************************************************)
(* run_stability_workload: the integer workload several times in a row,    *)
(* under one deadline and one token.  Each repetition is a whole call of   *)
(* IntegerWorkload, with its own pool and its own context, whose deadline  *)
(* is what remained of the shared one when the call was prepared; it       *)
(* expects the checksum its predecessor computed.  The durations of the    *)
(* repetitions become a median and a median absolute deviation, and the    *)
(* test STB-001 turns their ratio into a hint for its status.              *)
(***************************************************************************)
EXTENDS IntegerWorkload, FiniteSetsExt

CONSTANTS
  Repetitions,  \* config.repetitions, at least 3 in the code
  Durations,    \* measured durations, in ticks of the clock
  WarnPercent   \* parameter warn_variability_percent

ASSUME RepetitionsAssumption ==
  /\ Repetitions \in Nat \ {0}
  /\ Durations \subseteq Nat
  /\ WarnPercent \in Nat

VARIABLES
  step,      \* "timeout", "token", "clock", "remaining", "call", "report"
             \* or "done"
  rep,       \* repetitions whose result has been taken
  agreed,    \* the conjunction of their verdicts
  sound,     \* history: no task of a repetition taken so far miscomputed
  outcome,   \* how the workload ends: "none" or as a call may end
  durations, \* the durations of the repetitions, once there is a result
  hint,      \* status hint of STB-001: "none", "PASS" or "WARN"
  late       \* the shared deadline has passed

outer == <<step, rep, agreed, sound, outcome, durations, hint>>
inner == <<config, main, pool>>
stabilityVars == <<vars, outer, late>>

StabilityInit ==
  /\ Init /\ config.timeout = 1
  /\ step = "timeout"
  /\ rep = 0
  /\ agreed = TRUE
  /\ sound = (config.expected # WrongChecksum)
  /\ outcome = "none"
  /\ durations = << >>
  /\ hint = "none"
  /\ late = FALSE

End(how) == step' = "done" /\ outcome' = how

(* require_timeout accepts the timeout of the test or refuses it. *)
RequireTimeout ==
  /\ step = "timeout"
  /\ \/ step' = "token" /\ UNCHANGED outcome
     \/ End("limit")
  /\ UNCHANGED <<vars, rep, agreed, sound, durations, hint, late>>

(* remaining_seconds: the checkpoint reads the token, then the clock ...     *)
RemainingToken ==
  /\ step = "token"
  /\ \/ ~Cancelled /\ step' = "clock" /\ UNCHANGED outcome
     \/ Cancelled /\ End("cancelled")
  /\ UNCHANGED <<vars, rep, agreed, sound, durations, hint, late>>

RemainingClock ==
  /\ step = "clock"
  /\ \/ ~late /\ step' = "remaining" /\ UNCHANGED <<outcome, token>>
     \/ late /\ token' = TRUE /\ End("timeout")
  /\ UNCHANGED <<inner, runToken, expired, rep, agreed, sound, durations, hint, late>>

(* ... and the clock is read once more, for the time that is left: 0 when    *)
(* the deadline has passed in between.  A new call of the integer workload   *)
(* begins with that timeout, new tasks and a context of its own.             *)
RemainingRead ==
  /\ step = "remaining"
  /\ step' = "call"
  /\ config' = [config EXCEPT !.timeout = IF late THEN 0 ELSE 1,
                              !.expected = IF rep = 0 THEN @ ELSE digests]
  /\ pc' = "limits"
  /\ left' = Checkpoints(config')
  /\ next' = 0
  /\ digests' = << >>
  /\ pending' = "none"
  /\ correct' = FALSE
  /\ task' = [i \in Indexes |-> "idle"]
  /\ hashed' = [i \in Indexes |-> 0]
  /\ digest' = [i \in Indexes |-> Nothing]
  /\ expired' = FALSE
  /\ UNCHANGED <<token, runToken, rep, agreed, sound, outcome, durations, hint, late>>

(* The call has returned a result: the next repetition expects its checksum. *)
TakeResult ==
  /\ step = "call" /\ pc = "done" /\ pending = "result"
  /\ rep' = rep + 1
  /\ agreed' = (agreed /\ correct)
  /\ sound' = (sound /\ \A i \in Indexes : digest[i].sound)
  /\ step' = IF rep' < Repetitions THEN "token" ELSE "report"
  /\ UNCHANGED <<vars, outcome, durations, hint, late>>

(* What the call raises leaves the stability workload as well. *)
Propagate ==
  /\ step = "call" /\ pc = "done" /\ pending # "result"
  /\ End(pending)
  /\ UNCHANGED <<vars, rep, agreed, sound, durations, hint, late>>

-----------------------------------------------------------------------------
(* How many of the values of s, a function on 1..n, are below or equal to v. *)
AtMost(s, v) == Cardinality({i \in DOMAIN s : s[i] <= v})

(* Twice statistics.median: the middle value, or the mean of the middle two. *)
TwiceMedian(s) ==
  LET n == Cardinality(DOMAIN s)
      kth(k) == Min({s[i] : i \in {j \in DOMAIN s : AtMost(s, s[j]) >= k}})
  IN  kth((n + 1) \div 2) + kth(n \div 2 + 1)

(* Twice the distances from the median. *)
Distances(s) ==
  LET m == TwiceMedian(s)
  IN  [i \in DOMAIN s |-> IF 2 * s[i] >= m THEN 2 * s[i] - m ELSE m - 2 * s[i]]

(* Mutant: the largest of them. *)
DeviationLargest(s) == 2 * Max({Distances(s)[i] : i \in DOMAIN s})

(* Four times the median absolute deviation from the median. *)
Deviation(s) == TwiceMedian(Distances(s))

(* rate_per_second(100 * mad, median) against the threshold of STB-001: no   *)
(* rate for a median of zero.                                                *)
Hint(s) ==
  IF \/ TwiceMedian(s) = 0
     \/ 100 * Deviation(s) > 2 * WarnPercent * TwiceMedian(s)
  THEN "WARN" ELSE "PASS"

(* The measurements, the result and the hint of the test. *)
Report ==
  /\ step = "report"
  /\ durations' \in [1 .. Repetitions -> Durations]
  /\ hint' = Hint(durations')
  /\ End("result")
  /\ UNCHANGED <<vars, rep, agreed, sound, late>>

-----------------------------------------------------------------------------
PassDeadline ==
  /\ ~late /\ step # "timeout"
  /\ late' = TRUE
  /\ UNCHANGED <<vars, outer>>

(* KeyboardInterrupt between two calls of the integer workload. *)
InterruptBetween ==
  /\ MayInterrupt
  /\ step \notin {"call", "done"}
  /\ End("interrupt")
  /\ UNCHANGED <<vars, rep, agreed, sound, durations, hint, late>>

(* The call itself.  Its deadline is not before the shared one: it is the    *)
(* time that remained, counted from a later moment.                          *)
Calling == step = "call" /\ Main /\ UNCHANGED <<outer, late>>
Working(i) == step \in {"call", "done"} /\ Task(i) /\ UNCHANGED <<outer, late>>
Signalling ==
  /\ \/ late /\ step = "call" /\ Expire
     \/ CancelRun
     \/ step = "call" /\ Interrupt
  /\ UNCHANGED <<outer, late>>

Advance ==
  \/ RequireTimeout \/ RemainingToken \/ RemainingClock \/ RemainingRead
  \/ Calling \/ TakeResult \/ Propagate \/ Report

StabilityNext ==
  \/ Advance
  \/ \E i \in Indexes : Working(i)
  \/ Signalling \/ PassDeadline \/ InterruptBetween

StabilityFairness ==
  /\ WF_stabilityVars(Advance)
  /\ \A i \in 0 .. MaxWorkers - 1 : WF_stabilityVars(i \in Indexes /\ Working(i))

StabilitySpec == StabilityInit /\ [][StabilityNext]_stabilityVars /\ StabilityFairness

-----------------------------------------------------------------------------
Finished == step = "done"

(* The stability result is correct exactly when no task of any repetition    *)
(* miscomputed and the configured checksum, if there is one, is right,       *)
(* although each repetition trusts the checksum of the one before it.        *)
StabilityVerdict ==
  Finished /\ outcome = "result" => rep = Repetitions /\ (agreed <=> sound)

(* However the repetitions and their deadlines follow each other, the way    *)
(* the workload ends has its cause: a timeout, or a limit error after the    *)
(* first repetition, means that the shared deadline has passed, and a        *)
(* cancellation that the run was cancelled or that two workers met the       *)
(* deadline.  Whoever is called without time left hashes nothing.            *)
RepetitionsEndWithCause ==
  /\ Finished =>
       /\ outcome = "timeout" => late
       /\ outcome = "limit" /\ rep > 0 => late
       /\ outcome = "cancelled" => runToken \/ (config.workers > 1 /\ late)
  /\ config.timeout = 0 => \A i \in Indexes : task[i] = "idle"

(* One slow or fast repetition is not a warning: when all but a minority of  *)
(* the repetitions took the same measurable time, STB-001 gives no hint.     *)
OutliersTolerated ==
  \A m \in Durations \ {0} :
    2 * Cardinality({i \in DOMAIN durations : durations[i] = m}) > Len(durations)
      => hint = "PASS"

(* The workload ends, and so does every task of every repetition.            *)
RepetitionsStop == <>[](Finished /\ \A i \in Indexes : ~Live(i))
=============================================================================
