------------------------------ MODULE RoundTrip ------------------------------
(***************************************************************************)
(* The three sequential workloads: run_storage_workload writes a file in a *)
(* directory of its own, reads it back and removes both;                   *)
(* run_memory_workload fills, transforms and reads one allocation;         *)
(* run_floating_point_workload sums up a series.  They go block by block   *)
(* and look at the cancellation token and the deadline between the blocks. *)
(* A block is some bytes, or terms; what they hold is reduced to whether   *)
(* they came back as they were written, or the sum is within tolerance.    *)
(***************************************************************************)
EXTENDS Naturals, Sequences

CONSTANTS
  Sizes,    \* bytes, or terms, a workload is configured for
  Block,    \* block_size_bytes, the chunk size, or the 4096 of the series
  MaxBytes, \* max_temporary_file_bytes and max_memory_bytes the policy detects
  Limits,   \* what a test's safety_limits may ask for instead
  Frees,    \* free bytes of the temporary volume before the workload
  Reserve,  \* minimum_disk_reserve_bytes
  Trouble   \* what may go wrong, a subset of TroubleKinds

(* An operating-system error; MemoryError; damaged data or a sum that went   *)
(* astray; a file that has become shorter when it is read back; an rmtree    *)
(* that fails; Ctrl+C.                                                       *)
TroubleKinds == {"os", "memory", "damage", "short", "rmtree", "interrupt"}

ASSUME RoundTripAssumption ==
  /\ Sizes \subseteq Nat \ {0}
  /\ Block \in Nat \ {0}
  /\ MaxBytes \in Nat /\ Limits \subseteq Nat \ {0} /\ Frees \subseteq Nat /\ Reserve \in Nat
  /\ Trouble \subseteq TroubleKinds

VARIABLES
  job,       \* the workload: its kind, size, the limit of its test, the
             \* volume's free bytes, and whether the policy admits its timeout
  pc,        \* "limits", "token", "clock", "acquire", "block", "cleanup", "done"
  after,     \* what follows the checkpoint: "acquire" or "block"
  phase,     \* the phase of the workload that is under way
  processed, \* processed[i]: bytes phase i has gone through
  sound,     \* every byte so far came back as it was written
  directory, \* the temporary directory: "none", "made" or "left"
  ending,    \* how the workload ends: "result" or the error that leaves it
  correct,   \* the verdict of the result
  token,     \* the test's own token is cancelled
  runToken,  \* the run's token is cancelled
  expired,   \* the deadline has passed
  late       \* bytes gone through since the cancellation or the deadline

signals == <<token, runToken, expired>>
progress == <<phase, processed, sound, late>>
workVars == <<job, pc, after, phase, processed, sound, directory, ending, correct,
              token, runToken, expired, late>>

Jobs == [kind : {"storage", "memory", "series"}, size : Sizes, limit : Limits,
         free : Frees, admitted : BOOLEAN]
Phases == CASE job.kind = "storage" -> <<"write", "read">>
            [] job.kind = "memory"  -> <<"fill", "transform", "read">>
            [] OTHER                -> <<"sum">>
Cancelled == token \/ runToken
Done == pc = "done"

WorkInit ==
  /\ job \in Jobs
  /\ pc = "limits"
  /\ after = "acquire"
  /\ phase = 1
  /\ processed = [i \in DOMAIN Phases |-> 0]
  /\ sound = TRUE
  /\ directory = "none"
  /\ ending = "none"
  /\ correct = FALSE
  /\ token = FALSE
  /\ runToken \in BOOLEAN
  /\ expired = FALSE
  /\ late = 0

(* An exception: the storage workload's finally clause, or straight out. *)
Raise(exception) ==
  /\ ending' = exception
  /\ pc' = IF directory = "made" THEN "cleanup" ELSE "done"

-----------------------------------------------------------------------------
(* _case_policy: a plan may ask for less than what was detected. *)
CaseMaximum == IF job.limit < MaxBytes THEN job.limit ELSE MaxBytes

(* require_timeout, require_memory and require_temporary_file.  The number   *)
(* of terms has no limit.                                                    *)
Refused == ~job.admitted \/ (job.kind # "series" /\ job.size > CaseMaximum)
NoSpace == job.kind = "storage" /\ job.free < job.size + Reserve

(* The temporary root is not there, or the system does not tell its space.   *)
RootFails ==
  /\ job.kind = "storage" /\ "os" \in Trouble
  /\ \E exception \in {"limit", "os"} : Raise(exception)

(* Mutant: the free space is compared with the size alone. *)
CheckLimitsNoReserve ==
  /\ pc = "limits"
  /\ \/ /\ Refused \/ (job.kind = "storage" /\ job.free < job.size)
        /\ Raise("limit")
     \/ ~Refused /\ RootFails
     \/ /\ ~Refused /\ ~(job.kind = "storage" /\ job.free < job.size)
        /\ pc' = "token"
        /\ UNCHANGED ending
  /\ UNCHANGED <<job, after, progress, directory, correct, signals>>

(* The policy first, then the temporary root and the reserve.  A missing     *)
(* root is refused with another exception, which ends the test alike.        *)
CheckLimits ==
  /\ pc = "limits"
  /\ \/ (Refused \/ NoSpace) /\ Raise("limit")
     \/ ~Refused /\ RootFails
     \/ ~Refused /\ ~NoSpace /\ pc' = "token" /\ UNCHANGED ending
  /\ UNCHANGED <<job, after, progress, directory, correct, signals>>

CheckToken ==
  /\ pc = "token"
  /\ IF Cancelled THEN Raise("cancelled") ELSE pc' = "clock" /\ UNCHANGED ending
  /\ UNCHANGED <<job, after, progress, directory, correct, signals>>

(* Mutant: a passed deadline cancels the run instead of timing out the test. *)
CheckClockCancelling ==
  /\ pc = "clock"
  /\ IF expired
     THEN token' = TRUE /\ Raise("cancelled")
     ELSE pc' = after /\ UNCHANGED <<ending, token>>
  /\ UNCHANGED <<job, after, progress, directory, correct, runToken, expired>>

CheckClock ==
  /\ pc = "clock"
  /\ IF expired
     THEN token' = TRUE /\ Raise("timeout")
     ELSE pc' = after /\ UNCHANGED <<ending, token>>
  /\ UNCHANGED <<job, after, progress, directory, correct, runToken, expired>>

(* The series needs nothing and begins without another checkpoint. *)
FirstStep == IF job.kind = "series" THEN "block" ELSE "token"

(* mkdtemp, then the new file; or the allocation. *)
Acquire ==
  /\ pc = "acquire"
  /\ after' = "block"
  /\ \/ /\ pc' = FirstStep
        /\ directory' = IF job.kind = "storage" THEN "made" ELSE "none"
        /\ UNCHANGED ending
     \/ /\ job.kind = "storage" /\ "os" \in Trouble
        /\ ending' = "os"
        /\ \/ pc' = "done" /\ UNCHANGED directory
           \/ pc' = "cleanup" /\ directory' = "made"
     \/ /\ job.kind = "memory" /\ "memory" \in Trouble
        /\ Raise("memory")
        /\ UNCHANGED directory
  /\ UNCHANGED <<job, progress, correct, signals>>

(* The checkpoint of the series comes before every Block-th term, so that    *)
(* its first block is a term short.                                          *)
WholeBlock ==
  IF job.kind = "series" THEN Block - ((processed[phase] + 1) % Block) ELSE Block
Length ==
  IF job.size - processed[phase] < WholeBlock THEN job.size - processed[phase] ELSE WholeBlock
Signalled == Cancelled \/ expired

(* The workload has its data: the storage workload still cleans up. *)
Conclude ==
  /\ ending' = "result"
  /\ IF directory = "made"
     THEN pc' = "cleanup" /\ UNCHANGED correct
     ELSE pc' = "done" /\ correct' = sound'

(* Mutant: the last, shorter block is left out. *)
ProcessWholeBlocks ==
  /\ pc = "block"
  /\ processed' = [processed EXCEPT ![phase] = @ + Length]
  /\ late' = IF Signalled THEN late + Length ELSE late
  /\ UNCHANGED sound
  /\ IF processed'[phase] + Block <= job.size
     THEN pc' = "token" /\ UNCHANGED <<phase, ending, correct>>
     ELSE IF phase < Len(Phases)
     THEN phase' = phase + 1 /\ pc' = "token" /\ UNCHANGED <<ending, correct>>
     ELSE Conclude /\ UNCHANGED phase
  /\ UNCHANGED <<job, after, directory, signals>>

(* Mutant: one checkpoint per phase. *)
ProcessUnchecked ==
  /\ pc = "block"
  /\ processed' = [processed EXCEPT ![phase] = @ + Length]
  /\ late' = IF Signalled THEN late + Length ELSE late
  /\ UNCHANGED sound
  /\ IF processed'[phase] < job.size
     THEN UNCHANGED <<pc, phase, ending, correct>>
     ELSE IF phase < Len(Phases)
     THEN phase' = phase + 1 /\ pc' = "token" /\ UNCHANGED <<ending, correct>>
     ELSE Conclude /\ UNCHANGED phase
  /\ UNCHANGED <<job, after, directory, signals>>

(* The read of a file ends with an empty block, the series with a last       *)
(* checkpoint; every other phase ends with its last byte.                    *)
ChecksOnceMore == Phases[phase] \in {"read", "sum"} /\ job.kind # "memory"

(* What one turn of the loop goes through: a block.  A file that has become  *)
(* short gives less, and nothing from then on.                               *)
Shortened == "short" \in Trouble /\ job.kind = "storage" /\ Phases[phase] = "read"
Gone ==
  IF ~Shortened THEN {Length}
  ELSE IF processed[phase] % Block = 0 THEN 0 .. Length
  ELSE {0}

(* One block.  An fsync or open that fails between two phases counts as the  *)
(* failing write of a block.                                                 *)
Process ==
  /\ pc = "block"
  /\ \/ \E n \in Gone :
          /\ processed' = [processed EXCEPT ![phase] = @ + n]
          /\ late' = IF Signalled THEN late + n ELSE late
          /\ sound' \in {sound /\ n = Length,
                        sound /\ n = Length /\ ~("damage" \in Trouble /\ n > 0)}
          /\ IF (ChecksOnceMore /\ n > 0) \/ (~ChecksOnceMore /\ processed'[phase] < job.size)
             THEN pc' = "token" /\ UNCHANGED <<phase, ending, correct>>
             ELSE IF phase < Len(Phases)
             THEN phase' = phase + 1 /\ pc' = "token" /\ UNCHANGED <<ending, correct>>
             ELSE Conclude /\ UNCHANGED phase
     \/ /\ job.kind = "storage" /\ "os" \in Trouble
        /\ Raise("os")
        /\ UNCHANGED <<progress, correct>>
  /\ UNCHANGED <<job, after, directory, signals>>

(* Mutant: the directory is removed at the end of the try, not in a finally. *)
CleanupOnSuccess ==
  /\ pc = "cleanup"
  /\ pc' = "done"
  /\ directory' = IF ending = "result" THEN "none" ELSE "left"
  /\ correct' = (ending = "result" /\ sound)
  /\ UNCHANGED <<job, after, progress, ending, signals>>

(* The finally clause.  An rmtree that fails replaces what was on its way.   *)
Cleanup ==
  /\ pc = "cleanup"
  /\ pc' = "done"
  /\ \/ /\ directory' = "none"
        /\ correct' = (ending = "result" /\ sound)
        /\ UNCHANGED ending
     \/ /\ "rmtree" \in Trouble
        /\ directory' = "left"
        /\ ending' = "rmtree"
        /\ UNCHANGED correct
  /\ UNCHANGED <<job, after, progress, signals>>

-----------------------------------------------------------------------------
Expire ==
  /\ ~expired
  /\ expired' = TRUE
  /\ UNCHANGED <<job, pc, after, progress, directory, ending, correct, token, runToken>>

CancelRun ==
  /\ ~runToken
  /\ runToken' = TRUE
  /\ UNCHANGED <<job, pc, after, progress, directory, ending, correct, token, expired>>

(* Ctrl+C.  Between the creation of the directory and its assignment, and    *)
(* while rmtree runs, nobody is left to remove the directory.                *)
Interrupt ==
  /\ "interrupt" \in Trouble
  /\ ~Done
  /\ \/ /\ pc # "cleanup"
        /\ Raise("interrupt")
        /\ UNCHANGED directory
     \/ /\ pc = "cleanup" \/ (pc = "acquire" /\ job.kind = "storage")
        /\ ending' = "interrupt"
        /\ pc' = "done"
        /\ directory' = "left"
  /\ UNCHANGED <<job, after, progress, correct, signals>>

WorkStep == CheckLimits \/ CheckToken \/ CheckClock \/ Acquire \/ Process \/ Cleanup
Signal == Expire \/ CancelRun

-----------------------------------------------------------------------------
WorkTypeOK ==
  /\ job \in Jobs
  /\ pc \in {"limits", "token", "clock", "acquire", "block", "cleanup", "done"}
  /\ after \in {"acquire", "block"}
  /\ phase \in DOMAIN Phases
  /\ processed \in [DOMAIN Phases -> 0 .. job.size]
  /\ sound \in BOOLEAN
  /\ directory \in {"none", "made", "left"}
  /\ ending \in {"none", "result", "limit", "cancelled", "timeout", "os", "memory",
                 "rmtree", "interrupt"}
  /\ correct \in BOOLEAN
  /\ token \in BOOLEAN /\ runToken \in BOOLEAN /\ expired \in BOOLEAN
  /\ late \in Nat

(* Whatever ends a storage workload, its directory is removed: only an       *)
(* rmtree that fails, which is reported as such, or Ctrl+C leave one.        *)
NothingLeft ==
  Done /\ ending \notin {"rmtree", "interrupt"} => directory = "none"

(* The file never eats into the disk reserve the policy keeps, and neither   *)
(* file nor allocation exceeds the detected limit, or the smaller one of the *)
(* test (safety.md: "Plans may request smaller limits but cannot exceed the  *)
(* active policy").                                                          *)
LimitsKept ==
  /\ directory # "none" => processed[1] + Reserve <= job.free
  /\ job.kind # "series" =>
       \A i \in DOMAIN Phases : processed[i] <= job.limit /\ processed[i] <= MaxBytes

(* A result stands for every byte of every phase, however the size relates   *)
(* to the block size, and is correct exactly when every byte came back as it *)
(* was: only a file that has become short is not read to its size, and its   *)
(* result is never correct.                                                  *)
ResultCovers ==
  Done /\ ending = "result" =>
    /\ processed[1] = job.size
    /\ job.kind # "storage" \/ correct => \A i \in DOMAIN Phases : processed[i] = job.size
    /\ correct <=> sound

(* After a cancellation or the deadline at most one more block is gone       *)
(* through.                                                                  *)
StopsSoon == late <= Block

(* The error that leaves the workload names its cause: a cancellation the    *)
(* run's token, a timeout the deadline, a refusal that nothing was touched.  *)
EndingHasCause ==
  Done => /\ ending = "cancelled" => runToken
          /\ ending = "timeout" => expired
          /\ ending = "limit" => directory = "none" /\ \A i \in DOMAIN Phases : processed[i] = 0
=============================================================================
