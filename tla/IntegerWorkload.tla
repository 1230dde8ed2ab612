--------------------------- MODULE IntegerWorkload ---------------------------
(***************************************************************************)
(* One call of run_integer_workload: the calling thread computes the       *)
(* reference checksum, submits one hashing task per worker to a thread     *)
(* pool, collects the digests in worker order and leaves the pool, which   *)
(* waits for every task.  All threads share one cancellation token (the    *)
(* test's token, whose parent is the run's) and one deadline; each of them *)
(* reads the token, then the clock, before every block it hashes.          *)
(* The run's token may be cancelled, the deadline may pass and Ctrl+C may  *)
(* reach the calling thread at any moment.                                 *)
(***************************************************************************)
EXTENDS Integers, Sequences, FiniteSets

CONSTANTS
  WorkerCounts,    \* values of config.workers
  OperationTotals, \* values of config.operations
  Expectations,    \* config.expected_checksum: "none", "right" or "wrong"
  MaxWorkers,      \* policy.max_workers
  MemoryWorkers,   \* workers whose blocks policy.max_memory_bytes has room for
  MayMiscompute,   \* TRUE: a task's digest may come out wrong
  MayInterrupt     \* TRUE: Ctrl+C may reach the calling thread

ASSUME ConstantsAssumption ==
  /\ WorkerCounts \subseteq Nat \ {0}
  /\ OperationTotals \subseteq Nat \ {0}
  /\ Expectations \subseteq {"none", "right", "wrong"}
  /\ MaxWorkers \in Nat \ {0} /\ MemoryWorkers \in Nat
  /\ MayMiscompute \in BOOLEAN /\ MayInterrupt \in BOOLEAN

VARIABLES
  config,   \* the IntegerWorkloadConfig of the call
  pc,       \* the calling thread: "limits", "token", "clock", "submit",
            \* "collect", "leave" or "done"
  left,     \* checkpoints the calling thread still makes before submitting
  next,     \* index of the next task to submit or to collect
  digests,  \* the digests collected so far
  pending,  \* how the call ends once the pool is left
  correct,  \* the verdict of the result
  task,     \* task[i]: "idle", "queued", "token", "clock", "finished",
            \* "timeout" or "cancelled"
  hashed,   \* hashed[i]: blocks hashed by task i
  digest,   \* digest[i]: what task i returned
  token,    \* the event of the test's cancellation token
  runToken, \* the run's token has been cancelled
  expired   \* the monotonic deadline has passed

main == <<pc, left, next, digests, pending, correct>>
pool == <<task, hashed, digest>>
signals == <<token, runToken, expired>>
vars == <<config, pc, left, next, digests, pending, correct,
          task, hashed, digest, token, runToken, expired>>

Indexes == 0 .. config.workers - 1
Cancelled == token \/ runToken
Ends == {"none", "result", "limit", "timeout", "cancelled", "interrupt"}

(* Mutant: every task gets the rounded-down share. *)
OperationCountsTruncated(total, workers) ==
  [i \in 0 .. workers - 1 |-> total \div workers]

OperationCounts(total, workers) ==
  [i \in 0 .. workers - 1 |->
     (total \div workers) + (IF i < total % workers THEN 1 ELSE 0)]

Counts == OperationCounts(config.operations, config.workers)

(* A digest tells the worker's seed and the blocks hashed; a miscomputed one *)
(* equals no sound one.  A checksum is the sequence of the digests.          *)
Digest(i, blocks, sound) == [worker |-> i, blocks |-> blocks, sound |-> sound]
Nothing == [worker |-> -1, blocks |-> 0, sound |-> FALSE]
NoChecksum == << >>
WrongChecksum == <<Nothing>>

ReferenceFor(total, workers) ==
  [k \in 1 .. workers |-> Digest(k - 1, OperationCounts(total, workers)[k - 1], TRUE)]

(* The checksum of sound digests of all workers, in worker order. *)
Reference == ReferenceFor(config.operations, config.workers)
ExpectedChecksum == IF config.expected = NoChecksum THEN Reference ELSE config.expected

ConfiguredChecksum(e, n, w) ==
  CASE e = "none"  -> NoChecksum
    [] e = "right" -> ReferenceFor(n, w)
    [] e = "wrong" -> WrongChecksum

(* timeout is 1 for any time the policy allows, 0 for any it refuses: none,  *)
(* or more than its max_duration_seconds.                                    *)
Configs ==
  {[workers |-> c[1], operations |-> c[2], timeout |-> c[4],
    expected |-> ConfiguredChecksum(c[3], c[2], c[1])] :
     c \in {d \in WorkerCounts \X OperationTotals \X Expectations \X {0, 1} : d[2] >= d[1]}}

(* The calling thread's checkpoints: one at entry and, without an expected   *)
(* checksum, one per block of the reference it computes.                     *)
Checkpoints(c) == 1 + (IF c.expected = NoChecksum THEN c.operations ELSE 0)

Init ==
  /\ config \in Configs
  /\ pc = "limits"
  /\ left = Checkpoints(config)
  /\ next = 0
  /\ digests = << >>
  /\ pending = "none"
  /\ correct = FALSE
  /\ task = [i \in Indexes |-> "idle"]
  /\ hashed = [i \in Indexes |-> 0]
  /\ digest = [i \in Indexes |-> Nothing]
  /\ token = FALSE
  /\ runToken \in BOOLEAN
  /\ expired = FALSE

-----------------------------------------------------------------------------
(* require_workers and require_memory. *)
Fits == config.workers <= MaxWorkers /\ config.workers <= MemoryWorkers

(* Mutant: require_timeout lets a timeout of zero pass. *)
CheckLimitsNonNegative ==
  /\ pc = "limits"
  /\ \/ Fits /\ pc' = "token" /\ UNCHANGED pending
     \/ ~Fits /\ pc' = "done" /\ pending' = "limit"
  /\ UNCHANGED <<config, left, next, digests, correct, pool, signals>>

(* ... and require_timeout. *)
CheckLimits ==
  /\ pc = "limits"
  /\ \/ Fits /\ config.timeout > 0 /\ pc' = "token" /\ UNCHANGED pending
     \/ (~Fits \/ config.timeout <= 0) /\ pc' = "done" /\ pending' = "limit"
  /\ UNCHANGED <<config, left, next, digests, correct, pool, signals>>

(* A checkpoint of the calling thread: first the token, then the clock. *)
MainToken ==
  /\ pc = "token"
  /\ \/ left = 0 /\ pc' = "submit" /\ UNCHANGED pending
     \/ left > 0 /\ ~Cancelled /\ pc' = "clock" /\ UNCHANGED pending
     \/ left > 0 /\ Cancelled /\ pc' = "done" /\ pending' = "cancelled"
  /\ UNCHANGED <<config, left, next, digests, correct, pool, signals>>

MainClock ==
  /\ pc = "clock"
  /\ \/ /\ ~expired
        /\ left' = left - 1
        /\ pc' = "token"
        /\ UNCHANGED <<pending, token>>
     \/ /\ expired
        /\ token' = TRUE
        /\ pc' = "done"
        /\ pending' = "timeout"
        /\ UNCHANGED left
  /\ UNCHANGED <<config, next, digests, correct, pool, runToken, expired>>

Submit ==
  /\ pc = "submit"
  /\ task' = [task EXCEPT ![next] = "queued"]
  /\ IF next + 1 < config.workers
     THEN next' = next + 1 /\ UNCHANGED pc
     ELSE next' = 0 /\ pc' = "collect"
  /\ UNCHANGED <<config, left, digests, pending, correct, hashed, digest, signals>>

(* Mutant: futures are taken as they complete. *)
CollectAsCompleted ==
  /\ pc = "collect"
  /\ \/ \E i \in Indexes :
          /\ task[i] = "finished"
          /\ \A k \in DOMAIN digests : digests[k] # digest[i]
          /\ digests' = Append(digests, digest[i])
          /\ IF next + 1 < config.workers
             THEN next' = next + 1 /\ UNCHANGED <<pc, pending>>
             ELSE next' = next /\ pc' = "leave" /\ pending' = "result"
          /\ UNCHANGED token
     \/ \E i \in Indexes :
          /\ task[i] \in {"timeout", "cancelled"}
          /\ token' = TRUE
          /\ pc' = "leave"
          /\ pending' = task[i]
          /\ UNCHANGED <<next, digests>>
  /\ UNCHANGED <<config, left, correct, pool, runToken, expired>>

(* Mutant: a failed future is waited for as if it were unfinished. *)
CollectFinishedOnly ==
  /\ pc = "collect"
  /\ task[next] = "finished"
  /\ digests' = Append(digests, digest[next])
  /\ IF next + 1 < config.workers
     THEN next' = next + 1 /\ UNCHANGED <<pc, pending>>
     ELSE next' = next /\ pc' = "leave" /\ pending' = "result"
  /\ UNCHANGED <<config, left, correct, pool, signals>>

(* future.result() in worker order; an exception cancels the token. *)
Collect ==
  /\ pc = "collect"
  /\ \/ /\ task[next] = "finished"
        /\ digests' = Append(digests, digest[next])
        /\ IF next + 1 < config.workers
           THEN next' = next + 1 /\ UNCHANGED <<pc, pending>>
           ELSE next' = next /\ pc' = "leave" /\ pending' = "result"
        /\ UNCHANGED token
     \/ /\ task[next] \in {"timeout", "cancelled"}
        /\ token' = TRUE
        /\ pc' = "leave"
        /\ pending' = task[next]
        /\ UNCHANGED <<next, digests>>
  /\ UNCHANGED <<config, left, correct, pool, runToken, expired>>

Live(i) == task[i] \in {"queued", "token", "clock"}

(* Mutant: the pool is shut down without waiting. *)
LeaveAtOnce ==
  /\ pc = "leave"
  /\ pc' = "done"
  /\ correct' = (pending = "result" /\ digests = ExpectedChecksum)
  /\ UNCHANGED <<config, left, next, digests, pending, pool, signals>>

(* The end of the with block waits for every task; then the verdict. *)
Leave ==
  /\ pc = "leave"
  /\ \A i \in Indexes : ~Live(i)
  /\ pc' = "done"
  /\ correct' = (pending = "result" /\ digests = ExpectedChecksum)
  /\ UNCHANGED <<config, left, next, digests, pending, pool, signals>>

-----------------------------------------------------------------------------
(* The pool starts tasks in the order of submission. *)
StartTask(i) ==
  /\ task[i] = "queued"
  /\ \A j \in Indexes : j < i => task[j] # "queued"
  /\ task' = [task EXCEPT ![i] = "token"]
  /\ UNCHANGED <<config, main, hashed, digest, signals>>

TaskToken(i) ==
  /\ task[i] = "token"
  /\ hashed[i] < Counts[i]
  /\ task' = [task EXCEPT ![i] = IF Cancelled THEN "cancelled" ELSE "clock"]
  /\ UNCHANGED <<config, main, hashed, digest, signals>>

(* The clock, then one block; a timeout cancels the token all tasks share. *)
TaskClock(i) ==
  /\ task[i] = "clock"
  /\ \/ /\ ~expired
        /\ hashed' = [hashed EXCEPT ![i] = @ + 1]
        /\ task' = [task EXCEPT ![i] = "token"]
        /\ UNCHANGED token
     \/ /\ expired
        /\ task' = [task EXCEPT ![i] = "timeout"]
        /\ token' = TRUE
        /\ UNCHANGED hashed
  /\ UNCHANGED <<config, main, digest, runToken, expired>>

TaskFinish(i) ==
  /\ task[i] = "token"
  /\ hashed[i] = Counts[i]
  /\ task' = [task EXCEPT ![i] = "finished"]
  /\ \E sound \in {TRUE, ~MayMiscompute} :
       digest' = [digest EXCEPT ![i] = Digest(i, hashed[i], sound)]
  /\ UNCHANGED <<config, main, hashed, signals>>

-----------------------------------------------------------------------------
Expire ==
  /\ ~expired
  /\ expired' = TRUE
  /\ UNCHANGED <<config, main, pool, token, runToken>>

CancelRun ==
  /\ ~runToken
  /\ runToken' = TRUE
  /\ UNCHANGED <<config, main, pool, token, expired>>

(* KeyboardInterrupt in the calling thread.  While it collects, the handler  *)
(* cancels the token; while it submits, nothing does; and while it waits in  *)
(* the end of the with block, the exception leaves the pool behind.          *)
Interrupt ==
  /\ MayInterrupt
  /\ pc # "done"
  /\ pending' = "interrupt"
  /\ pc' = IF pc \in {"submit", "collect"} THEN "leave" ELSE "done"
  /\ token' = (token \/ pc = "collect")
  /\ UNCHANGED <<config, left, next, digests, correct, pool, runToken, expired>>

Main == CheckLimits \/ MainToken \/ MainClock \/ Submit \/ Collect \/ Leave
Task(i) == StartTask(i) \/ TaskToken(i) \/ TaskClock(i) \/ TaskFinish(i)
Next ==
  \/ Main
  \/ \E i \in Indexes : Task(i)
  \/ Expire \/ CancelRun \/ Interrupt

(* Threads are scheduled by the operating system; nothing forces a deadline, *)
(* a cancellation or an interrupt to happen.                                 *)
Fairness ==
  /\ WF_vars(Main)
  /\ \A i \in 0 .. MaxWorkers - 1 : WF_vars(i \in Indexes /\ Task(i))

Spec == Init /\ [][Next]_vars
FairSpec == Spec /\ Fairness

-----------------------------------------------------------------------------
Done == pc = "done"

(* When the call ends, with a result or with any error but an interrupt, no  *)
(* task of its pool is still queued or hashing: the next test runs alone.    *)
PoolDrained ==
  Done /\ pending # "interrupt" => \A i \in Indexes : ~Live(i)

(* The blocks hashed by all tasks, each as <<task, how many it had hashed>>. *)
HashedBlocks == UNION {{i} \X (1 .. hashed[i]) : i \in Indexes}

(* A result covers all the blocks of the configuration: operations is what   *)
(* the "operations" measurement and the rate are computed from.              *)
ResultComplete ==
  Done /\ pending = "result" => Cardinality(HashedBlocks) = config.operations

(* architecture.md, "Runner and telemetry lifecycle": a test timeout is not  *)
(* a cancellation: the call raises WorkloadCancelled only when the run's     *)
(* token was cancelled.                                                      *)
CancelledOnlyByRun == Done /\ pending = "cancelled" => runToken
=============================================================================
