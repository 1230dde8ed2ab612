----------------------- MODULE StabilityWorkload_proofs -----------------------
(***************************************************************************)
(* Machine-checked proofs about IntegerWorkload and StabilityWorkload, for *)
(* any number of workers, blocks, repetitions and clock ticks.             *)
(***************************************************************************)
EXTENDS StabilityWorkload, FiniteSetTheorems, TLAPS

(* Division with remainder, by a variable divisor.                           *)
LEMMA Euclid ==
  ASSUME NEW n \in Nat, NEW w \in Nat \ {0}
  PROVE  /\ n \div w \in Nat /\ n % w \in 0 .. w - 1
         /\ n = w * (n \div w) + (n % w)
  OBVIOUS

-----------------------------------------------------------------------------
(* The invariant of a call, in parts: the types; what has been done in each  *)
(* phase of the calling thread; what a finished task has done; and why a     *)
(* task, or the call, ends as it does.                                       *)

Digests == [worker : Int, blocks : Nat, sound : BOOLEAN]
Preparing == pc \in {"limits", "token", "clock"}
Busy == {"idle", "queued", "token", "clock"}
Failed == {"timeout", "cancelled"}

CallTypeOK ==
  /\ config \in [workers : Nat \ {0}, operations : Nat \ {0}, timeout : {0, 1},
                 expected : Seq(Digests)]
  /\ pc \in {"limits", "token", "clock", "submit", "collect", "leave", "done"}
  /\ left \in Int /\ next \in Nat
  /\ digests \in Seq(Digests)
  /\ pending \in Ends
  /\ task \in [Indexes -> Busy \cup Failed \cup {"finished"}]
  /\ hashed \in [Indexes -> Nat]
  /\ digest \in [Indexes -> Digests]

FlagsOK ==
  token \in BOOLEAN /\ runToken \in BOOLEAN /\ expired \in BOOLEAN /\ correct \in BOOLEAN

(* The digests of the first n tasks have been taken, in their order.        *)
Collected(n) ==
  /\ Len(digests) = n
  /\ \A k \in 1 .. n : digests[k] = digest[k - 1] /\ task[k - 1] = "finished"

PhaseOK ==
  /\ Preparing => /\ pending = "none" /\ next = 0 /\ digests = << >>
                  /\ \A i \in Indexes : task[i] = "idle"
  /\ pc = "submit" => /\ pending = "none" /\ digests = << >> /\ next < config.workers
                      /\ \A i \in Indexes : i >= next => task[i] = "idle"
  /\ pc = "collect" => pending = "none" /\ next < config.workers /\ Collected(next)
  /\ pc = "leave" => pending \in {"result", "timeout", "cancelled", "interrupt"}
  /\ pc = "done" => pending # "none"
  /\ pc = "done" /\ pending # "interrupt" => \A i \in Indexes : ~Live(i)
  /\ pending = "result" => Collected(config.workers)
  /\ pc = "done" /\ pending = "result" => (correct <=> digests = ExpectedChecksum)
  /\ pending = "limit" => ~Fits \/ config.timeout = 0
  /\ pending = "result" \/ pc \in {"token", "clock", "submit", "collect"} => Fits
  /\ config.timeout = 0 =>
       pc \in {"limits", "done"} /\ \A i \in Indexes : task[i] = "idle"

WorkOK ==
  \A i \in Indexes : task[i] = "finished" =>
    hashed[i] = Counts[i] /\ digest[i] = Digest(i, Counts[i], digest[i].sound)

Caused == runToken \/ (config.workers > 1 /\ expired)

(* The token is only cancelled for a reason, and every reason but an         *)
(* interrupt keeps the call from returning a result.  TokenOK is kept apart  *)
(* from CallOK because the clock of the repetitions cancels the token too,   *)
(* when no call is under way.                                                *)
TokenOK ==
  /\ Preparing => ~token
  /\ token => \/ pending = "interrupt"
              \/ pc = "done" /\ pending = "timeout"
              \/ \E i \in Indexes : task[i] \in Failed

(* A task that was cancelled either saw the run's token, or another task of  *)
(* the pool meet the deadline, or an interrupt.                              *)
SignalOK ==
  /\ \A i \in Indexes : /\ task[i] = "timeout" => expired
                        /\ task[i] = "cancelled" => pending = "interrupt" \/ Caused
  /\ pending = "timeout" => expired
  /\ pending = "cancelled" => Caused

CallOK == CallTypeOK /\ FlagsOK /\ PhaseOK /\ WorkOK /\ SignalOK

(* The shares of the workers are numbers, and so the reference is a checksum. *)
LEMMA CountsAre ==
  ASSUME NEW n \in Nat, NEW w \in Nat \ {0}
  PROVE  /\ OperationCounts(n, w) \in [0 .. w - 1 -> Nat]
         /\ ReferenceFor(n, w) \in Seq(Digests)
         /\ Len(ReferenceFor(n, w)) = w
<1>1. n \div w \in Nat /\ n % w \in Nat
  BY Euclid
<1>2. OperationCounts(n, w) \in [0 .. w - 1 -> Nat]
  BY <1>1 DEF OperationCounts
<1>3. \A k \in 1 .. w : k - 1 \in 0 .. w - 1
  OBVIOUS
<1>4. ReferenceFor(n, w) \in [1 .. w -> Digests]
  BY <1>2, <1>3 DEF ReferenceFor, Digest, Digests
<1> QED BY <1>2, <1>4

-----------------------------------------------------------------------------
(* One call of the integer workload.                                         *)

LEMMA ConfigsAre ==
  ASSUME NEW c \in Configs
  PROVE  /\ c \in [workers : Nat \ {0}, operations : Nat \ {0}, timeout : {0, 1},
                   expected : Seq(Digests)]
         /\ c.expected \in {NoChecksum, WrongChecksum, ReferenceFor(c.operations, c.workers)}
<1>1. PICK w \in WorkerCounts, n \in OperationTotals, e \in Expectations, t \in {0, 1} :
        c = [workers |-> w, operations |-> n, timeout |-> t,
             expected |-> ConfiguredChecksum(e, n, w)]
  BY DEF Configs
<1>2. w \in Nat \ {0} /\ n \in Nat \ {0} /\ e \in {"none", "right", "wrong"}
  BY ConstantsAssumption
<1>3. Nothing \in Digests
  BY DEF Nothing, Digests
<1>4. NoChecksum \in Seq(Digests) /\ WrongChecksum \in Seq(Digests)
  BY <1>3 DEF NoChecksum, WrongChecksum
<1>5. ReferenceFor(n, w) \in Seq(Digests)
  BY <1>2, CountsAre
<1> HIDE DEF NoChecksum, WrongChecksum
<1>6. ConfiguredChecksum(e, n, w) \in {NoChecksum, WrongChecksum, ReferenceFor(n, w)}
  BY <1>2 DEF ConfiguredChecksum
<1> QED BY <1>1, <1>2, <1>4, <1>5, <1>6

LEMMA CallInit == Init => CallOK /\ TokenOK
<1> SUFFICES ASSUME Init PROVE CallOK /\ TokenOK
  OBVIOUS
<1>1. config \in [workers : Nat \ {0}, operations : Nat \ {0}, timeout : {0, 1},
                expected : Seq(Digests)]
  BY ConfigsAre DEF Init
<1>2. Checkpoints(config) \in Int
  BY <1>1 DEF Checkpoints
<1>3. Nothing \in Digests
  BY DEF Nothing, Digests
<1>4. CallTypeOK /\ FlagsOK
  <2>1. /\ task \in [Indexes -> Busy \cup Failed \cup {"finished"}]
        /\ hashed \in [Indexes -> Nat]
        /\ digest \in [Indexes -> Digests]
    BY <1>3 DEF Init, Busy
  <2>2. pc = "limits" /\ left \in Int /\ next \in Nat /\ digests \in Seq(Digests)
    BY <1>2 DEF Init
  <2>3. pending \in Ends
    BY DEF Init, Ends
  <2>4. correct \in BOOLEAN /\ token \in BOOLEAN /\ runToken \in BOOLEAN /\ expired \in BOOLEAN
    BY DEF Init
  <2> QED BY <1>1, <2>1, <2>2, <2>3, <2>4 DEF CallTypeOK, FlagsOK
<1>5. PhaseOK
  BY <1>1 DEF Init, PhaseOK, Preparing
<1>6. WorkOK /\ SignalOK /\ TokenOK
  BY DEF Init, WorkOK, SignalOK, TokenOK
<1> QED BY <1>4, <1>5, <1>6 DEF CallOK

(* What the calling thread does next keeps the invariant.                    *)
LEMMA MainStep ==
  ASSUME CallOK, TokenOK, Main
  PROVE  CallOK' /\ TokenOK'
<1> USE DEF CallOK, pool, signals
<1>f. FlagsOK'
  BY Zenon DEF Main, CheckLimits, MainToken, MainClock, Submit, Collect, Leave, FlagsOK
<1>0. /\ config' = config /\ Fits' = Fits /\ Indexes' = Indexes /\ Counts' = Counts
      /\ hashed' = hashed /\ digest' = digest /\ expired' = expired /\ runToken' = runToken
      /\ ExpectedChecksum' = ExpectedChecksum
  BY DEF Main, CheckLimits, MainToken, MainClock, Submit, Collect, Leave, Indexes, Counts,
         ExpectedChecksum, Reference, Fits
<1>1. CASE CheckLimits
  BY <1>0, <1>f, <1>1 DEF CheckLimits, CallTypeOK, PhaseOK, WorkOK, SignalOK, TokenOK, Ends,
     Preparing, Collected, Live, Caused
<1>2. CASE MainToken
  BY <1>0, <1>f, <1>2 DEF MainToken, CallTypeOK, PhaseOK, WorkOK, SignalOK, TokenOK, Ends,
     Preparing, Collected, Live, Caused, Cancelled
<1>3. CASE MainClock
  <2>1. CallTypeOK'
    BY <1>0, <1>3 DEF MainClock, CallTypeOK, Ends, Busy, Failed
  <2>2. PhaseOK'
    BY <1>0, <1>3 DEF MainClock, CallTypeOK, PhaseOK, Preparing, Collected, Live
  <2>3. WorkOK'
    BY <1>0, <1>3 DEF MainClock, CallTypeOK, WorkOK
  <2>4. SignalOK'
    BY <1>0, <1>3 DEF MainClock, CallTypeOK, PhaseOK, SignalOK, Preparing, Caused
  <2>5. TokenOK'
    BY <1>0, <1>3 DEF MainClock, CallTypeOK, PhaseOK, TokenOK, Preparing, Failed
  <2> QED BY <2>1, <2>2, <2>3, <2>4, <2>5, <1>f DEF CallOK
<1>4. CASE Submit
  <2>1. CallTypeOK'
    <3>1. next \in Indexes /\ task' = [task EXCEPT ![next] = "queued"]
      BY <1>4 DEF Submit, CallTypeOK, PhaseOK, Indexes
    <3>2. task' \in [Indexes -> Busy \cup Failed \cup {"finished"}]
      BY <3>1 DEF CallTypeOK, Busy
    <3>3. /\ pc' \in {"submit", "collect"} /\ next' \in Nat
          /\ left' = left /\ digests' = digests /\ pending' = pending
      BY <1>4 DEF Submit, CallTypeOK
    <3> QED BY <1>0, <3>2, <3>3 DEF CallTypeOK
  <2>2. PhaseOK'
    BY <1>0, <1>4 DEF Submit, CallTypeOK, PhaseOK, Preparing, Collected, Live, Indexes
  <2>3. WorkOK'
    BY <1>0, <1>4 DEF Submit, CallTypeOK, WorkOK, Indexes
  <2>4. SignalOK'
    BY <1>0, <1>4 DEF Submit, CallTypeOK, PhaseOK, SignalOK, TokenOK, Preparing, Caused, FlagsOK, Indexes
  <2>5. TokenOK'
    BY <1>0, <1>4 DEF Submit, CallTypeOK, PhaseOK, TokenOK, Preparing, Failed, Indexes
  <2> QED BY <2>1, <2>2, <2>3, <2>4, <2>5, <1>f DEF CallOK
<1>5. CASE Collect
  <2>1. CallTypeOK'
    <3>1. /\ pc' \in {"collect", "leave"} /\ next' \in Nat /\ pending' \in Ends
          /\ left' = left /\ task' = task
      BY <1>5 DEF Collect, CallTypeOK, PhaseOK, Ends, Failed
    <3>2. next \in Indexes
      BY <1>5 DEF Collect, CallTypeOK, PhaseOK, Indexes
    <3>3. digests' = digests \/ digests' = Append(digests, digest[next])
      BY <1>5 DEF Collect
    <3>4. digest[next] \in Digests /\ digests \in Seq(Digests)
      BY <3>2 DEF CallTypeOK
    <3>5. digests' \in Seq(Digests)
      <4> HIDE DEF Digests
      <4> QED BY <3>3, <3>4
    <3> QED BY <1>0, <3>1, <3>5 DEF CallTypeOK
  <2>2. PhaseOK'
    <3>1. /\ pc = "collect" /\ pending = "none" /\ next \in Nat /\ next < config.workers
          /\ config.workers \in Nat /\ task' = task /\ config.timeout # 0
          /\ Fits /\ Fits'
          /\ Collected(next)
      BY <1>0, <1>5 DEF Collect, PhaseOK, CallTypeOK
    <3>2. CASE task[next] \in Failed
      BY <1>0, <1>5, <3>1, <3>2 DEF Collect, PhaseOK, Preparing, Failed
    <3>3. CASE task[next] = "finished"
      <4>0. next \in Indexes
        BY <3>1 DEF Indexes
      <4>1. digests' = Append(digests, digest[next]) /\ digest[next] \in Digests
        <5>1. digests' = Append(digests, digest[next])
          BY <1>5, <3>3 DEF Collect
        <5>2. digest[next] \in Digests
          BY <4>0 DEF CallTypeOK
        <5> QED BY <5>1, <5>2
      <4>2. PICK n \in Nat : n = next
        BY <3>1
      <4>3. Len(digests) = n /\ digests \in Seq(Digests)
        BY <3>1, <4>2 DEF Collected, CallTypeOK
      <4>4. Len(digests') = n + 1 /\ digests'[n + 1] = digest[n]
        BY <4>1, <4>2, <4>3
      <4>5. \A k \in 1 .. n : digests'[k] = digests[k]
        BY <4>1, <4>3
      <4>6. \A k \in 1 .. n + 1 : digests'[k] = digest[k - 1] /\ task[k - 1] = "finished"
        <5>1. \A k \in 1 .. n : digests'[k] = digest[k - 1] /\ task[k - 1] = "finished"
          BY <3>1, <4>2, <4>5 DEF Collected
        <5>2. digests'[n + 1] = digest[(n + 1) - 1] /\ task[(n + 1) - 1] = "finished"
          BY <3>3, <4>2, <4>4
        <5>3. \A k \in 1 .. n + 1 : k \in 1 .. n \/ k = n + 1
          OBVIOUS
        <5> QED BY <5>1, <5>2, <5>3
      <4>7. CASE n + 1 < config.workers
        <5>1. next' = n + 1 /\ pc' = pc /\ pending' = pending
          BY <1>5, <3>1, <3>3, <4>2, <4>7 DEF Collect
        <5> QED BY <1>0, <3>1, <4>4, <4>6, <4>7, <5>1 DEF PhaseOK, Preparing, Collected
      <4>8. CASE ~(n + 1 < config.workers)
        <5>1. n + 1 = config.workers /\ pc' = "leave" /\ pending' = "result"
          BY <1>5, <3>1, <3>3, <4>2, <4>8 DEF Collect
        <5> QED BY <1>0, <3>1, <4>4, <4>6, <5>1 DEF PhaseOK, Preparing, Collected
      <4> QED BY <4>7, <4>8
    <3> QED BY <1>5, <3>2, <3>3 DEF Collect, Failed
  <2>3. WorkOK'
    BY <1>0, <1>5 DEF Collect, CallTypeOK, WorkOK, Indexes
  <2>4. SignalOK'
    BY <1>0, <1>5 DEF Collect, CallTypeOK, PhaseOK, SignalOK, Caused, Indexes
  <2>5. TokenOK'
    BY <1>0, <1>5 DEF Collect, CallTypeOK, PhaseOK, TokenOK, Preparing, Failed, Indexes
  <2> QED BY <2>1, <2>2, <2>3, <2>4, <2>5, <1>f DEF CallOK
<1>6. CASE Leave
  <2>1. CallTypeOK'
    BY <1>0, <1>6 DEF Leave, CallTypeOK, Ends, Busy, Failed
  <2>2. PhaseOK'
    BY <1>0, <1>6 DEF Leave, CallTypeOK, PhaseOK, Preparing, Collected, Live
  <2>3. WorkOK'
    BY <1>0, <1>6 DEF Leave, CallTypeOK, WorkOK
  <2>4. SignalOK'
    BY <1>0, <1>6 DEF Leave, CallTypeOK, PhaseOK, SignalOK, Caused
  <2>5. TokenOK'
    BY <1>0, <1>6 DEF Leave, CallTypeOK, PhaseOK, TokenOK, Preparing, Failed
  <2> QED BY <2>1, <2>2, <2>3, <2>4, <2>5, <1>f DEF CallOK
<1> QED BY <1>1, <1>2, <1>3, <1>4, <1>5, <1>6 DEF Main

(* So does a task, and while the token has a cause it keeps one.             *)
LEMMA TaskStep ==
  ASSUME CallOK, TokenOK, NEW i \in Indexes, Task(i)
  PROVE  CallOK' /\ TokenOK'
<1> USE DEF CallOK, main, signals
<1>f. FlagsOK'
  BY Zenon DEF Task, StartTask, TaskToken, TaskClock, TaskFinish, FlagsOK
<1>0. /\ config' = config /\ Fits' = Fits /\ Indexes' = Indexes /\ Counts' = Counts
      /\ pc' = pc /\ pending' = pending /\ digests' = digests /\ next' = next
      /\ left' = left /\ correct' = correct /\ expired' = expired /\ runToken' = runToken
      /\ ExpectedChecksum' = ExpectedChecksum
  BY DEF Task, StartTask, TaskToken, TaskClock, TaskFinish, Indexes, Counts,
         ExpectedChecksum, Reference, Fits
<1>1. /\ Live(i)
      /\ \E x \in Busy \cup Failed \cup {"finished"} :
           x # "idle" /\ task' = [task EXCEPT ![i] = x]
      /\ \A j \in Indexes \ {i} : digest'[j] = digest[j] /\ hashed'[j] = hashed[j]
  BY DEF Task, StartTask, TaskToken, TaskClock, TaskFinish, Live, Busy, Failed, CallTypeOK
<1>2. /\ \A j \in Indexes \ {i} : task'[j] = task[j]
      /\ task[i] \in {"queued", "token", "clock"} /\ task'[i] # "idle"
  BY <1>1 DEF CallTypeOK, Live
<1>3. CallTypeOK'
  <2>1. task' \in [Indexes -> Busy \cup Failed \cup {"finished"}]
    BY <1>1 DEF CallTypeOK
  <2>2. hashed' \in [Indexes -> Nat]
    <3>1. hashed' = hashed \/ hashed' = [hashed EXCEPT ![i] = @ + 1]
      BY DEF Task, StartTask, TaskToken, TaskClock, TaskFinish
    <3> QED BY <3>1 DEF CallTypeOK
  <2>3. ASSUME NEW x \in BOOLEAN PROVE Digest(i, hashed[i], x) \in Digests
    <3>1. i \in Int /\ hashed[i] \in Nat
      <4>1. i \in Int
        BY DEF Indexes, CallTypeOK
      <4>2. hashed[i] \in Nat
        BY DEF CallTypeOK
      <4> QED BY <4>1, <4>2
    <3> QED BY <3>1 DEF Digest, Digests
  <2>4. digest' \in [Indexes -> Digests]
    <3>1. CASE digest' = digest
      BY <3>1 DEF CallTypeOK
    <3>2. CASE TaskFinish(i)
      <4>1. PICK x \in {TRUE, ~MayMiscompute} :
              digest' = [digest EXCEPT ![i] = Digest(i, hashed[i], x)]
        BY <3>2 DEF TaskFinish
      <4>2. x \in BOOLEAN
        BY ConstantsAssumption
      <4>3. Digest(i, hashed[i], x) \in Digests
        BY <2>3, <4>2
      <4> QED BY <4>1, <4>3 DEF CallTypeOK
    <3> QED BY <3>1, <3>2 DEF Task, StartTask, TaskToken, TaskClock
  <2> QED BY <1>0, <2>1, <2>2, <2>4 DEF CallTypeOK
<1>4. PhaseOK'
  <2>1. ~Preparing /\ config.timeout # 0 /\ (pc = "submit" => i < next)
        /\ (pc = "done" => pending = "interrupt")
    BY <1>1, <1>2 DEF PhaseOK, CallTypeOK, Indexes
  <2>2. \A n \in 0 .. config.workers : Collected(n) => Len(digests) = n /\
          \A k \in 1 .. n : digests[k] = digest'[k - 1] /\ task'[k - 1] = "finished"
    <3> SUFFICES ASSUME NEW n \in 0 .. config.workers, Collected(n), NEW k \in 1 .. n
                 PROVE  digests[k] = digest'[k - 1] /\ task'[k - 1] = "finished"
      BY DEF Collected
    <3>1. k - 1 \in Indexes /\ task[k - 1] = "finished" /\ digests[k] = digest[k - 1]
      <4>1. config.workers \in Nat
        BY DEF CallTypeOK
      <4>2. k - 1 \in 0 .. config.workers - 1
        BY <4>1
      <4> QED BY <4>2 DEF Collected, Indexes
    <3> QED BY <1>1, <1>2, <3>1
  <2>3. pc = "collect" => Len(digests) = next /\ \A k \in 1 .. next :
          digests[k] = digest'[k - 1] /\ task'[k - 1] = "finished"
    BY <2>2 DEF PhaseOK, CallTypeOK
  <2>4. pending = "result" => Len(digests) = config.workers /\ \A k \in 1 .. config.workers :
          digests[k] = digest'[k - 1] /\ task'[k - 1] = "finished"
    BY <2>2 DEF PhaseOK, CallTypeOK
  <2>5. pc = "submit" => \A j \in Indexes : j >= next => task'[j] = "idle"
    BY <1>2, <2>1 DEF PhaseOK, CallTypeOK, Indexes
  <2> QED BY <1>0, <2>1, <2>3, <2>4, <2>5 DEF PhaseOK, Preparing, Collected
<1>5. WorkOK'
  <2>1. CASE TaskFinish(i)
    <3>1. PICK x \in {TRUE, ~MayMiscompute} :
            digest' = [digest EXCEPT ![i] = Digest(i, hashed[i], x)]
      BY <2>1 DEF TaskFinish
    <3>2. digest'[i] = Digest(i, hashed[i], x) /\ hashed'[i] = hashed[i] /\ hashed[i] = Counts[i]
      BY <2>1, <3>1 DEF TaskFinish, CallTypeOK
    <3>3. digest'[i] = Digest(i, Counts[i], digest'[i].sound)
      BY <3>2 DEF Digest
    <3> QED BY <1>0, <1>1, <1>2, <3>2, <3>3 DEF WorkOK
  <2>2. CASE task'[i] # "finished"
    BY <1>0, <1>1, <1>2, <2>2 DEF WorkOK
  <2> QED BY <2>1, <2>2 DEF Task, StartTask, TaskToken, TaskClock, CallTypeOK
<1>6. SignalOK'
  <2>1. task'[i] = "timeout" => expired
    BY DEF Task, StartTask, TaskToken, TaskClock, TaskFinish, CallTypeOK
  <2>2. task'[i] = "cancelled" => pending = "interrupt" \/ Caused
    <3> SUFFICES ASSUME task'[i] = "cancelled", pending # "interrupt" PROVE Caused
      OBVIOUS
    <3>1. token \/ runToken
      BY DEF Task, StartTask, TaskToken, TaskClock, TaskFinish, CallTypeOK, Cancelled
    <3>2. CASE runToken
      BY <3>2 DEF Caused
    <3>3. CASE token
      <4>1. PICK j \in Indexes : task[j] \in Failed
        BY <1>1, <3>3 DEF TokenOK, PhaseOK
      <4>2. j # i
        BY <1>2, <4>1 DEF Failed
      <4>3. config.workers > 1
        BY <4>2 DEF Indexes, CallTypeOK
      <4> QED BY <4>1, <4>3 DEF SignalOK, Failed, Caused
    <3> QED BY <3>1, <3>2, <3>3
  <2> QED BY <1>0, <1>2, <2>1, <2>2 DEF SignalOK, Caused
<1>7. TokenOK'
  <2>1. ~Preparing
    BY <1>2 DEF PhaseOK
  <2>2. CASE token' = token
    <3>1. \A j \in Indexes : task[j] \in Failed => j # i
      BY <1>2 DEF Failed
    <3> QED BY <1>0, <1>2, <2>1, <2>2, <3>1 DEF TokenOK, Preparing
  <2>3. CASE task'[i] = "timeout"
    BY <1>0, <2>1, <2>3 DEF TokenOK, Preparing, Failed
  <2> QED BY <2>2, <2>3 DEF Task, StartTask, TaskToken, TaskClock, TaskFinish, CallTypeOK
<1> QED BY <1>f, <1>3, <1>4, <1>5, <1>6, <1>7

(* So do the clock, a cancellation of the run and Ctrl+C.                    *)
LEMMA SignalStep ==
  ASSUME CallOK, Expire \/ CancelRun \/ Interrupt
  PROVE  CallOK' /\ (TokenOK => TokenOK')
<1> USE DEF CallOK, main, pool
<1>f. FlagsOK'
  BY Zenon DEF Expire, CancelRun, Interrupt, FlagsOK
<1>0. /\ config' = config /\ Fits' = Fits /\ Indexes' = Indexes /\ Counts' = Counts
      /\ task' = task /\ hashed' = hashed /\ digest' = digest /\ digests' = digests
      /\ left' = left /\ next' = next /\ correct' = correct
      /\ ExpectedChecksum' = ExpectedChecksum
  BY DEF Expire, CancelRun, Interrupt, Indexes, Counts, ExpectedChecksum, Reference, Fits
<1>1. CASE Expire
  <2>1. CallTypeOK'
    BY <1>0, <1>1 DEF Expire, CallTypeOK, Ends, Busy, Failed
  <2>2. PhaseOK'
    BY <1>0, <1>1 DEF Expire, CallTypeOK, PhaseOK, Preparing, Collected, Live
  <2>3. WorkOK'
    BY <1>0, <1>1 DEF Expire, CallTypeOK, WorkOK
  <2>4. SignalOK'
    BY <1>0, <1>1 DEF Expire, CallTypeOK, PhaseOK, SignalOK, TokenOK, Preparing, Caused, FlagsOK
  <2>5. TokenOK => TokenOK'
    BY <1>0, <1>1 DEF Expire, CallTypeOK, PhaseOK, TokenOK, Preparing, Failed
  <2> QED BY <2>1, <2>2, <2>3, <2>4, <2>5, <1>f DEF CallOK
<1>2. CASE CancelRun
  <2>1. pc' = pc /\ pending' = pending /\ expired' = expired /\ token' = token /\ runToken'
    BY <1>2 DEF CancelRun
  <2>2. CallTypeOK' /\ WorkOK'
    BY <1>0, <2>1 DEF CallTypeOK, WorkOK
  <2>3. PhaseOK'
    BY <1>0, <2>1 DEF PhaseOK, Preparing, Collected, Live
  <2>4. SignalOK'
    BY <1>0, <2>1 DEF SignalOK, Caused
  <2>5. TokenOK => TokenOK'
    BY <1>0, <2>1 DEF TokenOK, Preparing
  <2> QED BY <2>2, <2>3, <2>4, <2>5, <1>f
<1>3. CASE Interrupt
  BY <1>0, <1>f, <1>3 DEF Interrupt, CallTypeOK, PhaseOK, WorkOK, SignalOK, TokenOK, Ends,
     Preparing, Collected, Live, Caused
<1> QED BY <1>1, <1>2, <1>3

-----------------------------------------------------------------------------
(* What the invariant of a call says of its end.                             *)

LEMMA DrainedAtEnd == CallOK => PoolDrained
  BY DEF CallOK, PhaseOK, PoolDrained, Done

(* The shares of the workers add up: every worker has the rounded-down share *)
(* and as many as the remainder says have one block more.                    *)
LEMMA SharesAddUp ==
  ASSUME NEW n \in Nat, NEW w \in Nat \ {0}
  PROVE  Cardinality(UNION {{i} \X (1 .. OperationCounts(n, w)[i]) : i \in 0 .. w - 1}) = n
<1> DEFINE q == n \div w
           r == n % w
           blocks == UNION {{i} \X (1 .. OperationCounts(n, w)[i]) : i \in 0 .. w - 1}
           even == (0 .. w - 1) \X (1 .. q)
           rest == (0 .. r - 1) \X {q + 1}
<1>1. q \in Nat /\ r \in Nat /\ r < w /\ n = w * q + r
  BY Euclid
<1>2. \A i \in 0 .. w - 1 : OperationCounts(n, w)[i] = IF i < r THEN q + 1 ELSE q
  BY <1>1 DEF OperationCounts
<1> HIDE DEF q, r
<1>3. blocks = even \cup rest
  <2>1. ASSUME NEW b \in blocks PROVE b \in even \cup rest
    <3>1. PICK i \in 0 .. w - 1 : b \in {i} \X (1 .. OperationCounts(n, w)[i])
      OBVIOUS
    <3>2. /\ b = <<i, b[2]>> /\ b[2] \in 1 .. (IF i < r THEN q + 1 ELSE q)
      BY <1>2, <3>1
    <3>3. b[2] \in 1 .. q \/ (i \in 0 .. r - 1 /\ b[2] = q + 1)
      BY <1>1, <3>2
    <3> QED BY <3>2, <3>3
  <2>2. ASSUME NEW b \in even \cup rest PROVE b \in blocks
    <3>1. PICK i \in 0 .. w - 1, k \in Nat \ {0} :
            b = <<i, k>> /\ (k <= q \/ (k = q + 1 /\ i < r))
      BY <1>1
    <3>2. k \in 1 .. OperationCounts(n, w)[i]
      BY <1>1, <1>2, <3>1
    <3> QED BY <3>1, <3>2
  <2> QED BY <2>1, <2>2
<1>4. IsFiniteSet(even) /\ Cardinality(even) = w * q
  <2>1. /\ IsFiniteSet(0 .. w - 1) /\ Cardinality(0 .. w - 1) = w
        /\ IsFiniteSet(1 .. q) /\ Cardinality(1 .. q) = q
    BY <1>1, FS_Interval
  <2>2. /\ IsFiniteSet(even)
        /\ Cardinality(even) = Cardinality(0 .. w - 1) * Cardinality(1 .. q)
    BY <2>1, FS_Product, Zenon
  <2> QED BY <2>1, <2>2, Zenon
<1>5. IsFiniteSet(rest) /\ Cardinality(rest) = r
  <2>1. IsFiniteSet(0 .. r - 1) /\ Cardinality(0 .. r - 1) = r
    BY <1>1, FS_Interval
  <2>2. IsFiniteSet({q + 1}) /\ Cardinality({q + 1}) = 1
    BY FS_Singleton
  <2>3. /\ IsFiniteSet(rest)
        /\ Cardinality(rest) = Cardinality(0 .. r - 1) * Cardinality({q + 1})
    BY <2>1, <2>2, FS_Product, Zenon
  <2>4. Cardinality(rest) = r * 1
    BY <2>1, <2>2, <2>3, Zenon
  <2> QED BY <1>1, <2>3, <2>4
<1>6. even \cap rest = {}
  BY <1>1
<1>7. Cardinality(even \cup rest) = w * q + r - Cardinality(even \cap rest)
  BY <1>4, <1>5, FS_Union
<1>8. Cardinality(even \cap rest) = 0
  BY <1>6, FS_EmptySet
<1>9. w * q \in Nat
  BY <1>1
<1>10. Cardinality(even \cup rest) = n
  <2> HIDE DEF even, rest
  <2> QED BY <1>1, <1>7, <1>8, <1>9
<1> QED BY <1>3, <1>10

LEMMA CompleteAtEnd == CallOK => ResultComplete
<1> SUFFICES ASSUME CallOK, Done, pending = "result"
             PROVE  Cardinality(HashedBlocks) = config.operations
  BY DEF ResultComplete
<1>1. config.operations \in Nat /\ config.workers \in Nat \ {0}
  BY DEF CallOK, CallTypeOK
<1>2. \A i \in Indexes : hashed[i] = Counts[i]
  <2> SUFFICES ASSUME NEW i \in Indexes PROVE task[i] = "finished"
    BY DEF CallOK, WorkOK
  <2>1. i + 1 \in 1 .. config.workers /\ (i + 1) - 1 = i
    BY <1>1 DEF Indexes
  <2>2. Collected(config.workers)
    BY DEF CallOK, PhaseOK
  <2> QED BY <2>1, <2>2 DEF Collected
<1>3. HashedBlocks = UNION {{i} \X (1 .. Counts[i]) : i \in Indexes}
  BY <1>2 DEF HashedBlocks
<1> QED BY <1>1, <1>3, SharesAddUp DEF Counts, Indexes

(* The digests of a result are the reference exactly when every task counted *)
(* right, and they are never the wrong checksum.                             *)
LEMMA ResultIsSound ==
  ASSUME CallOK, pending = "result"
  PROVE  /\ digests = Reference <=> \A i \in Indexes : digest[i].sound
         /\ digests # WrongChecksum
<1> DEFINE w == config.workers
<1>1. w \in Nat \ {0} /\ config.operations \in Nat
  BY DEF CallOK, CallTypeOK
<1>2. digests \in Seq(Digests) /\ Len(digests) = w
  BY DEF CallOK, CallTypeOK, PhaseOK, Collected
<1>3. Reference \in Seq(Digests) /\ Len(Reference) = w
  BY <1>1, CountsAre DEF Reference
<1>4. \A i \in Indexes :
        /\ i + 1 \in 1 .. w
        /\ digests[i + 1] = Digest(i, Counts[i], digest[i].sound)
        /\ Reference[i + 1] = Digest(i, Counts[i], TRUE)
        /\ digest[i].sound \in BOOLEAN
  <2> SUFFICES ASSUME NEW i \in Indexes
               PROVE  /\ i + 1 \in 1 .. w
                      /\ digests[i + 1] = Digest(i, Counts[i], digest[i].sound)
                      /\ Reference[i + 1] = Digest(i, Counts[i], TRUE)
                      /\ digest[i].sound \in BOOLEAN
    OBVIOUS
  <2>1. i + 1 \in 1 .. w /\ (i + 1) - 1 = i
    BY <1>1 DEF Indexes
  <2>2. digests[i + 1] = digest[i] /\ task[i] = "finished"
    BY <2>1 DEF CallOK, PhaseOK, Collected
  <2>3. digest[i] = Digest(i, Counts[i], digest[i].sound)
    BY <2>2 DEF CallOK, WorkOK
  <2>4. digest[i].sound \in BOOLEAN
    BY DEF CallOK, CallTypeOK, Digests
  <2>5. Reference[i + 1] = Digest(i, Counts[i], TRUE)
    BY <2>1 DEF Reference, ReferenceFor, Counts
  <2> QED BY <2>1, <2>2, <2>3, <2>4, <2>5
<1>5. ASSUME digests = Reference, NEW i \in Indexes PROVE digest[i].sound
  <2>1. Digest(i, Counts[i], digest[i].sound).sound = Digest(i, Counts[i], TRUE).sound
    BY <1>4, <1>5
  <2> QED BY <2>1 DEF Digest
<1>6. ASSUME \A i \in Indexes : digest[i].sound PROVE digests = Reference
  <2>1. ASSUME NEW k \in 1 .. w PROVE digests[k] = Reference[k]
    <3>1. k - 1 \in Indexes /\ (k - 1) + 1 = k
      BY <1>1 DEF Indexes
    <3>2. digest[k - 1].sound = TRUE
      BY <1>4, <1>6, <3>1
    <3> QED BY <1>4, <3>1, <3>2
  <2> QED
    <3> HIDE DEF Digests, w
    <3> QED BY <1>1, <1>2, <1>3, <2>1
<1>7. digests # WrongChecksum
  <2>1. 0 \in Indexes
    BY <1>1 DEF Indexes
  <2>2. digests[1].worker = 0
    <3>1. digests[0 + 1] = Digest(0, Counts[0], digest[0].sound)
      BY <1>4, <2>1
    <3> QED BY <3>1 DEF Digest
  <2>3. WrongChecksum[1].worker = -1
    BY DEF WrongChecksum, Nothing
  <2> QED BY <2>2, <2>3
<1> QED BY <1>5, <1>6, <1>7

-----------------------------------------------------------------------------
(* The repetitions.                                                          *)

(* Where the repetitions stand: between two calls the last one has returned  *)
(* a result and its token is not cancelled.                                  *)
StabilityTypeOK ==
  /\ step \in {"timeout", "token", "clock", "remaining", "call", "report", "done"}
  /\ rep \in 0 .. Repetitions
  /\ agreed \in BOOLEAN /\ sound \in BOOLEAN /\ late \in BOOLEAN
  /\ outcome \in Ends

Between == step \notin {"call", "done"}

ScheduleOK ==
  /\ step = "timeout" => rep = 0
  /\ step \in {"token", "clock", "remaining", "call"} => rep < Repetitions
  /\ step = "report" => rep = Repetitions
  /\ step # "done" => TokenOK
  /\ step = "done" => \A i \in Indexes : Live(i) => pending = "interrupt"
  /\ Between => /\ ~token
                /\ rep = 0 => pc = "limits"
                /\ rep > 0 => pc = "done" /\ pending = "result"
  /\ rep > 0 => Fits
  /\ expired => late
  /\ config.timeout = 0 => late

(* As long as everything was sound, the checksum that the next repetition    *)
(* trusts, or the running one compares with, is the reference itself: this   *)
(* is what makes the chain of checksums as good as one reference.            *)
VerdictOK ==
  /\ rep = 0 => /\ agreed
                /\ sound <=> config.expected # WrongChecksum
  /\ rep > 0 => (agreed <=> sound)
  /\ sound => \/ rep > 0 /\ Between /\ digests = Reference
              \/ (rep = 0 \/ ~Between) /\ ExpectedChecksum = Reference
              \/ step = "done"

EndOK ==
  step = "done" =>
    /\ outcome = "result" => rep = Repetitions
    /\ outcome = "timeout" => late
    /\ outcome = "limit" /\ rep > 0 => late
    /\ outcome = "cancelled" => runToken \/ (config.workers > 1 /\ late)

HintOK ==
  \/ durations = << >>
  \/ durations \in [1 .. Repetitions -> Durations] /\ hint = Hint(durations)

StabilityOK ==
  CallOK /\ StabilityTypeOK /\ ScheduleOK /\ VerdictOK /\ EndOK /\ HintOK

LEMMA SameCall ==
  ASSUME UNCHANGED vars
  PROVE  /\ CallOK => CallOK'
         /\ TokenOK => TokenOK'
         /\ Indexes' = Indexes /\ Reference' = Reference /\ Fits' = Fits
         /\ ExpectedChecksum' = ExpectedChecksum
         /\ \A i \in Indexes : Live(i)' <=> Live(i)
<1>1. /\ CallTypeOK => CallTypeOK'
      /\ FlagsOK => FlagsOK'
      /\ WorkOK => WorkOK'
      /\ SignalOK => SignalOK'
      /\ TokenOK => TokenOK'
      /\ PhaseOK => PhaseOK'
  BY DEF vars, CallTypeOK, FlagsOK, WorkOK, SignalOK, TokenOK, PhaseOK, Indexes, Counts,
     Collected, Preparing, Caused, Live, ExpectedChecksum, Reference, Fits
<1> QED BY <1>1 DEF CallOK, vars, Indexes, Reference, ExpectedChecksum, Live, Fits

LEMMA StabilityInitOK == StabilityInit => StabilityOK
<1> SUFFICES ASSUME StabilityInit PROVE StabilityOK
  OBVIOUS
<1>1. CallOK /\ TokenOK
  BY CallInit DEF StabilityInit
<1>2. /\ config.timeout = 1
      /\ config.expected \in {NoChecksum, WrongChecksum, Reference}
  <2>1. config \in Configs /\ config.timeout = 1
    BY DEF StabilityInit, Init
  <2> QED BY <2>1, ConfigsAre DEF Reference
<1>3. StabilityTypeOK
  <2>1. sound \in BOOLEAN /\ agreed \in BOOLEAN /\ late \in BOOLEAN
    BY Zenon DEF StabilityInit
  <2> QED BY <2>1, RepetitionsAssumption DEF StabilityInit, StabilityTypeOK, Ends
<1>4. ScheduleOK
  BY <1>1, <1>2 DEF StabilityInit, Init, ScheduleOK, Between
<1>5. VerdictOK
  <2>1. sound => ExpectedChecksum = Reference
    BY <1>2 DEF StabilityInit, ExpectedChecksum
  <2>2. agreed /\ (sound <=> config.expected # WrongChecksum)
    BY Zenon DEF StabilityInit
  <2>3. rep = 0
    BY DEF StabilityInit
  <2> QED BY <2>1, <2>2, <2>3 DEF VerdictOK
<1>6. EndOK /\ HintOK
  BY DEF StabilityInit, EndOK, HintOK
<1> QED BY <1>1, <1>3, <1>4, <1>5, <1>6 DEF StabilityOK

(* The steps that leave the call alone.                                      *)
LEMMA OuterStep ==
  ASSUME StabilityOK, UNCHANGED vars,
         \/ RequireTimeout \/ RemainingToken \/ TakeResult \/ Propagate \/ Report
         \/ PassDeadline \/ InterruptBetween
  PROVE  StabilityOK'
<1> USE DEF StabilityOK
<1>0. /\ CallOK' /\ (TokenOK => TokenOK')
      /\ Indexes' = Indexes /\ Reference' = Reference /\ Fits' = Fits
      /\ ExpectedChecksum' = ExpectedChecksum
      /\ \A i \in Indexes : Live(i)' <=> Live(i)
      /\ config' = config /\ pc' = pc /\ pending' = pending /\ digests' = digests
      /\ token' = token /\ runToken' = runToken /\ expired' = expired
  BY SameCall DEF vars
<1>1. \A i \in Indexes : Live(i) => pc # "limits" /\ (pc = "done" => pending = "interrupt")
  BY DEF CallOK, PhaseOK, Preparing, Live
<1>2. CASE RequireTimeout
  BY <1>0, <1>1, <1>2, RepetitionsAssumption DEF RequireTimeout, StabilityTypeOK, ScheduleOK, VerdictOK, EndOK,
     HintOK, Between, End, Ends
<1>3. CASE RemainingToken
  BY <1>0, <1>1, <1>3 DEF RemainingToken, StabilityTypeOK, ScheduleOK, VerdictOK, EndOK,
     HintOK, Between, End, Ends, Cancelled
<1>4. CASE TakeResult
  <2>1. /\ step = "call" /\ pc = "done" /\ pending = "result" /\ rep \in Nat
        /\ Repetitions \in Nat /\ rep < Repetitions
        /\ rep' = rep + 1 /\ outcome' = outcome /\ durations' = durations /\ hint' = hint
        /\ late' = late /\ step' = IF rep' < Repetitions THEN "token" ELSE "report"
    BY <1>4, RepetitionsAssumption DEF TakeResult, StabilityTypeOK, ScheduleOK
  <2>2. ~token
    <3>1. \A i \in Indexes : task[i] = "finished"
      <4>1. \A i \in Indexes : i + 1 \in 1 .. config.workers /\ (i + 1) - 1 = i
        BY DEF Indexes, CallOK, CallTypeOK
      <4>2. Collected(config.workers)
        BY <2>1 DEF CallOK, PhaseOK
      <4> QED BY <4>1, <4>2 DEF Collected
    <3> QED BY <2>1, <3>1 DEF ScheduleOK, TokenOK, Failed
  <2>3. StabilityTypeOK'
    <3>1. agreed' \in BOOLEAN /\ sound' \in BOOLEAN
      BY <1>4, Zenon DEF TakeResult
    <3> QED BY <2>1, <3>1 DEF StabilityTypeOK
  <2>4. ScheduleOK'
    BY <1>0, <2>1, <2>2 DEF ScheduleOK, Between, CallOK, PhaseOK
  <2>5. VerdictOK'
    <3> DEFINE all == \A i \in Indexes : digest[i].sound
    <3>1. /\ agreed' <=> (agreed /\ correct)
          /\ sound' <=> (sound /\ all)
      BY <1>4, Zenon DEF TakeResult
    <3>2. /\ digests = Reference <=> all
          /\ digests # WrongChecksum
          /\ correct <=> digests = ExpectedChecksum
      BY <2>1, ResultIsSound DEF CallOK, PhaseOK
    <3> HIDE DEF all
    <3>3. CASE sound
      <4>1. ExpectedChecksum = Reference /\ agreed
        BY <2>1, <3>3 DEF VerdictOK, Between
      <4> QED BY <1>0, <2>1, <3>1, <3>2, <3>3, <4>1 DEF VerdictOK, Between
    <3>4. CASE ~sound
      <4>1. CASE rep = 0
        <5>1. ExpectedChecksum = WrongChecksum
          BY <3>4, <4>1 DEF VerdictOK, ExpectedChecksum, NoChecksum, WrongChecksum
        <5> QED BY <2>1, <3>1, <3>2, <3>4, <5>1 DEF VerdictOK
      <4>2. CASE rep > 0
        BY <2>1, <3>1, <3>4, <4>2 DEF VerdictOK
      <4> QED BY <2>1, <4>1, <4>2
    <3> QED BY <3>3, <3>4
  <2> QED BY <1>0, <2>1, <2>3, <2>4, <2>5 DEF EndOK, HintOK
<1>5. CASE Propagate
  <2>1. /\ step = "call" /\ pc = "done" /\ pending # "result" /\ pending \in Ends
        /\ step' = "done" /\ outcome' = pending
        /\ rep' = rep /\ agreed' = agreed /\ sound' = sound
        /\ durations' = durations /\ hint' = hint /\ late' = late
    BY <1>5 DEF Propagate, End, CallOK, CallTypeOK
  <2>2. StabilityTypeOK' /\ HintOK'
    BY <2>1 DEF StabilityTypeOK, HintOK
  <2>3. ScheduleOK'
    BY <1>0, <1>1, <2>1 DEF ScheduleOK, Between
  <2>4. VerdictOK'
    BY <1>0, <2>1 DEF VerdictOK, Between
  <2>5. EndOK'
    <3>1. /\ pending = "timeout" => expired
          /\ pending = "limit" => ~Fits \/ config.timeout = 0
          /\ pending = "cancelled" => Caused
      BY DEF CallOK, SignalOK, PhaseOK
    <3>2. /\ expired => late
          /\ config.timeout = 0 => late
          /\ rep > 0 => Fits
      BY DEF ScheduleOK
    <3> QED BY <1>0, <2>1, <3>1, <3>2 DEF EndOK, Caused
  <2> QED BY <1>0, <2>2, <2>3, <2>4, <2>5
<1>6. CASE Report
  BY <1>0, <1>1, <1>6 DEF Report, StabilityTypeOK, ScheduleOK, VerdictOK, EndOK,
     HintOK, Between, End, Ends
<1>7. CASE PassDeadline
  BY <1>0, <1>1, <1>7 DEF PassDeadline, outer, StabilityTypeOK, ScheduleOK, VerdictOK, EndOK,
     HintOK, Between, Ends
<1>8. CASE InterruptBetween
  BY <1>0, <1>1, <1>8 DEF InterruptBetween, StabilityTypeOK, ScheduleOK, VerdictOK, EndOK,
     HintOK, Between, End, Ends
<1> QED BY <1>2, <1>3, <1>4, <1>5, <1>6, <1>7, <1>8

(* The clock of remaining_seconds: a timeout cancels the token.              *)
LEMMA ClockStep ==
  ASSUME StabilityOK, RemainingClock
  PROVE  StabilityOK'
<1> USE DEF StabilityOK
<1>0. /\ config' = config /\ pc' = pc /\ left' = left /\ next' = next /\ digests' = digests
      /\ pending' = pending /\ correct' = correct /\ task' = task /\ hashed' = hashed
      /\ digest' = digest /\ runToken' = runToken /\ expired' = expired
      /\ rep' = rep /\ agreed' = agreed /\ sound' = sound /\ durations' = durations
      /\ hint' = hint /\ late' = late
  BY DEF RemainingClock, inner, main, pool
<1>1. CASE token' = token /\ step' = "remaining" /\ outcome' = outcome
  <2>1. UNCHANGED vars
    BY <1>0, <1>1 DEF vars
  <2>2. /\ CallOK' /\ (TokenOK => TokenOK')
        /\ Indexes' = Indexes /\ Reference' = Reference /\ Fits' = Fits
        /\ ExpectedChecksum' = ExpectedChecksum
    BY <2>1, SameCall
  <2> QED BY <1>0, <1>1, <2>2 DEF RemainingClock, StabilityTypeOK, ScheduleOK, VerdictOK,
             EndOK, HintOK, Between
<1>2. CASE late /\ token' = TRUE /\ step' = "done" /\ outcome' = "timeout"
  <2>1. FlagsOK'
    BY <1>0, <1>2, Zenon DEF CallOK, FlagsOK
  <2>2. CallTypeOK' /\ PhaseOK' /\ WorkOK' /\ SignalOK'
    BY <1>0 DEF CallOK, CallTypeOK, WorkOK, SignalOK, PhaseOK, Indexes, Counts, Collected,
       Preparing, Caused, Live, ExpectedChecksum, Reference, Fits
  <2>3. \A i \in Indexes' : Live(i)' => pending' = "interrupt"
    <3>1. Indexes' = Indexes /\ \A i \in Indexes : Live(i)' <=> Live(i)
      BY <1>0 DEF Indexes, Live
    <3>2. \A i \in Indexes : ~Live(i)
      BY DEF RemainingClock, ScheduleOK, Between, CallOK, PhaseOK, Preparing, Live, StabilityTypeOK
    <3> QED BY <3>1, <3>2
  <2>4. ScheduleOK'
    BY <1>0, <1>2, <2>3 DEF ScheduleOK, Between, Fits
  <2>5. StabilityTypeOK' /\ HintOK' /\ EndOK' /\ VerdictOK'
    BY <1>0, <1>2 DEF StabilityTypeOK, HintOK, EndOK, VerdictOK, Ends
  <2> QED BY <2>1, <2>2, <2>4, <2>5 DEF CallOK
<1> QED BY <1>1, <1>2 DEF RemainingClock, End

(* A new call begins, with the time that is left.                            *)
LEMMA ReadStep ==
  ASSUME StabilityOK, RemainingRead
  PROVE  StabilityOK'
<1> USE DEF StabilityOK
<1>1. /\ step = "remaining" /\ step' = "call"
      /\ pc' = "limits" /\ next' = 0 /\ digests' = << >> /\ pending' = "none"
      /\ expired' = FALSE /\ correct' = FALSE
      /\ token' = token /\ runToken' = runToken
      /\ rep' = rep /\ agreed' = agreed /\ sound' = sound /\ outcome' = outcome
      /\ durations' = durations /\ hint' = hint /\ late' = late
  BY DEF RemainingRead
<1>2. /\ config' \in [workers : Nat \ {0}, operations : Nat \ {0}, timeout : {0, 1},
                      expected : Seq(Digests)]
      /\ config'.workers = config.workers /\ config'.operations = config.operations
      /\ config'.timeout = 0 => late
      /\ config'.expected = IF rep = 0 THEN config.expected ELSE digests
  <2> HIDE DEF Digests
  <2>1. config' = [config EXCEPT !.timeout = IF late THEN 0 ELSE 1,
                                 !.expected = IF rep = 0 THEN @ ELSE digests]
    BY DEF RemainingRead
  <2>2. /\ config \in [workers : Nat \ {0}, operations : Nat \ {0}, timeout : {0, 1},
                         expected : Seq(Digests)]
        /\ digests \in Seq(Digests)
    BY DEF CallOK, CallTypeOK
  <2>3. PICK t \in {0, 1}, e \in Seq(Digests) :
          /\ config' = [config EXCEPT !.timeout = t, !.expected = e]
          /\ t = 0 => late
          /\ e = IF rep = 0 THEN config.expected ELSE digests
    <3> DEFINE t == IF late THEN 0 ELSE 1
               e == IF rep = 0 THEN config.expected ELSE digests
    <3>1. config' = [config EXCEPT !.timeout = t, !.expected = e]
      BY <2>1, <2>2
    <3>2. t \in {0, 1} /\ (t = 0 => late) /\ e \in Seq(Digests)
      BY <2>2
    <3> HIDE DEF t
    <3> QED BY <3>1, <3>2
  <2> QED BY <2>2, <2>3
<1>3. Indexes' = Indexes /\ Reference' = Reference /\ Fits' = Fits
  BY <1>2 DEF Indexes, Reference, Fits
<1>4. /\ task' = [i \in Indexes |-> "idle"]
      /\ hashed' = [i \in Indexes |-> 0]
      /\ digest' = [i \in Indexes |-> Nothing]
      /\ left' = Checkpoints(config')
  BY <1>3 DEF RemainingRead
<1>5. ~token
  BY <1>1 DEF ScheduleOK, Between
<1>6. CallOK'
  <2>1. CallTypeOK'
    <3>1. Nothing \in Digests
      BY DEF Nothing, Digests
    <3>2. left' \in Int
      BY <1>2, <1>4 DEF Checkpoints
    <3>3. digests' \in Seq(Digests)
      BY <1>1
    <3> HIDE DEF Digests
    <3> QED BY <1>1, <1>2, <1>3, <1>4, <3>1, <3>2, <3>3 DEF CallTypeOK, Ends, Busy
  <2>2. FlagsOK'
    BY <1>1, Zenon DEF CallOK, FlagsOK
  <2>3. PhaseOK'
    BY <1>1, <1>3, <1>4 DEF PhaseOK, Preparing
  <2>4. WorkOK' /\ SignalOK'
    BY <1>1, <1>3, <1>4 DEF WorkOK, SignalOK
  <2> QED BY <2>1, <2>2, <2>3, <2>4 DEF CallOK
<1>7. TokenOK'
  BY <1>1, <1>5 DEF TokenOK
<1>8. StabilityTypeOK' /\ HintOK' /\ EndOK'
  BY <1>1 DEF StabilityTypeOK, HintOK, EndOK
<1>9. ScheduleOK'
  BY <1>1, <1>2, <1>3, <1>7 DEF ScheduleOK, Between
<1>10. VerdictOK'
  <2>1. CASE rep = 0
    <3>1. ExpectedChecksum' = ExpectedChecksum
      BY <1>2, <1>3, <2>1 DEF ExpectedChecksum
    <3> QED BY <1>1, <1>2, <1>3, <2>1, <3>1 DEF VerdictOK, Between
  <2>2. CASE rep > 0
    <3>1. sound => ExpectedChecksum' = Reference
      BY <1>1, <1>2, <1>3, <2>2 DEF VerdictOK, Between, ExpectedChecksum, StabilityTypeOK
    <3> QED BY <1>1, <1>3, <2>2, <3>1 DEF VerdictOK, Between, StabilityTypeOK
  <2> QED BY <2>1, <2>2 DEF StabilityTypeOK
<1> QED BY <1>6, <1>8, <1>9, <1>10

(* Steps of the call, of its tasks, and of what disturbs them.               *)
LEMMA InnerStep ==
  ASSUME StabilityOK, Calling \/ (\E i \in Indexes : Working(i)) \/ Signalling
  PROVE  StabilityOK'
<1> USE DEF StabilityOK
<1>0. /\ step' = step /\ rep' = rep /\ agreed' = agreed /\ sound' = sound
      /\ outcome' = outcome /\ durations' = durations /\ hint' = hint /\ late' = late
  BY DEF Calling, Working, Signalling, outer
<1>1. StabilityTypeOK' /\ HintOK'
  BY <1>0 DEF StabilityTypeOK, HintOK
<1>2. config' = config /\ Reference' = Reference /\ ExpectedChecksum' = ExpectedChecksum
      /\ Indexes' = Indexes /\ Fits' = Fits
  BY DEF Calling, Working, Signalling, Main, CheckLimits, MainToken, MainClock, Submit,
     Collect, Leave, Task, StartTask, TaskToken, TaskClock, TaskFinish, Expire, CancelRun,
     Interrupt, Reference, ExpectedChecksum, Indexes, Fits
<1>3. CASE Calling
  <2>1. step = "call" /\ Main
    BY <1>3 DEF Calling
  <2>2. CallOK' /\ TokenOK'
    BY <2>1, MainStep DEF ScheduleOK
  <2>3. expired' = expired
    BY <2>1 DEF Main, CheckLimits, MainToken, MainClock, Submit, Collect, Leave, signals
  <2>4. ScheduleOK' /\ VerdictOK' /\ EndOK'
    BY <1>0, <1>2, <2>1, <2>2, <2>3 DEF ScheduleOK, VerdictOK, EndOK, Between
  <2> QED BY <1>1, <2>2, <2>4
<1>4. ASSUME NEW i \in Indexes, Working(i) PROVE StabilityOK'
  <2>1. step \in {"call", "done"} /\ Task(i)
    BY <1>4 DEF Working
  <2>2. Live(i)
    BY <2>1 DEF Task, StartTask, TaskToken, TaskClock, TaskFinish, Live
  <2>3. TokenOK
    <3>1. pending = "interrupt" => TokenOK
      BY DEF CallOK, PhaseOK, TokenOK
    <3> QED BY <2>1, <2>2, <3>1 DEF ScheduleOK
  <2>4. CallOK' /\ TokenOK'
    BY <2>1, <2>3, TaskStep
  <2>5. expired' = expired /\ pending' = pending /\ runToken' = runToken
    BY <2>1 DEF Task, StartTask, TaskToken, TaskClock, TaskFinish, main, signals
  <2>6. ScheduleOK' /\ VerdictOK' /\ EndOK'
    BY <1>0, <1>2, <2>1, <2>2, <2>4, <2>5 DEF ScheduleOK, VerdictOK, EndOK, Between
  <2> QED BY <1>1, <2>4, <2>6
<1>5. CASE Signalling
  <2>1. CallOK' /\ (TokenOK => TokenOK')
    BY <1>5, SignalStep DEF Signalling
  <2>2. task' = task /\ digests' = digests /\ (runToken => runToken')
    <3>1. task' = task /\ digests' = digests
      BY <1>5 DEF Signalling, Expire, CancelRun, Interrupt, pool, main
    <3>2. runToken => runToken'
      BY <1>5, Zenon DEF Signalling, Expire, CancelRun, Interrupt
    <3> QED BY <3>1, <3>2
  <2>3. /\ expired' => late
        /\ step # "call" => pc' = pc /\ pending' = pending /\ token' = token
    BY <1>5 DEF Signalling, Expire, CancelRun, Interrupt, main, ScheduleOK
  <2>4. \A i \in Indexes : Live(i)' <=> Live(i)
    BY <2>2 DEF Live
  <2>5. ScheduleOK' /\ VerdictOK'
    BY <1>0, <1>2, <2>1, <2>2, <2>3, <2>4 DEF ScheduleOK, VerdictOK, Between
  <2>6. EndOK'
    BY <1>0, <1>2, <2>2 DEF EndOK
  <2> QED BY <1>1, <2>1, <2>5, <2>6
<1> QED BY <1>3, <1>4, <1>5

LEMMA StabilityStepOK == StabilityOK /\ [StabilityNext]_stabilityVars => StabilityOK'
<1> SUFFICES ASSUME StabilityOK, [StabilityNext]_stabilityVars PROVE StabilityOK'
  OBVIOUS
<1>1. CASE UNCHANGED stabilityVars
  <2>1. UNCHANGED vars /\ UNCHANGED outer /\ late' = late
    BY <1>1 DEF stabilityVars
  <2>2. /\ CallOK' /\ (TokenOK => TokenOK')
        /\ Indexes' = Indexes /\ Reference' = Reference /\ Fits' = Fits
        /\ ExpectedChecksum' = ExpectedChecksum
        /\ \A i \in Indexes : Live(i)' <=> Live(i)
    BY <2>1, SameCall DEF StabilityOK
  <2> QED BY <2>1, <2>2 DEF vars, outer, StabilityOK, StabilityTypeOK, ScheduleOK, VerdictOK,
             EndOK, HintOK, Between
<1>2. CASE Advance
  BY <1>2, OuterStep, ClockStep, ReadStep, InnerStep DEF Advance, RequireTimeout,
     RemainingToken, TakeResult, Propagate, Report
<1>3. CASE (\E i \in Indexes : Working(i)) \/ Signalling
  BY <1>3, InnerStep
<1>4. CASE PassDeadline \/ InterruptBetween
  BY <1>4, OuterStep DEF PassDeadline, InterruptBetween
<1> QED BY <1>1, <1>2, <1>3, <1>4 DEF StabilityNext

LEMMA StabilityAlways == StabilitySpec => []StabilityOK
  BY StabilityInitOK, StabilityStepOK, PTL DEF StabilitySpec

(* No call of the integer workload, of any repetition, leaves a task behind  *)
(* that is still queued or hashing, unless Ctrl+C broke it off.              *)
THEOREM PoolsAreDrained == StabilitySpec => []PoolDrained
  BY StabilityAlways, DrainedAtEnd, PTL DEF StabilityOK

(* A call that returns a result has hashed every block of its configuration, *)
(* whatever the number of workers that shared them.                          *)
THEOREM ResultsAreComplete == StabilitySpec => []ResultComplete
  BY StabilityAlways, CompleteAtEnd, PTL DEF StabilityOK

(* The verdict on all repetitions is the verdict on every task of each.      *)
THEOREM VerdictsAreTrue == StabilitySpec => []StabilityVerdict
<1>1. StabilityOK => StabilityVerdict
  <2> SUFFICES ASSUME StabilityOK, Finished, outcome = "result"
               PROVE  rep = Repetitions /\ (agreed <=> sound)
    BY DEF StabilityVerdict
  <2>1. rep = Repetitions
    BY DEF StabilityOK, EndOK, Finished
  <2>2. rep > 0
    BY <2>1, RepetitionsAssumption
  <2> QED BY <2>1, <2>2 DEF StabilityOK, VerdictOK
<1> QED BY <1>1, StabilityAlways, PTL

(* Every way in which the repetitions end has its cause.                     *)
THEOREM EndsHaveCauses == StabilitySpec => []RepetitionsEndWithCause
<1>1. StabilityOK => RepetitionsEndWithCause
  BY DEF StabilityOK, EndOK, CallOK, PhaseOK, RepetitionsEndWithCause, Finished
<1> QED BY <1>1, StabilityAlways, PTL
-----------------------------------------------------------------------------
(* The robust statistics of STB-001.                                         *)

LEMMA Least ==
  ASSUME NEW S, NEW m \in S, S \subseteq Nat, \A x \in S : m <= x
  PROVE  Min(S) = m
<1>1. Min(S) \in S /\ \A y \in S : Min(S) <= y
  BY DEF Min
<1>2. Min(S) \in Nat /\ m \in Nat /\ Min(S) <= m /\ m <= Min(S)
  BY <1>1
<1> QED BY <1>2

(* A value that more than half of a function's arguments have is its median. *)
LEMMA MajorityIsMedian ==
  ASSUME NEW n \in Nat \ {0}, NEW s \in [1 .. n -> Nat], NEW m \in Nat,
         2 * Cardinality({i \in 1 .. n : s[i] = m}) > n
  PROVE  TwiceMedian(s) = 2 * m
<1> DEFINE same == {i \in 1 .. n : s[i] = m}
           upTo(v) == {i \in 1 .. n : s[i] <= v}
           ranked(k) == {s[i] : i \in {j \in 1 .. n : AtMost(s, s[j]) >= k}}
           half == n \div 2
<1>1. half \in Nat /\ (n = 2 * half \/ n = 2 * half + 1)
  OBVIOUS
<1>2. IsFiniteSet(1 .. n) /\ Cardinality(1 .. n) = n
  BY FS_Interval
<1>3. IsFiniteSet(same) /\ Cardinality(same) \in Nat
  BY <1>2, FS_Subset, FS_CardinalityType
<1>4. Cardinality(same) >= half + 1
  <2> HIDE DEF same, half
  <2>1. 2 * Cardinality(same) > n
    BY DEF same
  <2> QED BY <1>1, <1>3, <2>1
<1>5. \A v \in Nat : /\ AtMost(s, v) = Cardinality(upTo(v))
                     /\ IsFiniteSet(upTo(v)) /\ Cardinality(upTo(v)) \in Nat
  <2> SUFFICES ASSUME NEW v \in Nat
               PROVE  /\ AtMost(s, v) = Cardinality(upTo(v))
                      /\ IsFiniteSet(upTo(v)) /\ Cardinality(upTo(v)) \in Nat
    OBVIOUS
  <2>1. DOMAIN s = 1 .. n
    OBVIOUS
  <2>2. IsFiniteSet(upTo(v))
    BY <1>2, FS_Subset
  <2> QED BY <2>1, <2>2, FS_CardinalityType DEF AtMost
<1>6. AtMost(s, m) >= half + 1
  <2>1. Cardinality(same) <= Cardinality(upTo(m))
    <3>1. same \in SUBSET upTo(m)
      OBVIOUS
    <3> QED BY <1>5, <3>1, FS_Subset
  <2> HIDE DEF same, upTo, half
  <2> QED BY <1>1, <1>3, <1>4, <1>5, <2>1
<1>7. ASSUME NEW v \in Nat, v < m PROVE AtMost(s, v) <= n - (half + 1)
  <2>1. upTo(v) \cap same = {}
    BY <1>7
  <2>2. Cardinality(upTo(v) \cup same) = Cardinality(upTo(v)) + Cardinality(same)
    <3>1. Cardinality(upTo(v) \cap same) = 0
      BY <2>1, FS_EmptySet
    <3>2. Cardinality(upTo(v) \cup same)
            = Cardinality(upTo(v)) + Cardinality(same) - Cardinality(upTo(v) \cap same)
      BY <1>3, <1>5, FS_Union
    <3> HIDE DEF same, upTo
    <3> QED BY <1>3, <1>5, <3>1, <3>2
  <2>3. Cardinality(upTo(v) \cup same) <= n
    BY <1>2, FS_Subset
  <2> HIDE DEF same, upTo, half
  <2> QED BY <1>1, <1>3, <1>4, <1>5, <2>2, <2>3
<1>8. ASSUME NEW k \in {(n + 1) \div 2, half + 1} PROVE Min(ranked(k)) = m
  <2>1. k \in Nat /\ k <= half + 1 /\ k > n - (half + 1)
    BY <1>1, <1>8
  <2>2. m \in ranked(k)
    <3>1. same # {}
      <4>1. Cardinality({}) = 0 /\ Cardinality(same) # 0
        <5> HIDE DEF same, half
        <5> QED BY <1>1, <1>3, <1>4, FS_EmptySet
      <4> HIDE DEF same
      <4> QED BY <4>1
    <3>2. PICK i \in 1 .. n : s[i] = m
      BY <3>1
    <3>3. AtMost(s, s[i]) >= k
      <4>1. AtMost(s, m) \in Nat
        BY <1>5
      <4> HIDE DEF half
      <4> QED BY <1>1, <1>6, <2>1, <3>2, <4>1
    <3> QED BY <3>2, <3>3
  <2>3. \A x \in ranked(k) : x \in Nat /\ m <= x
    <3> SUFFICES ASSUME NEW j \in 1 .. n, AtMost(s, s[j]) >= k PROVE m <= s[j]
      OBVIOUS
    <3>1. PICK v \in Nat : v = s[j]
      OBVIOUS
    <3>2. AtMost(s, v) \in Nat /\ AtMost(s, v) >= k
      BY <1>5, <3>1
    <3>3. v < m => AtMost(s, v) <= n - (half + 1)
      BY <1>7
    <3> HIDE DEF half
    <3>4. ~(v < m)
      BY <1>1, <2>1, <3>2, <3>3
    <3> QED BY <3>1, <3>4
  <2> HIDE DEF ranked
  <2> QED BY <2>2, <2>3, Least
<1>9. TwiceMedian(s) = Min(ranked((n + 1) \div 2)) + Min(ranked(half + 1))
  BY <1>2 DEF TwiceMedian
<1> HIDE DEF ranked
<1> QED BY <1>8, <1>9

LEMMA MajorityHint ==
  ASSUME NEW n \in Nat \ {0}, NEW s \in [1 .. n -> Nat], NEW m \in Nat \ {0},
         2 * Cardinality({i \in 1 .. n : s[i] = m}) > n
  PROVE  Hint(s) = "PASS"
<1>1. TwiceMedian(s) = 2 * m
  BY MajorityIsMedian
<1>2. Distances(s) \in [1 .. n -> Nat]
  BY <1>1 DEF Distances
<1>3. {i \in 1 .. n : Distances(s)[i] = 0} = {i \in 1 .. n : s[i] = m}
  BY <1>1 DEF Distances
<1>4. TwiceMedian(Distances(s)) = 2 * 0
  BY <1>2, <1>3, MajorityIsMedian
<1>5. WarnPercent \in Nat
  BY RepetitionsAssumption
<1>6. 2 * WarnPercent * (2 * m) \in Nat
  BY <1>5
<1>7. ~(100 * Deviation(s) > 2 * WarnPercent * TwiceMedian(s))
  <2>1. Deviation(s) = 0
    BY <1>4 DEF Deviation
  <2> QED BY <1>1, <1>6, <2>1
<1> QED BY <1>1, <1>7 DEF Hint

(* No minority of slow or fast repetitions, however slow or fast, makes the  *)
(* stability test warn.                                                      *)
THEOREM MinoritiesAreTolerated == StabilitySpec => []OutliersTolerated
<1>1. StabilityOK => OutliersTolerated
  <2> SUFFICES ASSUME StabilityOK, NEW m \in Durations \ {0},
                      2 * Cardinality({i \in DOMAIN durations : durations[i] = m})
                        > Len(durations)
               PROVE  hint = "PASS"
    BY DEF OutliersTolerated
  <2>1. CASE durations = << >>
    <3>1. {i \in DOMAIN durations : durations[i] = m} = {} /\ Len(durations) = 0
      BY <2>1
    <3> QED BY <3>1, FS_EmptySet
  <2>2. CASE durations \in [1 .. Repetitions -> Durations] /\ hint = Hint(durations)
    <3>1. Repetitions \in Nat \ {0} /\ Durations \subseteq Nat
      BY RepetitionsAssumption
    <3>2. durations \in [1 .. Repetitions -> Nat] /\ DOMAIN durations = 1 .. Repetitions
      BY <2>2, <3>1
    <3>3. Len(durations) = Repetitions
      BY <3>1, <3>2
    <3> QED BY <2>2, <3>1, <3>2, <3>3, MajorityHint
  <2> QED BY <2>1, <2>2 DEF StabilityOK, HintOK
<1> QED BY <1>1, StabilityAlways, PTL
-----------------------------------------------------------------------------
(* The cause of a cancellation.                                              *)

SingleOK == CallOK /\ TokenOK /\ config.workers \in WorkerCounts

LEMMA SingleInit == Init => SingleOK
<1> SUFFICES ASSUME Init PROVE config.workers \in WorkerCounts
  BY CallInit DEF SingleOK
<1>1. config \in Configs
  BY DEF Init
<1> QED BY <1>1 DEF Configs

LEMMA SingleStep == SingleOK /\ [Next]_vars => SingleOK'
<1> SUFFICES ASSUME SingleOK, [Next]_vars PROVE SingleOK'
  OBVIOUS
<1> USE DEF SingleOK
<1>1. config' = config
  BY DEF Next, vars, Main, CheckLimits, MainToken, MainClock, Submit, Collect, Leave, Task,
     StartTask, TaskToken, TaskClock, TaskFinish, Expire, CancelRun, Interrupt
<1>2. CallOK' /\ TokenOK'
  BY MainStep, TaskStep, SignalStep, SameCall DEF Next
<1> QED BY <1>1, <1>2

(* With one worker a timeout is not mistaken for a cancellation: a call that *)
(* ends as cancelled has found the run's token cancelled.  The run           *)
(* integer_timeout shows that two workers are enough for the contrary.       *)
THEOREM OneWorkerTellsTheCause ==
  ASSUME WorkerCounts = {1}
  PROVE  Spec => []CancelledOnlyByRun
<1>1. SingleOK => CancelledOnlyByRun
  BY DEF SingleOK, CallOK, SignalOK, Caused, CancelledOnlyByRun
<1> QED BY <1>1, SingleInit, SingleStep, PTL DEF Spec
=============================================================================
