------------------------ MODULE RunRepository_proofs -------------------------
(***************************************************************************)
(* Machine-checked proofs about SQLiteRepository below its transactions,   *)
(* for any number of processes, runs and statements, any commands, and     *)
(* whatever fails or dies between two statements.                          *)
(***************************************************************************)
EXTENDS RunRepository, SequenceTheorems, TLAPS

Labels == {"begin", "script", "operate", "platform", "telemetry", "dead"}
Endings == {"done", "foreign", "conflict", "failed", "not_found", "no_platform", "duplicate"}

(* A load or a check is under way. *)
Reading(p) == Current(p).name = "report" /\ step[p] \in {1, 2}

TypeOK ==
  /\ version \in {"none", "ours", "foreign"}
  /\ tables \in 0 .. Statements
  /\ pc \in [Procs -> Labels]
  /\ seen \in [Procs -> {"none", "ours"}]
  /\ outcomes \in [Procs -> Seq(Endings)]
  /\ DOMAIN step = Procs /\ DOMAIN read = Procs
  /\ step = [p \in Procs |-> step[p]] /\ read = [p \in Procs |-> read[p]]
  /\ \A p \in Procs : Busy(p) => step[p] \in DOMAIN Operations[Current(p).name]
  /\ \A p \in Procs : Busy(p) /\ pc[p] \in {"platform", "telemetry"} => Reading(p)

LEMMA OperationsAre ==
  /\ DOMAIN Operations = {"run", "report", "list", "delete"}
  /\ Operations["run"] = <<"save">> /\ Operations["list"] = <<"list">>
  /\ Operations["delete"] = <<"delete">>
  /\ Operations["report"] = <<"load", "check", "register">>
  BY DEF Operations

(* The command a busy process is at. *)
LEMMA CurrentIs ==
  ASSUME NEW p \in Procs, TypeOK, Busy(p)
  PROVE  /\ Len(outcomes[p]) \in Nat
         /\ Len(outcomes[p]) + 1 \in DOMAIN Commands[p]
         /\ Current(p) \in Command
         /\ Current(p).name \in {"run", "report", "list", "delete"}
<1>1. Commands[p] \in Seq(Command) /\ outcomes[p] \in Seq(Endings)
  BY RepositoryAssumption DEF TypeOK
<1>2. Len(outcomes[p]) \in Nat /\ Len(outcomes[p]) < Len(Commands[p])
  BY <1>1 DEF Busy
<1>3. Len(outcomes[p]) + 1 \in 1 .. Len(Commands[p])
  BY <1>1, <1>2
<1>4. Current(p) \in Command
  BY <1>1, <1>3 DEF Current
<1> QED BY <1>1, <1>2, <1>3, <1>4, OperationsAre DEF Command

(* The operation tells the command and the step. *)
LEMMA OperationIs ==
  ASSUME NEW p \in Procs, TypeOK, Busy(p)
  PROVE  /\ Operation(p) = "save" <=> Current(p).name = "run"
         /\ Operation(p) = "load" <=> Current(p).name = "report" /\ step[p] = 1
         /\ Operation(p) = "check" <=> Current(p).name = "report" /\ step[p] = 2
         /\ Operation(p) = "register" <=> Current(p).name = "report" /\ step[p] = 3
         /\ Operation(p) = "delete" <=> Current(p).name = "delete"
         /\ Current(p).name # "report" => step[p] = 1
         /\ Current(p).name = "report" => step[p] \in 1 .. 3
<1>1. step[p] \in DOMAIN Operations[Current(p).name]
  BY DEF TypeOK
<1>2. CASE Current(p).name = "run"
  BY <1>1, <1>2, OperationsAre DEF Operation
<1>3. CASE Current(p).name = "list"
  BY <1>1, <1>3, OperationsAre DEF Operation
<1>4. CASE Current(p).name = "delete"
  BY <1>1, <1>4, OperationsAre DEF Operation
<1>5. CASE Current(p).name = "report"
  <2>1. step[p] \in {1, 2, 3}
    BY <1>1, <1>5, OperationsAre
  <2> QED BY <2>1, <1>5, OperationsAre DEF Operation
<1> QED BY <1>2, <1>3, <1>4, <1>5, CurrentIs

-----------------------------------------------------------------------------
(* Types.  A step of a process changes nobody else's control state: it ends  *)
(* the command, goes on to its next operation, or moves within one.          *)

Database ==
  /\ version \in {"none", "ours", "foreign"}
  /\ tables \in 0 .. Statements

LEMMA TypeInit == Init => TypeOK
<1> SUFFICES ASSUME Init PROVE TypeOK
  OBVIOUS
<1>1. outcomes \in [Procs -> Seq(Endings)]
  BY DEF Init
<1>2. ASSUME NEW p \in Procs, Busy(p)
      PROVE  step[p] \in DOMAIN Operations[Current(p).name]
  <2>1. Commands[p] \in Seq(Command) /\ outcomes[p] = << >>
    BY RepositoryAssumption DEF Init
  <2>2. Current(p) \in Command
    BY <1>2, <2>1 DEF Busy, Current
  <2>3. Current(p).name \in {"run", "report", "list", "delete"}
    BY <2>2, OperationsAre DEF Command
  <2>4. step[p] = 1
    BY DEF Init
  <2> QED BY <2>3, <2>4, OperationsAre
<1> QED BY <1>1, <1>2, RepositoryAssumption DEF Init, TypeOK, Labels, Reading

LEMMA EndKeepsTypes ==
  ASSUME TypeOK, Database', NEW p \in Procs, Busy(p), NEW o \in Endings, End(p, o)
  PROVE  TypeOK'
<1>1. outcomes' \in [Procs -> Seq(Endings)]
  BY DEF TypeOK, End
<1>2. /\ pc' \in [Procs -> Labels] /\ seen' \in [Procs -> {"none", "ours"}]
      /\ DOMAIN step' = Procs /\ DOMAIN read' = Procs
      /\ step' = [q \in Procs |-> step'[q]] /\ read' = [q \in Procs |-> read'[q]]
  BY DEF TypeOK, End, Labels
<1>3. ASSUME NEW q \in Procs, Busy(q)'
      PROVE  (step[q] \in DOMAIN Operations[Current(q).name])'
  <2>1. CASE q = p
    <3>1. Commands[p] \in Seq(Command) /\ outcomes'[p] \in Seq(Endings)
      BY <1>1, RepositoryAssumption
    <3>2. Len(outcomes'[p]) + 1 \in 1 .. Len(Commands[p])
      BY <3>1, <1>3, <2>1 DEF Busy
    <3>3. Current(p)' \in Command
      BY <3>1, <3>2 DEF Current
    <3>4. Current(p)'.name \in {"run", "report", "list", "delete"} /\ step'[p] = 1
      BY <3>3, OperationsAre DEF Command, End, TypeOK
    <3> QED BY <2>1, <3>4, OperationsAre
  <2>2. CASE q # p
    <3>1. outcomes'[q] = outcomes[q] /\ step'[q] = step[q]
      BY <2>2 DEF End, TypeOK
    <3> QED BY <1>3, <3>1 DEF TypeOK, Busy, Current
  <2> QED BY <2>1, <2>2
<1>4. ASSUME NEW q \in Procs, Busy(q)', pc'[q] \in {"platform", "telemetry"}
      PROVE  Reading(q)'
  <2>1. q # p
    BY <1>4 DEF End, TypeOK
  <2>2. outcomes'[q] = outcomes[q] /\ step'[q] = step[q] /\ pc'[q] = pc[q]
    BY <2>1 DEF End, TypeOK
  <2> QED BY <1>4, <2>2 DEF TypeOK, Busy, Current, Reading
<1> QED BY <1>1, <1>2, <1>3, <1>4 DEF TypeOK, Database

(* Only what p has seen and read changes beside its label. *)
Private(p) ==
  /\ seen' \in [Procs -> {"none", "ours"}]
  /\ DOMAIN read' = Procs /\ read' = [q \in Procs |-> read'[q]]
  /\ \A q \in Procs \ {p} : seen'[q] = seen[q] /\ read'[q] = read[q]

LEMMA MoveKeepsTypes ==
  ASSUME TypeOK, Database', NEW p \in Procs, NEW l \in Labels, Goto(p, l), Private(p),
         l \in {"platform", "telemetry"} => Reading(p)
  PROVE  TypeOK'
<1>1. pc' \in [Procs -> Labels]
  BY DEF TypeOK, Goto
<1>2. step' = step /\ outcomes' = outcomes
  BY DEF Goto
<1>3. ASSUME NEW q \in Procs, Busy(q), pc'[q] \in {"platform", "telemetry"}
      PROVE  Reading(q)
  BY <1>3 DEF TypeOK, Goto
<1> QED BY <1>1, <1>2, <1>3 DEF TypeOK, Private, Database, Busy, Current, Reading

(* Advancing to the command's next operation. *)
Advance(p) ==
  /\ step' = [step EXCEPT ![p] = @ + 1]
  /\ pc' = [pc EXCEPT ![p] = "begin"]
  /\ UNCHANGED outcomes

LEMMA AdvanceKeepsTypes ==
  ASSUME TypeOK, Database', NEW p \in Procs, Busy(p), Advance(p), Private(p),
         step[p] # Len(Operations[Current(p).name])
  PROVE  TypeOK'
<1>1. pc' \in [Procs -> Labels] /\ DOMAIN step' = Procs
      /\ step' = [q \in Procs |-> step'[q]]
  BY DEF TypeOK, Advance, Labels
<1>2. ASSUME NEW q \in Procs, Busy(q)
      PROVE  step'[q] \in DOMAIN Operations[Current(q).name]
  <2>1. CASE q = p
    <3>1. step[p] \in DOMAIN Operations[Current(p).name] /\ step'[p] = step[p] + 1
      BY DEF TypeOK, Advance
    <3> QED BY <2>1, <3>1, CurrentIs, OperationsAre
  <2>2. CASE q # p
    BY <1>2, <2>2 DEF TypeOK, Advance
  <2> QED BY <2>1, <2>2
<1>3. ASSUME NEW q \in Procs, Busy(q), pc'[q] \in {"platform", "telemetry"}
      PROVE  Current(q).name = "report" /\ step'[q] \in {1, 2}
  BY <1>3 DEF TypeOK, Advance, Reading
<1> QED BY <1>1, <1>2, <1>3 DEF TypeOK, Private, Database, Busy, Current, Advance, Reading

LEMMA DoneKeepsTypes ==
  ASSUME TypeOK, Database', NEW p \in Procs, Busy(p), Done(p)
  PROVE  TypeOK'
<1>1. CASE step[p] = Len(Operations[Current(p).name])
  BY <1>1, EndKeepsTypes DEF Done, Endings
<1>2. CASE step[p] # Len(Operations[Current(p).name])
  <2>1. Advance(p) /\ Private(p)
    BY <1>2 DEF Done, Advance, Private, TypeOK
  <2> QED BY <1>2, <2>1, AdvanceKeepsTypes
<1> QED BY <1>1, <1>2

Step(p) ==
  \/ ReadVersion(p) \/ RunStatement(p) \/ InsertVersion(p)
  \/ Operate(p) \/ FailStatement(p) \/ Crash(p)

LEMMA StepIsBusy == ASSUME NEW p \in Procs, Step(p) PROVE Busy(p)
  BY DEF Step, ReadVersion, RunStatement, InsertVersion, Operate, Save, List, Delete,
     Register, ReadRun, ReadPlatform, ReadTelemetry, FailStatement, Crash, Ready, At

LEMMA TypeStep == ASSUME TypeOK, NEW p \in Procs, Step(p) PROVE TypeOK'
<1> USE StepIsBusy
<1> USE DEF database
<1>d. Database
  BY DEF TypeOK, Database
<1>1. CASE ReadVersion(p)
  <2>1. Database'
    BY <1>d, <1>1 DEF ReadVersion, Database
  <2>2. CASE version = "foreign"
    BY <1>1, <2>1, <2>2, EndKeepsTypes DEF ReadVersion, Endings
  <2>3. CASE version # "foreign"
    <3>1. Goto(p, "script") /\ Private(p)
      BY <1>1, <2>3 DEF ReadVersion, Private, TypeOK
    <3> QED BY <2>1, <3>1, MoveKeepsTypes DEF Labels
  <2> QED BY <2>2, <2>3
<1>2. CASE RunStatement(p)
  <2>1. tables + 1 \in 0 .. Statements
    BY <1>2, RepositoryAssumption DEF RunStatement, TypeOK
  <2> QED BY <1>2, <2>1 DEF RunStatement, TypeOK, Busy, Current, Reading
<1>3. CASE InsertVersion(p)
  <2>1. Database'
    BY <1>d, <1>3 DEF InsertVersion, Database
  <2>2. CASE version = "none"
    <3>1. Goto(p, "operate") /\ Private(p)
      BY <1>3, <2>2 DEF InsertVersion, Private, TypeOK
    <3> QED BY <2>1, <3>1, MoveKeepsTypes DEF Labels
  <2>3. CASE version # "none"
    BY <1>3, <2>1, <2>3, EndKeepsTypes DEF InsertVersion, Endings
  <2> QED BY <2>2, <2>3
<1>4. CASE Save(p)
  BY <1>d, <1>4, DoneKeepsTypes DEF Save, Database
<1>5. CASE List(p)
  BY <1>d, <1>5, DoneKeepsTypes DEF List, Database
<1>6. CASE Delete(p)
  <2>1. Database' /\ (Done(p) \/ End(p, "not_found"))
    BY <1>d, <1>6 DEF Delete, Database
  <2> QED BY <2>1, DoneKeepsTypes, EndKeepsTypes DEF Endings
<1>7. CASE Register(p)
  <2>1. Database' /\ (Done(p) \/ End(p, "not_found") \/ End(p, "duplicate"))
    BY <1>d, <1>7 DEF Register, Database
  <2> QED BY <2>1, DoneKeepsTypes, EndKeepsTypes DEF Endings
<1>8. CASE ReadRun(p)
  <2>1. Database'
    BY <1>d, <1>8 DEF ReadRun, Database
  <2>2. CASE Stored(Run(p))
    <3>1. Goto(p, "platform") /\ Private(p)
      BY <1>8, <2>2 DEF ReadRun, Keep, Private, TypeOK
    <3>2. Reading(p)
      BY <1>8, OperationIs DEF ReadRun, Ready, Reading
    <3> QED BY <2>1, <3>1, <3>2, MoveKeepsTypes DEF Labels
  <2>3. CASE ~Stored(Run(p))
    BY <1>8, <2>1, <2>3, EndKeepsTypes DEF ReadRun, Endings
  <2> QED BY <2>2, <2>3
<1>9. CASE ReadPlatform(p)
  <2>1. Database'
    BY <1>d, <1>9 DEF ReadPlatform, Database
  <2>2. CASE Stored(Run(p))
    <3>1. Goto(p, "telemetry") /\ Private(p)
      BY <1>9, <2>2 DEF ReadPlatform, Keep, Private, TypeOK
    <3>2. Reading(p)
      BY <1>9 DEF ReadPlatform, At, TypeOK
    <3> QED BY <2>1, <3>1, <3>2, MoveKeepsTypes DEF Labels
  <2>3. CASE ~Stored(Run(p))
    BY <1>9, <2>1, <2>3, EndKeepsTypes DEF ReadPlatform, Endings
  <2> QED BY <2>2, <2>3
<1>10. CASE ReadTelemetry(p)
  <2>1. Database' /\ Advance(p) /\ Private(p)
    BY <1>d, <1>10 DEF ReadTelemetry, Keep, Advance, Private, Database, TypeOK
  <2>2. step[p] # Len(Operations[Current(p).name])
    <3>1. Current(p).name = "report" /\ step[p] \in {1, 2}
      BY <1>10 DEF ReadTelemetry, At, TypeOK, Reading
    <3> QED BY <3>1, OperationsAre
  <2> QED BY <2>1, <2>2, AdvanceKeepsTypes
<1>11. CASE FailStatement(p)
  BY <1>d, <1>11, EndKeepsTypes DEF FailStatement, Endings, Database
<1>12. CASE Crash(p)
  <2>1. Goto(p, "dead") /\ Private(p) /\ Database'
    BY <1>d, <1>12 DEF Crash, Private, TypeOK, Database
  <2> QED BY <2>1, MoveKeepsTypes DEF Labels
<1> QED BY <1>1, <1>2, <1>3, <1>4, <1>5, <1>6, <1>7, <1>8, <1>9, <1>10, <1>11, <1>12
        DEF Step, Operate

-----------------------------------------------------------------------------
(* The schema.  Whoever may work on the tables has seen or written our       *)
(* version, and that is written when every table is there; in a database of  *)
(* another version nobody gets that far.                                     *)

SchemaOK ==
  /\ version = "ours" => tables = Statements
  /\ \A p \in Procs :
       /\ seen[p] = "ours" => version = "ours"
       /\ pc[p] \in {"operate", "platform", "telemetry"} => version = "ours"
       /\ pc[p] = "script" => version # "foreign"

(* What the steps that touch no version do to the control state. *)
Quiet(p) ==
  /\ UNCHANGED <<version, tables, seen>>
  /\ \A q \in Procs \ {p} : pc'[q] = pc[q]
  /\ \/ pc'[p] \in {"begin", "dead"}
     \/ pc'[p] \in {"platform", "telemetry"} /\ version = "ours"

LEMMA QuietKeepsSchema ==
  ASSUME TypeOK, SchemaOK, NEW p \in Procs, Quiet(p)
  PROVE  SchemaOK'
  BY DEF TypeOK, SchemaOK, Quiet

LEMMA ReadyIsOurs ==
  ASSUME SchemaOK, NEW p \in Procs, NEW o, Ready(p, o)
  PROVE  version = "ours"
  BY DEF SchemaOK, Ready, At

(* Reading, working and failing steps are quiet. *)
LEMMA WorkIsQuiet ==
  ASSUME TypeOK, SchemaOK, NEW p \in Procs,
         Operate(p) \/ FailStatement(p) \/ Crash(p)
  PROVE  Quiet(p)
<1> USE DEF database, End, Goto, Done, TypeOK
<1>1. CASE Save(p)
  BY <1>1 DEF Save, Quiet
<1>2. CASE List(p)
  BY <1>2 DEF List, Quiet
<1>3. CASE Delete(p)
  BY <1>3 DEF Delete, Quiet
<1>4. CASE Register(p)
  BY <1>4 DEF Register, Quiet
<1>5. CASE ReadRun(p)
  <2>1. version = "ours"
    BY <1>5, ReadyIsOurs DEF ReadRun
  <2> QED BY <1>5, <2>1 DEF ReadRun, Quiet
<1>6. CASE ReadPlatform(p)
  <2>1. version = "ours"
    BY <1>6 DEF ReadPlatform, At, SchemaOK
  <2> QED BY <1>6, <2>1 DEF ReadPlatform, Quiet
<1>7. CASE ReadTelemetry(p)
  BY <1>7 DEF ReadTelemetry, Quiet
<1>8. CASE FailStatement(p)
  BY <1>8 DEF FailStatement, Quiet
<1>9. CASE Crash(p)
  BY <1>9 DEF Crash, Quiet
<1> QED BY <1>1, <1>2, <1>3, <1>4, <1>5, <1>6, <1>7, <1>8, <1>9 DEF Operate

LEMMA SchemaStep ==
  ASSUME TypeOK, SchemaOK, NEW p \in Procs, Step(p)
  PROVE  SchemaOK'
<1>1. CASE ReadVersion(p)
  BY <1>1 DEF ReadVersion, End, Goto, database, TypeOK, SchemaOK, At
<1>2. CASE RunStatement(p)
  BY <1>2 DEF RunStatement, TypeOK, SchemaOK
<1>3. CASE InsertVersion(p)
  BY <1>3 DEF InsertVersion, End, Goto, At, TypeOK, SchemaOK
<1>4. CASE Operate(p) \/ FailStatement(p) \/ Crash(p)
  BY <1>4, WorkIsQuiet, QuietKeepsSchema
<1> QED BY <1>1, <1>2, <1>3, <1>4 DEF Step

LEMMA SchemaSafeStep ==
  ASSUME TypeOK, SchemaOK, NEW p \in Procs, Step(p)
  PROVE  /\ version # "none" => version' = version
         /\ version' = "ours" => tables' = Statements
         /\ version = "foreign" => UNCHANGED database
         /\ tables <= tables'
<1>0. tables <= tables /\ tables <= tables + 1 /\ tables \in Nat
  BY RepositoryAssumption DEF TypeOK
<1>1. version' = "ours" => tables' = Statements
  BY SchemaStep DEF SchemaOK
<1>2. CASE ReadVersion(p)
  BY <1>0, <1>1, <1>2 DEF ReadVersion, database
<1>3. CASE RunStatement(p)
  BY <1>0, <1>1, <1>3 DEF RunStatement, database, SchemaOK, At
<1>4. CASE InsertVersion(p)
  BY <1>0, <1>1, <1>4 DEF InsertVersion, database, SchemaOK, At
<1>5. CASE Operate(p)
  <2>1. version = "ours"
    BY <1>5, ReadyIsOurs DEF Operate, Save, List, Delete, Register, ReadRun, ReadPlatform,
       ReadTelemetry, At, SchemaOK
  <2>2. UNCHANGED <<version, tables>>
    BY <1>5, WorkIsQuiet DEF Quiet
  <2> QED BY <1>0, <1>1, <2>1, <2>2
<1>6. CASE FailStatement(p) \/ Crash(p)
  BY <1>0, <1>1, <1>6 DEF FailStatement, Crash, database
<1> QED BY <1>2, <1>3, <1>4, <1>5, <1>6 DEF Step

LEMMA NextIsStep == [Next]_vars => UNCHANGED vars \/ \E p \in Procs : Step(p)
  BY DEF Next, Step

SchemaInv == TypeOK /\ SchemaOK

LEMMA SchemaInvInit == Init => SchemaInv
<1> SUFFICES ASSUME Init PROVE SchemaOK
  BY TypeInit DEF SchemaInv
<1> QED BY DEF Init, SchemaOK

LEMMA SchemaInvStep == SchemaInv /\ [Next]_vars => SchemaInv'
<1> SUFFICES ASSUME SchemaInv, [Next]_vars PROVE SchemaInv'
  OBVIOUS
<1>1. CASE UNCHANGED vars
  BY <1>1 DEF vars, SchemaInv, TypeOK, SchemaOK, Busy, Current, Reading
<1>2. CASE \E p \in Procs : Step(p)
  BY <1>2, TypeStep, SchemaStep DEF SchemaInv
<1> QED BY <1>1, <1>2, NextIsStep

(* However many processes initialise the database at once, and wherever they *)
(* die: the version is written once, over complete tables, and a database of *)
(* another version is never touched.                                         *)
THEOREM SchemaNeverHalf == Spec => SchemaSafe
<1>1. ASSUME SchemaInv, [Next]_vars
      PROVE  [/\ version # "none" => version' = version
              /\ version' = "ours" => tables' = Statements
              /\ version = "foreign" => UNCHANGED database
              /\ tables <= tables']_vars
  BY <1>1, NextIsStep, SchemaSafeStep DEF SchemaInv
<1> QED BY <1>1, SchemaInvInit, SchemaInvStep, PTL DEF Spec, SchemaSafe

-----------------------------------------------------------------------------
(* The conflict.  Whoever ran into it finds a version from then on.          *)

Conflicted(p) == \E i \in DOMAIN outcomes[p] : outcomes[p][i] = "conflict"

ConflictOK ==
  /\ ConflictOnce
  /\ \A p \in Procs : Conflicted(p) => version # "none" /\ (pc[p] = "script" => seen[p] # "none")

(* What a step does to the outcomes. *)
Recorded(p) ==
  \/ outcomes' = outcomes
  \/ \E o \in Endings : outcomes' = [outcomes EXCEPT ![p] = Append(@, o)]

LEMMA OutcomesGrow ==
  ASSUME TypeOK, NEW p \in Procs, Step(p)
  PROVE  Recorded(p)
<1> USE DEF End, Goto, Done, Recorded, Endings
<1>1. CASE ReadVersion(p)
  BY <1>1 DEF ReadVersion
<1>2. CASE RunStatement(p)
  BY <1>2 DEF RunStatement
<1>3. CASE InsertVersion(p)
  BY <1>3 DEF InsertVersion
<1>4. CASE Save(p) \/ List(p) \/ Delete(p) \/ Register(p)
  BY <1>4 DEF Save, List, Delete, Register
<1>5. CASE ReadRun(p) \/ ReadPlatform(p) \/ ReadTelemetry(p)
  BY <1>5 DEF ReadRun, ReadPlatform, ReadTelemetry
<1>6. CASE FailStatement(p) \/ Crash(p)
  BY <1>6 DEF FailStatement, Crash
<1> QED BY <1>1, <1>2, <1>3, <1>4, <1>5, <1>6 DEF Step, Operate

(* A step that does not end in a conflict. *)
LEMMA NoNewConflict ==
  ASSUME TypeOK, ConflictOK, NEW p \in Procs,
         \/ outcomes' = outcomes
         \/ \E o \in Endings \ {"conflict"} : outcomes' = [outcomes EXCEPT ![p] = Append(@, o)]
  PROVE  ConflictOnce' /\ \A q \in Procs : Conflicted(q)' => Conflicted(q)
<1>1. CASE outcomes' = outcomes
  BY <1>1 DEF ConflictOK, ConflictOnce, Conflicted
<1>2. ASSUME NEW o \in Endings \ {"conflict"},
             outcomes' = [outcomes EXCEPT ![p] = Append(@, o)]
      PROVE  ConflictOnce' /\ \A q \in Procs : Conflicted(q)' => Conflicted(q)
  <2>1. outcomes[p] \in Seq(Endings) /\ outcomes'[p] = Append(outcomes[p], o)
    BY <1>2 DEF TypeOK
  <2>2. \A q \in Procs \ {p} : outcomes'[q] = outcomes[q]
    BY <1>2 DEF TypeOK
  <2>3. \A i \in DOMAIN outcomes'[p] : outcomes'[p][i] = "conflict" =>
           i \in DOMAIN outcomes[p] /\ outcomes[p][i] = "conflict"
    BY <2>1, <1>2
  <2> QED BY <2>2, <2>3 DEF ConflictOK, ConflictOnce, Conflicted
<1> QED BY <1>1, <1>2

LEMMA ConflictStep ==
  ASSUME TypeOK, SchemaOK, ConflictOK, NEW p \in Procs, Step(p)
  PROVE  ConflictOK'
<1>1. version # "none" => version' # "none"
  BY SchemaSafeStep DEF SchemaOK
<1>2. CASE InsertVersion(p)
  <2>1. \A q \in Procs \ {p} : pc'[q] = pc[q] /\ seen'[q] = seen[q]
    BY <1>2 DEF InsertVersion, End, Goto, TypeOK
  <2>2. CASE version = "none"
    <3>1. outcomes' = outcomes /\ pc'[p] = "operate"
      BY <1>2, <2>2 DEF InsertVersion, Goto, TypeOK
    <3> QED BY <1>1, <2>1, <3>1, NoNewConflict DEF ConflictOK
  <2>3. CASE version # "none"
    <3>1. /\ outcomes' = [outcomes EXCEPT ![p] = Append(@, "conflict")]
          /\ pc'[p] = "begin" /\ ~Conflicted(p)
      BY <1>2, <2>3 DEF InsertVersion, End, At, TypeOK, ConflictOK
    <3>2. outcomes[p] \in Seq(Endings) /\ outcomes'[p] = Append(outcomes[p], "conflict")
      BY <3>1 DEF TypeOK
    <3>3. \A q \in Procs \ {p} : outcomes'[q] = outcomes[q]
      BY <3>1 DEF TypeOK
    <3>4. \A i \in DOMAIN outcomes'[p] :
             outcomes'[p][i] = "conflict" => i = Len(outcomes[p]) + 1
      BY <3>1, <3>2 DEF Conflicted
    <3> QED BY <1>1, <2>1, <2>3, <3>1, <3>3, <3>4 DEF ConflictOK, ConflictOnce, Conflicted
  <2> QED BY <2>2, <2>3
<1>3. CASE ReadVersion(p)
  <2>1. \A q \in Procs \ {p} : pc'[q] = pc[q] /\ seen'[q] = seen[q]
    BY <1>3 DEF ReadVersion, End, Goto, TypeOK
  <2>2. pc'[p] = "begin" \/ seen'[p] = version'
    BY <1>3 DEF ReadVersion, End, Goto, TypeOK, database
  <2>3. \/ outcomes' = outcomes
        \/ \E o \in Endings \ {"conflict"} : outcomes' = [outcomes EXCEPT ![p] = Append(@, o)]
    BY <1>3 DEF ReadVersion, End, Goto, Endings
  <2> QED BY <1>1, <2>1, <2>2, <2>3, NoNewConflict DEF ConflictOK
<1>4. CASE RunStatement(p)
  BY <1>4 DEF RunStatement, ConflictOK, ConflictOnce, Conflicted
<1>5. CASE Operate(p) \/ FailStatement(p) \/ Crash(p)
  <2>1. Quiet(p)
    BY <1>5, WorkIsQuiet
  <2>2. \/ outcomes' = outcomes
        \/ \E o \in Endings \ {"conflict"} : outcomes' = [outcomes EXCEPT ![p] = Append(@, o)]
    BY <1>5 DEF Operate, Save, List, Delete, Register, ReadRun, ReadPlatform,
       ReadTelemetry, FailStatement, Crash, End, Goto, Done, Endings
  <2> QED BY <1>1, <2>1, <2>2, NoNewConflict DEF ConflictOK, Quiet
<1> QED BY <1>2, <1>3, <1>4, <1>5 DEF Step

(* No process has more than one of its commands fail because another process *)
(* initialises the database at the same time: the command can be repeated.   *)
THEOREM ConflictsPass == Spec => []ConflictOnce
<1>1. Init => ConflictOK
  BY DEF Init, ConflictOK, ConflictOnce, Conflicted
<1>2. SchemaInv /\ ConflictOK /\ [Next]_vars => ConflictOK'
  <2> SUFFICES ASSUME SchemaInv, ConflictOK, [Next]_vars PROVE ConflictOK'
    OBVIOUS
  <2>1. CASE UNCHANGED vars
    BY <2>1 DEF vars, ConflictOK, ConflictOnce, Conflicted
  <2>2. CASE \E p \in Procs : Step(p)
    BY <2>2, ConflictStep DEF SchemaInv
  <2> QED BY <2>1, <2>2, NextIsStep
<1>3. ConflictOK => ConflictOnce
  BY DEF ConflictOK
<1> QED BY <1>1, <1>2, <1>3, SchemaInvInit, SchemaInvStep, PTL DEF Spec

-----------------------------------------------------------------------------
(* The reports.  A run id is used once: a run that was looked at and is gone *)
(* does not come back, so what a process has read of a stored run is what is *)
(* stored.                                                                   *)

SavedBy(q, i, r) == Commands[q][i].name = "run" /\ Commands[q][i].run = r
Saved(r) == \E q \in Procs : \E i \in DOMAIN Commands[q] :
              i <= Len(outcomes[q]) /\ SavedBy(q, i, r)

(* Some of the run has been read. *)
Looked(p) == step[p] # 1 \/ pc[p] \in {"platform", "telemetry"}

SoFar(p) ==
  IF step[p] # 1 THEN Whole(rows[Run(p)])
  ELSE IF pc[p] = "platform" THEN <<rows[Run(p)].run>>
  ELSE <<rows[Run(p)].run, rows[Run(p)].platform>>

ReadOK(p) ==
  Busy(p) =>
    /\ Looked(p) => Saved(Run(p))
    /\ ~Looked(p) /\ pc[p] # "dead" => read[p] = << >>
    /\ Looked(p) /\ pc[p] # "dead" /\ Stored(Run(p)) => read[p] = SoFar(p)

ReportOK ==
  /\ \A r \in DOMAIN rows : Saved(r)
  /\ \A p \in Procs : ReadOK(p)
  /\ ReportIsWhole

LEMMA SavedStays ==
  ASSUME TypeOK, NEW p \in Procs, Step(p), NEW r, Saved(r)
  PROVE  Saved(r)'
<1>1. ASSUME NEW q \in Procs PROVE Len(outcomes[q]) \in Nat /\ Len(outcomes'[q]) \in Nat
                                  /\ Len(outcomes[q]) <= Len(outcomes'[q])
  <2>1. outcomes[q] \in Seq(Endings) /\ Len(outcomes[q]) \in Nat
    BY DEF TypeOK
  <2>2. outcomes'[q] = outcomes[q] \/ \E o \in Endings : outcomes'[q] = Append(outcomes[q], o)
    BY OutcomesGrow DEF Recorded, TypeOK
  <2> QED BY <2>1, <2>2
<1>2. PICK q \in Procs : \E i \in DOMAIN Commands[q] : i <= Len(outcomes[q]) /\ SavedBy(q, i, r)
  BY DEF Saved
<1>3. PICK i \in DOMAIN Commands[q] : i <= Len(outcomes[q]) /\ SavedBy(q, i, r)
  BY <1>2
<1>4. i \in Nat
  BY RepositoryAssumption
<1>5. i <= Len(outcomes'[q])
  BY <1>1, <1>3, <1>4
<1>6. SavedBy(q, i, r)'
  BY <1>3 DEF SavedBy
<1> QED BY <1>3, <1>5, <1>6 DEF Saved

(* A step leaves what every other process knows, provided that it only takes *)
(* runs away, or adds one that was never saved.                              *)
Shrinks == \A r \in DOMAIN rows' : r \in DOMAIN rows /\ rows'[r] = rows[r]

LEMMA OthersKeep ==
  ASSUME TypeOK, NEW p \in Procs, Step(p), NEW q \in Procs, ReadOK(q),
         outcomes'[q] = outcomes[q], step'[q] = step[q], pc'[q] = pc[q], read'[q] = read[q],
         \A r \in DOMAIN rows' : \/ r \in DOMAIN rows /\ rows'[r] = rows[r]
                                \/ ~Saved(r)
  PROVE  ReadOK(q)'
<1> SUFFICES ASSUME Busy(q)' PROVE /\ Looked(q) => Saved(Run(q))'
                                   /\ ~Looked(q) /\ pc[q] # "dead" => read[q] = << >>
                                   /\ Looked(q) /\ pc[q] # "dead" /\ Stored(Run(q))'
                                        => read[q] = SoFar(q)'
  BY DEF ReadOK, Looked
<1>1. Busy(q) /\ Run(q)' = Run(q)
  BY DEF Busy, Run, Current
<1>2. Looked(q) => Saved(Run(q)) /\ Saved(Run(q))'
  BY <1>1, SavedStays DEF ReadOK
<1>3. ASSUME Looked(q), Stored(Run(q))' PROVE Stored(Run(q)) /\ SoFar(q)' = SoFar(q)
  BY <1>1, <1>2, <1>3 DEF Stored, SoFar
<1> QED BY <1>1, <1>2, <1>3 DEF ReadOK

(* A command that begins has read nothing. *)
LEMMA EndKeepsReads ==
  ASSUME TypeOK, NEW p \in Procs, NEW o \in Endings, End(p, o)
  PROVE  ReadOK(p)' /\ \A q \in Procs \ {p} :
           /\ outcomes'[q] = outcomes[q] /\ step'[q] = step[q]
           /\ pc'[q] = pc[q] /\ read'[q] = read[q]
<1>1. step'[p] = 1 /\ pc'[p] = "begin" /\ read'[p] = << >>
  BY DEF End, TypeOK
<1> QED BY <1>1 DEF End, TypeOK, ReadOK, Looked

LEMMA ShrinkingStep ==
  ASSUME TypeOK, ReportOK, NEW p \in Procs, Step(p), Shrinks, ReadOK(p)',
         \A q \in Procs \ {p} :
           /\ outcomes'[q] = outcomes[q] /\ step'[q] = step[q]
           /\ pc'[q] = pc[q] /\ read'[q] = read[q]
  PROVE  /\ \A r \in DOMAIN rows' : Saved(r)'
         /\ \A q \in Procs : ReadOK(q)'
  BY OthersKeep, SavedStays DEF ReportOK, Shrinks

LEMMA SaveIsFirst ==
  ASSUME TypeOK, NEW p \in Procs, Busy(p), Operation(p) = "save"
  PROVE  ~Saved(Run(p))
<1>1. /\ Len(outcomes[p]) \in Nat /\ Len(outcomes[p]) + 1 \in DOMAIN Commands[p]
      /\ SavedBy(p, Len(outcomes[p]) + 1, Run(p))
  BY CurrentIs, OperationIs DEF SavedBy, Current, Run
<1> SUFFICES ASSUME NEW q \in Procs, NEW i \in DOMAIN Commands[q],
                    i <= Len(outcomes[q]), SavedBy(q, i, Run(p))
             PROVE  FALSE
  BY DEF Saved
<1>2. q = p /\ i = Len(outcomes[p]) + 1
  BY <1>1, RepositoryAssumption DEF SavedBy
<1> QED BY <1>1, <1>2

LEMMA SaveStep ==
  ASSUME TypeOK, ReportOK, NEW p \in Procs, Save(p)
  PROVE  ReportOK'
<1>1. Step(p) /\ Busy(p) /\ Operation(p) = "save"
  BY DEF Step, Operate, Save, Ready, At
<1>2. ~Saved(Run(p)) /\ Current(p).name = "run"
  BY <1>1, SaveIsFirst, OperationIs
<1>3. step[p] = Len(Operations[Current(p).name])
  BY <1>1, <1>2, OperationIs, OperationsAre
<1>4. End(p, "done") /\ "done" \in Endings
  BY <1>3 DEF Save, Done, Endings
<1>5. PICK e : rows' = Put(rows, Run(p), e)
  BY DEF Save
<1>6. /\ DOMAIN rows' = DOMAIN rows \cup {Run(p)}
      /\ \A r \in DOMAIN rows \ {Run(p)} : rows'[r] = rows[r]
  BY <1>5 DEF Put
<1>7. \A r \in DOMAIN rows' : (r \in DOMAIN rows /\ rows'[r] = rows[r]) \/ ~Saved(r)
  BY <1>2, <1>6
<1>8. ASSUME NEW r, r = Run(p) PROVE Saved(r)'
  <2>1. /\ Len(outcomes[p]) \in Nat /\ Len(outcomes[p]) + 1 \in DOMAIN Commands[p]
        /\ SavedBy(p, Len(outcomes[p]) + 1, r)
    BY <1>1, <1>2, <1>8, CurrentIs DEF SavedBy, Current, Run
  <2>2. Len(outcomes'[p]) = Len(outcomes[p]) + 1
    BY <1>4, <2>1 DEF End, TypeOK
  <2>3. Len(outcomes[p]) + 1 <= Len(outcomes'[p])
    BY <2>1, <2>2
  <2> QED BY <2>1, <2>3 DEF Saved, SavedBy
<1>9. \A r \in DOMAIN rows' : Saved(r)'
  <2> SUFFICES ASSUME NEW r \in DOMAIN rows' PROVE Saved(r)'
    OBVIOUS
  <2>1. CASE r \in DOMAIN rows
    BY <1>1, <2>1, SavedStays DEF ReportOK
  <2>2. CASE r = Run(p)
    BY <1>8, <2>2
  <2> QED BY <1>6, <2>1, <2>2
<1>10. \A q \in Procs : ReadOK(q)'
  BY <1>1, <1>4, <1>7, EndKeepsReads, OthersKeep DEF ReportOK
<1>11. ReportIsWhole'
  <2>1. reports' = reports
    BY DEF Save
  <2>2. ASSUME NEW r \in DOMAIN reports
        PROVE  r \in DOMAIN rows /\ rows'[r] = rows[r] /\ reports[r] = Whole(rows[r])
    BY <1>2, <1>6, <2>2 DEF ReportOK, ReportIsWhole
  <2> QED BY <1>6, <2>1, <2>2 DEF ReportIsWhole, Whole
<1> QED BY <1>9, <1>10, <1>11 DEF ReportOK

LEMMA RegisterStep ==
  ASSUME TypeOK, ReportOK, NEW p \in Procs, Register(p)
  PROVE  ReportOK'
<1>1. Step(p) /\ Busy(p) /\ Operation(p) = "register" /\ rows' = rows /\ pc[p] # "dead"
  BY DEF Step, Operate, Register, Ready, At
<1>2. Current(p).name = "report" /\ step[p] = 3
  BY <1>1, OperationIs
<1>3. step[p] = Len(Operations[Current(p).name])
  BY <1>2, OperationsAre
<1>4. \E o \in Endings : End(p, o)
  BY <1>3 DEF Register, Done, Endings
<1>5. (\A r \in DOMAIN rows' : Saved(r)') /\ (\A q \in Procs : ReadOK(q)')
  BY <1>1, <1>4, EndKeepsReads, ShrinkingStep DEF Shrinks
<1>6. ReportIsWhole'
  <2>1. CASE reports' = reports
    BY <1>1, <2>1 DEF ReportOK, ReportIsWhole, Whole
  <2>2. CASE Stored(Run(p)) /\ reports' = Put(reports, Run(p), read[p])
    <3> step[p] # 1
      BY <1>2
    <3>1. Looked(p) /\ SoFar(p) = Whole(rows[Run(p)])
      BY DEF Looked, SoFar
    <3>2. read[p] = Whole(rows[Run(p)])
      BY <1>1, <2>2, <3>1 DEF ReportOK, ReadOK
    <3> QED BY <1>1, <2>2, <3>2 DEF ReportOK, ReportIsWhole, Whole, Put, Stored
  <2> QED BY <2>1, <2>2 DEF Register
<1> QED BY <1>5, <1>6 DEF ReportOK

LEMMA DeleteStep ==
  ASSUME TypeOK, ReportOK, NEW p \in Procs, Delete(p)
  PROVE  ReportOK'
<1>1. Step(p) /\ Busy(p) /\ Operation(p) = "delete"
  BY DEF Step, Operate, Delete, Ready, At
<1>2. step[p] = Len(Operations[Current(p).name])
  <2>1. Current(p).name = "delete" /\ step[p] = 1
    BY <1>1, OperationIs
  <2> QED BY <2>1, OperationsAre
<1>3. \E o \in Endings : End(p, o)
  BY <1>2 DEF Delete, Done, Endings
<1>4. Shrinks
  BY DEF Delete, Drop, Shrinks
<1>5. (\A r \in DOMAIN rows' : Saved(r)') /\ (\A q \in Procs : ReadOK(q)')
  BY <1>1, <1>3, <1>4, EndKeepsReads, ShrinkingStep
<1>6. ReportIsWhole'
  BY DEF Delete, Drop, ReportOK, ReportIsWhole, Whole
<1> QED BY <1>5, <1>6 DEF ReportOK

(* A step that leaves the database as it is. *)
LEMMA StillDatabase ==
  ASSUME TypeOK, ReportOK, NEW p \in Procs, Step(p), UNCHANGED <<rows, reports>>, ReadOK(p)',
         \A q \in Procs \ {p} :
           /\ outcomes'[q] = outcomes[q] /\ step'[q] = step[q]
           /\ pc'[q] = pc[q] /\ read'[q] = read[q]
  PROVE  ReportOK'
<1>1. Shrinks
  BY DEF Shrinks
<1>2. ReportIsWhole'
  BY DEF ReportOK, ReportIsWhole, Whole
<1> QED BY <1>1, <1>2, ShrinkingStep DEF ReportOK

LEMMA EndingStep ==
  ASSUME TypeOK, ReportOK, NEW p \in Procs, Step(p), UNCHANGED <<rows, reports>>,
         NEW o \in Endings, End(p, o)
  PROVE  ReportOK'
  BY EndKeepsReads, StillDatabase

(* Within its command p moves on: what its new label asks it to have read. *)
LEMMA MovingStep ==
  ASSUME TypeOK, ReportOK, NEW p \in Procs, Step(p), UNCHANGED <<rows, reports>>,
         UNCHANGED <<step, outcomes>>, NEW l \in Labels, pc' = [pc EXCEPT ![p] = l],
         \A q \in Procs \ {p} : read'[q] = read[q],
         ReadOK(p)'
  PROVE  ReportOK'
  BY StillDatabase DEF TypeOK

LEMMA PlainStep ==
  ASSUME TypeOK, ReportOK, NEW p \in Procs,
         ReadVersion(p) \/ RunStatement(p) \/ InsertVersion(p) \/ Crash(p) \/ FailStatement(p)
  PROVE  ReportOK'
<1>1. Step(p) /\ UNCHANGED <<rows, reports>>
  BY DEF Step, ReadVersion, RunStatement, InsertVersion, Crash, FailStatement, database
<1>2. CASE \E o \in Endings : End(p, o)
  BY <1>1, <1>2, EndingStep
<1>3. CASE /\ UNCHANGED <<step, outcomes, read>> /\ pc[p] \in {"begin", "script"}
           /\ pc'[p] \in {"script", "operate"} /\ pc' = [pc EXCEPT ![p] = pc'[p]]
  <2>1. ReadOK(p)'
    BY <1>1, <1>3, SavedStays DEF ReportOK, ReadOK, Busy, Looked, Run, Current, Stored, SoFar
  <2> QED BY <1>1, <1>3, <2>1, MovingStep DEF Labels
<1>4. CASE Crash(p)
  <2>1. ReadOK(p)'
    BY <1>1, <1>4, SavedStays DEF Crash, Goto, TypeOK, ReportOK, ReadOK, Busy, Looked, Run, Current
  <2> QED BY <1>1, <1>4, <2>1, MovingStep DEF Crash, Goto, Labels
<1>5. CASE RunStatement(p)
  <2>1. ReadOK(p)'
    BY <1>1, <1>5, SavedStays DEF RunStatement, ReportOK, ReadOK, Busy, Looked, Run, Current,
       Stored, SoFar
  <2> QED BY <1>1, <1>5, <2>1, StillDatabase DEF RunStatement
<1> QED BY <1>2, <1>3, <1>4, <1>5
        DEF ReadVersion, InsertVersion, FailStatement, Goto, At, Endings, TypeOK

(* How what was read grows. *)
LEMMA Concatenations ==
  ASSUME NEW a, NEW b, NEW c
  PROVE  <<a>> \o <<b>> = <<a, b>> /\ <<a, b>> \o <<c>> = <<a, b, c>>
<1> DEFINE S == {a, b, c}
<1>1. /\ <<a>> \in Seq(S) /\ <<b>> \in Seq(S) /\ <<c>> \in Seq(S)
      /\ <<a, b>> \in Seq(S) /\ <<a, b, c>> \in Seq(S)
  OBVIOUS
<1>2. <<a>> \o <<b>> = <<a, b>>
  <2>1. <<a>> \o <<b>> \in Seq(S) /\ Len(<<a>> \o <<b>>) = 2
    BY <1>1
  <2>2. \A i \in 1 .. 2 : (<<a>> \o <<b>>)[i] = <<a, b>>[i]
    BY <1>1
  <2> HIDE DEF S
  <2> QED BY <1>1, <2>1, <2>2, SeqEqual, Len(<<a, b>>) = 2
<1>3. <<a, b>> \o <<c>> = <<a, b, c>>
  <2>1. <<a, b>> \o <<c>> \in Seq(S) /\ Len(<<a, b>> \o <<c>>) = 3
    BY <1>1
  <2>2. \A i \in 1 .. 3 : (<<a, b>> \o <<c>>)[i] = <<a, b, c>>[i]
    BY <1>1
  <2> HIDE DEF S
  <2> QED BY <1>1, <2>1, <2>2, SeqEqual, Len(<<a, b, c>>) = 3
<1> QED BY <1>2, <1>3

LEMMA ReadStep ==
  ASSUME TypeOK, ReportOK, NEW p \in Procs,
         ReadRun(p) \/ ReadPlatform(p) \/ ReadTelemetry(p)
  PROVE  ReportOK'
<1>1. Step(p) /\ Busy(p) /\ UNCHANGED <<rows, reports>>
  BY DEF Step, Operate, ReadRun, ReadPlatform, ReadTelemetry, database, Ready, At
<1>2. CASE \E o \in Endings : End(p, o)
  BY <1>1, <1>2, EndingStep
<1>3. CASE ReadRun(p) /\ Stored(Run(p))
  <2>1. /\ Goto(p, "platform") /\ Keep(p, <<rows[Run(p)].run>>)
        /\ pc[p] \in {"operate", "script"} /\ Operation(p) \in {"load", "check"}
    BY <1>3 DEF ReadRun, Ready, At
  <2>2. pc'[p] = "platform" /\ step' = step /\ outcomes' = outcomes
    BY <2>1 DEF Goto, TypeOK
  <2>3. Saved(Run(p)) /\ Saved(Run(p))'
    BY <1>1, <1>3, <2>2, SavedStays DEF ReportOK, Stored, Run, Current
  <2>4. read'[p] = SoFar(p)'
    <3>1. CASE Operation(p) = "load"
      <4>1. step[p] = 1 /\ read[p] = << >>
        BY <1>1, <2>1, <3>1, OperationIs DEF ReportOK, ReadOK, Looked
      <4>2. read'[p] = <<rows[Run(p)].run>>
        BY <2>1, <3>1, <4>1 DEF Keep, TypeOK
      <4> QED BY <1>1, <2>2, <4>1, <4>2 DEF SoFar, Run, Current
    <3>2. CASE Operation(p) = "check"
      <4>1. step[p] = 2 /\ read'[p] = read[p]
        BY <1>1, <2>1, <3>2, OperationIs DEF Keep, TypeOK
      <4>2. read[p] = SoFar(p)
        BY <1>1, <1>3, <2>1, <4>1 DEF ReportOK, ReadOK, Looked
      <4>3. step'[p] = 2 /\ Run(p)' = Run(p) /\ rows' = rows
        BY <1>1, <2>2, <4>1 DEF Run, Current
      <4> QED BY <4>1, <4>2, <4>3 DEF SoFar, Whole
    <3> QED BY <2>1, <3>1, <3>2
  <2>5. ReadOK(p)'
    BY <2>2, <2>3, <2>4 DEF ReadOK, Looked
  <2> QED BY <1>1, <2>1, <2>5, MovingStep DEF Goto, Keep, TypeOK, Labels
<1>4. CASE ReadPlatform(p) /\ Stored(Run(p))
  <2>1. /\ Goto(p, "telemetry") /\ Keep(p, <<rows[Run(p)].platform>>)
        /\ pc[p] = "platform" /\ Reading(p)
    BY <1>4 DEF ReadPlatform, At, TypeOK
  <2>2. pc'[p] = "telemetry" /\ step' = step /\ outcomes' = outcomes
    BY <2>1 DEF Goto, TypeOK
  <2>3. Saved(Run(p)) /\ Saved(Run(p))'
    BY <1>1, <1>4, <2>2, SavedStays DEF ReportOK, Stored, Run, Current
  <2>4. read[p] = SoFar(p)
    BY <1>1, <1>4, <2>1 DEF ReportOK, ReadOK, Looked
  <2>5. read'[p] = SoFar(p)'
    <3>1. CASE step[p] = 1
      <4>1. Operation(p) = "load" /\ read[p] = <<rows[Run(p)].run>>
        BY <1>1, <2>1, <2>4, <3>1, OperationIs DEF Reading, SoFar
      <4>2. read'[p] = <<rows[Run(p)].run>> \o <<rows[Run(p)].platform>>
        BY <2>1, <4>1 DEF Keep, TypeOK
      <4>3. read'[p] = <<rows[Run(p)].run, rows[Run(p)].platform>>
        BY <4>2, Concatenations
      <4> QED BY <1>1, <2>2, <3>1, <4>3 DEF SoFar, Run, Current
    <3>2. CASE step[p] = 2
      <4>1. Operation(p) # "load"
        BY <1>1, <3>2, OperationIs
      <4>2. read'[p] = read[p]
        BY <2>1, <4>1 DEF Keep, TypeOK
      <4>3. step'[p] = 2 /\ Run(p)' = Run(p) /\ rows' = rows
        BY <1>1, <2>2, <3>2 DEF Run, Current
      <4> QED BY <2>4, <3>2, <4>2, <4>3 DEF SoFar, Whole
    <3> QED BY <2>1, <3>1, <3>2 DEF Reading
  <2>6. ReadOK(p)'
    BY <2>2, <2>3, <2>5 DEF ReadOK, Looked
  <2> QED BY <1>1, <2>1, <2>6, MovingStep DEF Goto, Keep, TypeOK, Labels
<1>5. CASE ReadTelemetry(p)
  <2>1. /\ pc[p] = "telemetry" /\ Reading(p)
        /\ step' = [step EXCEPT ![p] = @ + 1] /\ pc' = [pc EXCEPT ![p] = "begin"]
        /\ outcomes' = outcomes
    BY <1>5 DEF ReadTelemetry, At, TypeOK
  <2>2. step'[p] = step[p] + 1 /\ pc'[p] = "begin"
    BY <2>1 DEF TypeOK
  <2>3. Looked(p) /\ Saved(Run(p)) /\ Saved(Run(p))'
    BY <1>1, <2>1, SavedStays DEF ReportOK, ReadOK, Looked, Run, Current
  <2>4. ASSUME Stored(Run(p)) PROVE read'[p] = Whole(rows[Run(p)])
    <3>1. read[p] = SoFar(p) /\ Keep(p, <<rows[Run(p)].telemetry>>)
      BY <1>1, <1>5, <2>1, <2>3, <2>4 DEF ReportOK, ReadOK, ReadTelemetry
    <3>2. CASE step[p] = 1
      <4>1. Operation(p) = "load" /\ read[p] = <<rows[Run(p)].run, rows[Run(p)].platform>>
        BY <1>1, <2>1, <3>1, <3>2, OperationIs DEF Reading, SoFar
      <4>2. read'[p] = <<rows[Run(p)].run, rows[Run(p)].platform>> \o <<rows[Run(p)].telemetry>>
        BY <3>1, <4>1 DEF Keep, TypeOK
      <4>3. read'[p] = <<rows[Run(p)].run, rows[Run(p)].platform, rows[Run(p)].telemetry>>
        <5> DEFINE a == rows[Run(p)].run
                   b == rows[Run(p)].platform
                   c == rows[Run(p)].telemetry
        <5>1. read'[p] = <<a, b>> \o <<c>>
          BY <4>2
        <5> HIDE DEF a, b, c
        <5>2. <<a, b>> \o <<c>> = <<a, b, c>>
          BY Concatenations
        <5>3. read'[p] = <<a, b, c>>
          BY <5>1, <5>2
        <5> QED BY <5>3 DEF a, b, c
      <4> QED BY <4>3 DEF Whole
    <3>3. CASE step[p] = 2
      <4>1. Operation(p) # "load"
        BY <1>1, <3>3, OperationIs
      <4>2. read'[p] = read[p]
        BY <3>1, <4>1 DEF Keep, TypeOK
      <4> QED BY <3>1, <3>3, <4>2 DEF SoFar
    <3> QED BY <2>1, <3>2, <3>3 DEF Reading
  <2>5. step'[p] # 1
    BY <2>1, <2>2 DEF Reading
  <2>6. ReadOK(p)'
    BY <1>1, <2>1, <2>2, <2>3, <2>4, <2>5 DEF ReadOK, Looked, SoFar, Stored, Run, Current, Whole
  <2>7. \A q \in Procs \ {p} : /\ outcomes'[q] = outcomes[q] /\ step'[q] = step[q]
                               /\ pc'[q] = pc[q] /\ read'[q] = read[q]
    BY <1>5, <2>1 DEF ReadTelemetry, Keep, TypeOK
  <2> QED BY <1>1, <2>6, <2>7, StillDatabase
<1> QED BY <1>2, <1>3, <1>4, <1>5 DEF ReadRun, ReadPlatform, Endings

LEMMA ReportInit == Init => ReportOK
  BY DEF Init, ReportOK, ReadOK, Looked, ReportIsWhole

LEMMA ReportStep == SchemaInv /\ ReportOK /\ [Next]_vars => ReportOK'
<1> SUFFICES ASSUME SchemaInv, ReportOK, [Next]_vars PROVE ReportOK'
  OBVIOUS
<1>1. CASE UNCHANGED vars
  BY <1>1 DEF vars, ReportOK, ReadOK, ReportIsWhole, Saved, Busy, Looked, Run, Current,
     Stored, SoFar, Whole
<1>2. ASSUME NEW p \in Procs, Step(p) PROVE ReportOK'
  <2>1. CASE List(p)
    <3>1. Step(p) /\ UNCHANGED <<rows, reports>> /\ Busy(p) /\ Operation(p) = "list"
      BY <1>2, <2>1 DEF List, database, Ready, At
    <3>2. Current(p).name = "list" /\ step[p] = 1
      BY <3>1, OperationIs, CurrentIs, OperationsAre DEF SchemaInv, Operation
    <3>3. End(p, "done")
      BY <2>1, <3>2, OperationsAre DEF List, Done
    <3> QED BY <3>1, <3>3, EndingStep DEF SchemaInv, Endings
  <2> QED BY <1>2, <2>1, SaveStep, DeleteStep, RegisterStep, ReadStep, PlainStep
          DEF Step, Operate, SchemaInv
<1> QED BY <1>1, <1>2, NextIsStep

(* Whatever is deleted, and whoever dies, while a report is made: a          *)
(* registered report of a run was made from all of the run as it is stored.  *)
THEOREM ReportsAreWhole == Spec => []ReportIsWhole
<1>1. ReportOK => ReportIsWhole
  BY DEF ReportOK
<1> QED BY <1>1, ReportInit, ReportStep, SchemaInvInit, SchemaInvStep, PTL DEF Spec

-----------------------------------------------------------------------------
(* The archive.  Each of its operations is one step of a command; all other  *)
(* steps leave the rows, the reports and the ids that were used alone.       *)

LEMMA UsedAfter ==
  ASSUME TypeOK, NEW p \in Procs, Busy(p), NEW o \in Endings,
         outcomes' = [outcomes EXCEPT ![p] = Append(@, o)]
  PROVE  Used' = IF Current(p).name = "run" /\ o = "done" THEN Used \cup {Run(p)} ELSE Used
<1> DEFINE n == Len(outcomes[p]) + 1
           UsedBy(q, i, r) == Commands[q][i] = [name |-> "run", run |-> r]
           Succeeded(q, i) == i <= Len(outcomes[q]) /\ outcomes[q][i] = "done"
           SucceededNow(q, i) == i <= Len(outcomes'[q]) /\ outcomes'[q][i] = "done"
<1>1. /\ outcomes[p] \in Seq(Endings) /\ Len(outcomes[p]) \in Nat
      /\ outcomes'[p] = Append(outcomes[p], o)
      /\ \A q \in Procs \ {p} : outcomes'[q] = outcomes[q]
  BY DEF TypeOK
<1>2. n \in DOMAIN Commands[p] /\ DOMAIN Commands[p] \subseteq Nat \ {0}
  BY CurrentIs, RepositoryAssumption
<1>3. \A i \in DOMAIN Commands[p] : SucceededNow(p, i) <=> Succeeded(p, i) \/ (i = n /\ o = "done")
  BY <1>1, <1>2
<1>4. \A q \in Procs \ {p} : \A i : SucceededNow(q, i) <=> Succeeded(q, i)
  BY <1>1
<1>5. /\ Run(p) \in Runs
      /\ \A r : UsedBy(p, n, r) <=> Current(p).name = "run" /\ r = Run(p)
  BY CurrentIs DEF Current, Run, Command
<1>6. Used = {r \in Runs : \E q \in Procs : \E i \in DOMAIN Commands[q] :
                             UsedBy(q, i, r) /\ Succeeded(q, i)}
  BY DEF Used
<1>7. Used' = {r \in Runs : \E q \in Procs : \E i \in DOMAIN Commands[q] :
                             UsedBy(q, i, r) /\ SucceededNow(q, i)}
  BY DEF Used
<1> HIDE DEF n, UsedBy, Succeeded, SucceededNow
<1>8. ASSUME NEW r \in Runs
      PROVE  r \in Used' <=> r \in Used \/ (Current(p).name = "run" /\ o = "done" /\ r = Run(p))
  <2>1. ASSUME r \in Used'
        PROVE  r \in Used \/ (Current(p).name = "run" /\ o = "done" /\ r = Run(p))
    <3>1. PICK q \in Procs : \E i \in DOMAIN Commands[q] : UsedBy(q, i, r) /\ SucceededNow(q, i)
      BY <1>7, <2>1
    <3>2. CASE q = p
      BY <1>3, <1>5, <1>6, <3>1, <3>2
    <3>3. CASE q # p
      BY <1>4, <1>6, <3>1, <3>3
    <3> QED BY <3>2, <3>3
  <2>2. ASSUME r \in Used PROVE r \in Used'
    <3>1. PICK q \in Procs : \E i \in DOMAIN Commands[q] : UsedBy(q, i, r) /\ Succeeded(q, i)
      BY <1>6, <2>2
    <3> QED BY <1>3, <1>4, <1>7, <3>1
  <2>3. ASSUME Current(p).name = "run", o = "done", r = Run(p) PROVE r \in Used'
    BY <1>2, <1>3, <1>5, <1>7, <2>3
  <2> QED BY <2>1, <2>2, <2>3
<1>9. Used \subseteq Runs /\ Used' \subseteq Runs
  BY <1>6, <1>7
<1> QED BY <1>5, <1>8, <1>9

(* A command that ends without having saved a run, or goes on, uses no id.   *)
LEMMA UsedStays ==
  ASSUME TypeOK, NEW p \in Procs, Busy(p),
         \/ outcomes' = outcomes
         \/ \E o \in Endings : End(p, o) /\ (o = "done" => Current(p).name # "run")
  PROVE  Used' = Used
<1>1. CASE outcomes' = outcomes
  BY <1>1 DEF Used
<1>2. CASE \E o \in Endings : End(p, o) /\ (o = "done" => Current(p).name # "run")
  BY <1>2, UsedAfter DEF End
<1> QED BY <1>1, <1>2

LEMMA ArchiveStep ==
  ASSUME SchemaInv, ReportOK, NEW p \in Procs, Step(p)
  PROVE  [Archive!Next]_(Archive!vars)
<1>1. TypeOK /\ SchemaOK /\ Busy(p)
  BY StepIsBusy DEF SchemaInv
<1>2. Current(p) \in Command /\ Run(p) \in Runs
  BY <1>1, CurrentIs DEF Run, Command
<1>3. ASSUME UNCHANGED <<version, rows, reports>>,
             \/ outcomes' = outcomes
             \/ \E o \in Endings : End(p, o) /\ (o = "done" => Current(p).name # "run")
      PROVE  UNCHANGED Archive!vars
  BY <1>1, <1>3, UsedStays DEF Archive!vars
<1>4. CASE ReadVersion(p) \/ RunStatement(p) \/ FailStatement(p) \/ Crash(p)
  BY <1>3, <1>4 DEF ReadVersion, RunStatement, FailStatement, Crash, Goto, database, Endings
<1>5. CASE InsertVersion(p)
  <2>1. UNCHANGED <<rows, reports>>
    BY <1>5 DEF InsertVersion
  <2>2. CASE version = "none"
    <3>1. version' = "ours" /\ outcomes' = outcomes
      BY <1>5, <2>2 DEF InsertVersion, Goto
    <3>2. Used' = Used
      BY <1>1, <3>1, UsedStays
    <3> QED BY <2>1, <2>2, <3>1, <3>2 DEF Archive!Next, Archive!Create
  <2>3. CASE version # "none"
    BY <1>3, <1>5, <2>1, <2>3 DEF InsertVersion, Endings
  <2> QED BY <2>2, <2>3
<1>6. CASE Save(p)
  <2>1. version = "ours" /\ Current(p).name = "run" /\ ~Saved(Run(p)) /\ step[p] = 1
    BY <1>1, <1>6, ReadyIsOurs, SaveIsFirst, OperationIs DEF Save, Ready
  <2>2. End(p, "done")
    BY <1>6, <2>1, OperationsAre DEF Save, Done
  <2>3. Used' = Used \cup {Run(p)}
    BY <1>1, <2>1, <2>2, UsedAfter DEF End, Endings
  <2>4. Run(p) \notin Used
    BY <2>1 DEF Used, Saved, SavedBy
  <2> QED BY <1>2, <1>6, <2>1, <2>3, <2>4 DEF Save, Put, Archive!Next, Archive!Save
<1>7. CASE Delete(p)
  <2>1. version = "ours" /\ Current(p).name = "delete" /\ step[p] = 1
    BY <1>1, <1>7, ReadyIsOurs, OperationIs DEF Delete, Ready
  <2>2. \E o \in Endings : End(p, o)
    BY <1>7, <2>1, OperationsAre DEF Delete, Done, Endings
  <2>3. Used' = Used
    BY <1>1, <2>1, <2>2, UsedStays
  <2>4. CASE Stored(Run(p))
    BY <1>2, <1>7, <2>1, <2>3, <2>4 DEF Delete, Drop, Stored, Archive!Next, Archive!Delete
  <2>5. CASE ~Stored(Run(p))
    BY <1>7, <2>3, <2>5 DEF Delete, Archive!vars
  <2> QED BY <2>4, <2>5
<1>8. CASE Register(p)
  <2>1. version = "ours" /\ Current(p).name = "report" /\ step[p] = 3
    BY <1>1, <1>8, ReadyIsOurs, OperationIs DEF Register, Ready
  <2>2. \E o \in Endings : End(p, o)
    BY <1>8, <2>1, OperationsAre DEF Register, Done, Endings
  <2>3. Used' = Used /\ rows' = rows /\ version' = version
    BY <1>1, <1>8, <2>1, <2>2, UsedStays DEF Register
  <2>4. CASE reports' = reports
    BY <2>3, <2>4 DEF Archive!vars
  <2>5. CASE reports' # reports
    <3>1. /\ Stored(Run(p)) /\ Run(p) \notin DOMAIN reports
          /\ reports' = Put(reports, Run(p), read[p])
      BY <1>8, <2>5 DEF Register
    <3>2. read[p] = Whole(rows[Run(p)])
      <4>1. pc[p] # "dead"
        BY <1>8 DEF Register, Ready, At
      <4>2. step[p] # 1
        BY <2>1
      <4>3. Looked(p) /\ SoFar(p) = Whole(rows[Run(p)])
        BY <4>2 DEF Looked, SoFar
      <4> QED BY <1>1, <3>1, <4>1, <4>3 DEF ReportOK, ReadOK
    <3> QED BY <1>2, <2>1, <2>3, <3>1, <3>2
            DEF Put, Whole, Stored, Archive!Next, Archive!Report
  <2> QED BY <2>4, <2>5
<1>9. CASE List(p)
  <2>1. Current(p).name = "list" /\ step[p] = 1
    BY <1>1, <1>9, OperationIs, CurrentIs, OperationsAre DEF List, Ready, Operation
  <2> QED BY <1>3, <1>9, <2>1, OperationsAre DEF List, Done, database, Endings
<1>10. CASE ReadRun(p) \/ ReadPlatform(p) \/ ReadTelemetry(p)
  BY <1>3, <1>10 DEF ReadRun, ReadPlatform, ReadTelemetry, Goto, database, Endings
<1> QED BY <1>4, <1>5, <1>6, <1>7, <1>8, <1>9, <1>10 DEF Step, Operate

(* However the statements of the commands are interleaved, and wherever one  *)
(* fails or a process dies: they amount to the atomic operations of the      *)
(* archive, on a database that is ours.                                      *)
THEOREM RepositoryImplementsArchive == Spec => ImplementsArchive
<1>1. Init => Archive!Init
  <2> SUFFICES ASSUME Init PROVE Archive!Init
    OBVIOUS
  <2>1. \A p \in Procs : Len(outcomes[p]) = 0
    BY DEF Init
  <2>2. Used = {}
    BY <2>1, RepositoryAssumption DEF Used
  <2> QED BY <2>2 DEF Init, Archive!Init
<1>2. SchemaInv /\ ReportOK /\ [Next]_vars => [Archive!Next]_(Archive!vars)
  <2> SUFFICES ASSUME SchemaInv, ReportOK, [Next]_vars PROVE [Archive!Next]_(Archive!vars)
    OBVIOUS
  <2>1. CASE UNCHANGED vars
    BY <2>1 DEF vars, Archive!vars, Used
  <2> QED BY <2>1, ArchiveStep, NextIsStep
<1> QED BY <1>1, <1>2, SchemaInvInit, SchemaInvStep, ReportInit, ReportStep, PTL
        DEF Spec, ImplementsArchive, Archive!Spec
=============================================================================
