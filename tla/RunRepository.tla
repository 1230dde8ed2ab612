--------------------------- MODULE RunRepository ----------------------------
(***************************************************************************)
(* SQLiteRepository below its transactions: the initialisation that every  *)
(* operation begins with, in steps that each commit on their own, and      *)
(* get_run, which reads a run with one SELECT after the other.  Processes  *)
(* work on one database file and may fail or die at every step.            *)
(*                                                                         *)
(* EvidenceStore takes each operation as one step and has the files; this  *)
(* module has what happens between the statements.                         *)
(***************************************************************************)
EXTENDS Integers, Sequences

CONSTANTS
  Procs,      \* processes
  Runs,       \* run ids; a run id is drawn at random and never used twice
  Executions, \* what validation runs produce: records with run, platform, telemetry
  Statements, \* number of statements of the schema script
  Commands,   \* the commands a process is given, one after the other
  Faults      \* what may go wrong, a subset of {"crash", "statement"}

(* What platval run, report, runs list and runs delete ask of the            *)
(* repository.  A report loads the run, looks at it again before it writes   *)
(* the file, and registers the file.                                         *)
Operations == [run    |-> <<"save">>,
               report |-> <<"load", "check", "register">>,
               list   |-> <<"list">>,
               delete |-> <<"delete">>]

Command == [name : DOMAIN Operations, run : Runs]

ASSUME RepositoryAssumption ==
  /\ Statements \in Nat \ {0}
  /\ Commands \in [Procs -> Seq(Command)]
  /\ Faults \subseteq {"crash", "statement"}
  /\ \A e \in Executions : DOMAIN e.telemetry = DOMAIN e.run.results
  \* A run id is saved by one command.
  /\ \A p, q \in Procs : \A i \in DOMAIN Commands[p], j \in DOMAIN Commands[q] :
       /\ Commands[p][i].name = "run" /\ Commands[q][j].name = "run"
       /\ Commands[p][i].run = Commands[q][j].run
       => p = q /\ i = j

VARIABLES
  version,  \* the row schema_version: "none", "ours" or "foreign"
  tables,   \* how many statements of the script the database has seen
  rows,     \* the stored runs with their executions, one transaction each
  reports,  \* the registered reports and what each was made from
  pc,       \* pc[p]: the next step of p's operation
  step,     \* step[p]: the operation p's command is at
  seen,     \* seen[p]: the version p's initialisation has read
  read,     \* read[p]: what p's command has loaded of its run so far
  outcomes  \* outcomes[p]: how p's commands so far ended

database == <<version, tables, rows, reports>>
vars == <<version, tables, rows, reports, pc, step, seen, read, outcomes>>

(* A new database, or one of another schema version. *)
Init ==
  /\ version \in {"none", "foreign"}
  /\ tables = 0
  /\ rows = << >>
  /\ reports = << >>
  /\ pc = [p \in Procs |-> "begin"]
  /\ step = [p \in Procs |-> 1]
  /\ seen = [p \in Procs |-> "none"]
  /\ read = [p \in Procs |-> << >>]
  /\ outcomes = [p \in Procs |-> << >>]

Busy(p)      == Len(outcomes[p]) < Len(Commands[p])
Current(p)   == Commands[p][Len(outcomes[p]) + 1]
Operation(p) == Operations[Current(p).name][step[p]]
Run(p)       == Current(p).run
Stored(r)    == r \in DOMAIN rows

Put(f, k, v) == [x \in DOMAIN f \cup {k} |-> IF x = k THEN v ELSE f[x]]
Drop(f, k)   == [x \in DOMAIN f \ {k} |-> f[x]]

(* The command is over; p's next one is another call of the program. *)
End(p, outcome) ==
  /\ outcomes' = [outcomes EXCEPT ![p] = Append(@, outcome)]
  /\ pc' = [pc EXCEPT ![p] = "begin"]
  /\ step' = [step EXCEPT ![p] = 1]
  /\ read' = [read EXCEPT ![p] = << >>]
  /\ UNCHANGED seen

Goto(p, label) ==
  /\ pc' = [pc EXCEPT ![p] = label]
  /\ UNCHANGED <<step, outcomes>>

(* The operation is over: the command's next one, or its end. *)
Done(p) ==
  IF step[p] = Len(Operations[Current(p).name])
  THEN End(p, "done")
  ELSE /\ step' = [step EXCEPT ![p] = @ + 1]
       /\ pc' = [pc EXCEPT ![p] = "begin"]
       /\ UNCHANGED <<seen, read, outcomes>>

At(p, label) == Busy(p) /\ pc[p] = label

-----------------------------------------------------------------------------
(* Mutant: the schema script comes before the version is read. *)
ReadVersionLate(p) ==
  /\ At(p, "begin")
  /\ tables' = IF tables < Statements THEN tables + 1 ELSE tables
  /\ IF version = "foreign"
     THEN End(p, "foreign")
     ELSE /\ seen' = [seen EXCEPT ![p] = version]
          /\ Goto(p, "script")
          /\ UNCHANGED read
  /\ UNCHANGED <<version, rows, reports>>

(* Mutant: a process remembers the version it read first. *)
ReadVersionOnce(p) ==
  /\ At(p, "begin")
  /\ IF version = "foreign"
     THEN End(p, "foreign")
     ELSE /\ seen' = [seen EXCEPT ![p] = IF outcomes[p] = << >> THEN version ELSE @]
          /\ Goto(p, "script")
          /\ UNCHANGED read
  /\ UNCHANGED database

(* initialize.  schema_metadata is created if it is not there, which nothing *)
(* can see, and the version is read.  Opening the connection has switched    *)
(* the file to write-ahead logging before that, a foreign file too: database *)
(* stands for tables and rows, not for the bytes of the file.                *)
ReadVersion(p) ==
  /\ At(p, "begin")
  /\ IF version = "foreign"
     THEN End(p, "foreign")
     ELSE /\ seen' = [seen EXCEPT ![p] = version]
          /\ Goto(p, "script")
          /\ UNCHANGED read
  /\ UNCHANGED database

(* executescript: every statement commits on its own, and one whose table    *)
(* exists does nothing.                                                      *)
RunStatement(p) ==
  /\ At(p, "script")
  /\ tables < Statements
  /\ tables' = tables + 1
  /\ UNCHANGED <<version, rows, reports, pc, step, seen, read, outcomes>>

(* The version that was missing is inserted; its key is unique. *)
InsertVersion(p) ==
  /\ At(p, "script")
  /\ tables = Statements
  /\ seen[p] = "none"
  /\ IF version = "none"
     THEN /\ version' = "ours"
          /\ Goto(p, "operate")
          /\ UNCHANGED <<seen, read>>
     ELSE End(p, "conflict") /\ UNCHANGED version
  /\ UNCHANGED <<tables, rows, reports>>

Ready(p, operation) ==
  /\ \/ At(p, "operate")
     \/ At(p, "script") /\ tables = Statements /\ seen[p] = "ours"
  /\ Operation(p) = operation

-----------------------------------------------------------------------------
Save(p) ==
  /\ Ready(p, "save")
  /\ \E e \in Executions : rows' = Put(rows, Run(p), e)
  /\ Done(p)
  /\ UNCHANGED <<version, tables, reports>>

List(p) ==
  /\ Ready(p, "list")
  /\ Done(p)
  /\ UNCHANGED database

(* Mutant: every DELETE commits on its own, and one of them may fail. *)
DeletePiecemeal(p) ==
  /\ Ready(p, "delete")
  /\ IF Stored(Run(p))
     THEN /\ reports' = Drop(reports, Run(p))
          /\ \/ rows' = Drop(rows, Run(p)) /\ Done(p)
             \/ "statement" \in Faults /\ End(p, "failed") /\ UNCHANGED rows
     ELSE End(p, "not_found") /\ UNCHANGED <<rows, reports>>
  /\ UNCHANGED <<version, tables>>

(* Deleting a run deletes its platform, and by cascade everything of it. *)
Delete(p) ==
  /\ Ready(p, "delete")
  /\ IF Stored(Run(p))
     THEN /\ rows' = Drop(rows, Run(p))
          /\ reports' = Drop(reports, Run(p))
          /\ Done(p)
     ELSE End(p, "not_found") /\ UNCHANGED <<rows, reports>>
  /\ UNCHANGED <<version, tables>>

(* What a load keeps; a check only looks. *)
Keep(p, values) ==
  read' = [read EXCEPT ![p] = IF Operation(p) = "load" THEN @ \o values ELSE @]

(* get_run's first SELECT. *)
ReadRun(p) ==
  /\ Ready(p, "load") \/ Ready(p, "check")
  /\ IF Stored(Run(p))
     THEN /\ Keep(p, <<rows[Run(p)].run>>)
          /\ Goto(p, "platform")
          /\ UNCHANGED seen
     ELSE End(p, "not_found")
  /\ UNCHANGED database

(* The second one: a run without its platform snapshot is an error. *)
ReadPlatform(p) ==
  /\ At(p, "platform")
  /\ IF Stored(Run(p))
     THEN /\ Keep(p, <<rows[Run(p)].platform>>)
          /\ Goto(p, "telemetry")
          /\ UNCHANGED seen
     ELSE End(p, "no_platform")
  /\ UNCHANGED database

(* The third: no samples are no error.  The fourth, of the artifacts, adds   *)
(* nothing to a report.                                                      *)
ReadTelemetry(p) ==
  /\ At(p, "telemetry")
  /\ LET samples == IF Stored(Run(p)) THEN rows[Run(p)].telemetry
                    ELSE [i \in DOMAIN read[p][1].results |-> << >>]
     IN  Keep(p, <<samples>>)
  /\ pc' = [pc EXCEPT ![p] = "begin"]
  /\ step' = [step EXCEPT ![p] = @ + 1]
  /\ UNCHANGED <<seen, outcomes>>
  /\ UNCHANGED database

(* Mutant: the run is not looked for before its report is registered. *)
RegisterUnchecked(p) ==
  /\ Ready(p, "register")
  /\ IF Run(p) \notin DOMAIN reports
     THEN reports' = Put(reports, Run(p), read[p]) /\ Done(p)
     ELSE End(p, "duplicate") /\ UNCHANGED reports
  /\ UNCHANGED <<version, tables, rows>>

(* add_artifact: the run must be there, and the report must be its first. *)
Register(p) ==
  /\ Ready(p, "register")
  /\ IF ~Stored(Run(p))
     THEN End(p, "not_found") /\ UNCHANGED reports
     ELSE IF Run(p) \notin DOMAIN reports
     THEN reports' = Put(reports, Run(p), read[p]) /\ Done(p)
     ELSE End(p, "duplicate") /\ UNCHANGED reports
  /\ UNCHANGED <<version, tables, rows>>

-----------------------------------------------------------------------------
(* A statement fails: the disk is full, the database stays locked. *)
FailStatement(p) ==
  /\ "statement" \in Faults
  /\ Busy(p) /\ pc[p] # "dead"
  /\ End(p, "failed")
  /\ UNCHANGED database

Crash(p) ==
  /\ "crash" \in Faults
  /\ Busy(p) /\ pc[p] # "dead"
  /\ Goto(p, "dead")
  /\ UNCHANGED <<version, tables, rows, reports, seen, read>>

Operate(p) ==
  \/ Save(p) \/ List(p) \/ Delete(p) \/ Register(p)
  \/ ReadRun(p) \/ ReadPlatform(p) \/ ReadTelemetry(p)

Next ==
  \E p \in Procs : \/ ReadVersion(p) \/ RunStatement(p) \/ InsertVersion(p)
                   \/ Operate(p) \/ FailStatement(p) \/ Crash(p)

Spec == Init /\ [][Next]_vars

-----------------------------------------------------------------------------
Whole(e) == <<e.run, e.platform, e.telemetry>>

(* A database of another version is left as it is; the version is written    *)
(* once, when every table is there, and no table goes: whoever crashes in    *)
(* the middle of the script, and whoever else initialises at the same time.  *)
SchemaSafe ==
  [][/\ version # "none" => version' = version
     /\ version' = "ours" => tables' = Statements
     /\ version = "foreign" => UNCHANGED database
     /\ tables <= tables']_vars

(* Two processes may both find a new database, and then one's command fails  *)
(* with a conflict (IntegrityError, reported as a PersistenceError).  It can *)
(* be given again: no process has more than one command fail that way.       *)
ConflictOnce ==
  \A p \in Procs : \A i, j \in DOMAIN outcomes[p] :
    outcomes[p][i] = "conflict" /\ outcomes[p][j] = "conflict" => i = j

(* A registered report was made from all of the run as it is stored.  A load *)
(* that a deletion overtakes may find no samples of a run that has some, but *)
(* its report is not registered.                                             *)
ReportIsWhole ==
  \A r \in DOMAIN reports : r \in DOMAIN rows /\ reports[r] = Whole(rows[r])

(* The runs that were saved, whether they are still stored or not. *)
Used ==
  {r \in Runs : \E p \in Procs : \E i \in DOMAIN Commands[p] :
     /\ Commands[p][i] = [name |-> "run", run |-> r]
     /\ i <= Len(outcomes[p]) /\ outcomes[p][i] = "done"}

Archive == INSTANCE RunArchive WITH schema <- version, used <- Used, stored <- rows

(* The statements of every command, interleaved with those of others and cut *)
(* short anywhere, amount to atomic operations: a report shows the run as it *)
(* was at one moment, although get_run reads it in four.                     *)
ImplementsArchive == Archive!Spec
=============================================================================
