---------------------------- MODULE EvidenceStore ----------------------------
(***************************************************************************)
(* The evidence store of platval: the directory <runtime>/runs, the trash, *)
(* the SQLite database, and the commands that several platval processes    *)
(* run on them: persisting a run, generating a report, creating a baseline,*)
(* deleting a run and comparing with a baseline.  One step is one file     *)
(* operation or one database transaction (BEGIN IMMEDIATE makes those      *)
(* atomic), so commands interleave between them.  A process may crash      *)
(* between two steps, an operation may fail, and Ctrl+C may raise          *)
(* KeyboardInterrupt between two steps: Faults says which of these happen. *)
(***************************************************************************)
CONSTANTS
  Procs,        \* platval processes; each runs one command after another
  Runs,         \* run identifiers (uuid4)
  KnownGood,    \* the runs whose overall status is neither FAIL nor ERROR
  Reports,      \* names of derived artifacts: report.md, report.html
  Names,        \* baseline names
  None,         \* no run, no argument
  Faults,       \* which failures happen, a subset of FaultKinds
  SoleReporter  \* TRUE: nobody runs two reports of one run and format at once

Canonical == "run.json"
Files == Reports \cup {Canonical}
FaultKinds == {"crash", "interrupt", "write", "db", "undo", "move"}

ASSUME ConstantsAssumption ==
  /\ KnownGood \subseteq Runs
  /\ Canonical \notin Reports
  /\ None \notin Runs \cup Names \cup Files
  /\ Faults \subseteq FaultKinds
  /\ SoleReporter \in BOOLEAN

VARIABLES
  row,       \* row[r]: "none", "stored", or "deleted" (stored once, no row left)
  artifacts, \* artifacts[r]: names in the artifacts table, {} without a row
  baselines, \* baselines[n]: the source run, or None
  place,     \* place[r]: the run directory: "none", "runs" or "trash"
  files,     \* files[r]: complete files of the run directory
  tmp,       \* tmp[r]: the f for which the directory holds <f>.tmp
  minted,    \* run identifiers drawn so far
  pc,        \* pc[p]: the next step of p's command, or how it ended
  run,       \* run[p]: the run the command of p is about
  arg        \* arg[p]: its file, its baseline name, or the source run read

db    == <<row, artifacts, baselines>>
disk  == <<place, files, tmp>>
call  == <<minted, run, arg>>
vars  == <<row, artifacts, baselines, place, files, tmp, minted, pc, run, arg>>

EndPcs     == {"idle", "ok", "failed", "refused", "lost", "crashed"}
SavingPcs  == {"mkdir", "payload", "write", "replace", "save", "undo"}
WritingPcs == {"open", "rename", "renamed", "register", "unwind", "unwindAll"}
ReportPcs  == {"load", "json", "get", "check", "registered"} \cup WritingPcs
Pcs == EndPcs \cup SavingPcs \cup ReportPcs
         \cup {"saved", "source", "pin", "unrow", "move",
               "baseline", "sourceRun", "currentRun"}

Init ==
  /\ row = [r \in Runs |-> "none"]
  /\ artifacts = [r \in Runs |-> {}]
  /\ baselines = [n \in Names |-> None]
  /\ place = [r \in Runs |-> "none"]
  /\ files = [r \in Runs |-> {}]
  /\ tmp = [r \in Runs |-> {}]
  /\ minted = {}
  /\ pc = [p \in Procs |-> "idle"]
  /\ run = [p \in Procs |-> None]
  /\ arg = [p \in Procs |-> None]

Ended(p)  == pc[p] \in EndPcs
InRuns(r) == place[r] = "runs"
Stored(r) == row[r] = "stored"

Goto(p, next) == pc' = [pc EXCEPT ![p] = next]

(* A command line of p: its first step, its run and its other argument. *)
Start(p, first, r, a) ==
  /\ Ended(p)
  /\ Goto(p, first)
  /\ run' = [run EXCEPT ![p] = r]
  /\ arg' = [arg EXCEPT ![p] = a]
  /\ UNCHANGED <<db, disk>>

-----------------------------------------------------------------------------
(* platval run: the run has been executed and is now persisted.              *)

StartPersist(p, r) ==
  /\ r \notin minted
  /\ minted' = minted \cup {r}
  /\ Start(p, "mkdir", r, Canonical)

PersistMkdir(p) ==
  /\ pc[p] = "mkdir"
  /\ \/ /\ ~InRuns(run[p])
        /\ place' = [place EXCEPT ![run[p]] = "runs"]
        /\ Goto(p, "payload")
     \/ /\ InRuns(run[p]) \/ "write" \in Faults
        /\ Goto(p, "failed")
        /\ UNCHANGED place
  /\ UNCHANGED <<db, files, tmp, call>>

(* The JSON text is built after the directory exists and before the try. *)
PersistPayload(p) ==
  /\ pc[p] = "payload"
  /\ Goto(p, "write")
  /\ UNCHANGED <<db, disk, call>>

PersistWrite(p) ==
  /\ pc[p] = "write"
  /\ \/ /\ tmp' = [tmp EXCEPT ![run[p]] = @ \cup {Canonical}]
        /\ Goto(p, "replace")
     \/ /\ "write" \in Faults
        /\ \/ tmp' = [tmp EXCEPT ![run[p]] = @ \cup {Canonical}]
           \/ UNCHANGED tmp
        /\ Goto(p, "undo")
  /\ UNCHANGED <<db, place, files, call>>

(* Mutant: a failed rename is ignored and the rows are saved all the same. *)
PersistReplaceUnchecked(p) ==
  /\ pc[p] = "replace"
  /\ \/ /\ tmp' = [tmp EXCEPT ![run[p]] = @ \ {Canonical}]
        /\ files' = [files EXCEPT ![run[p]] = @ \cup {Canonical}]
     \/ "write" \in Faults /\ UNCHANGED <<files, tmp>>
  /\ Goto(p, "save")
  /\ UNCHANGED <<db, place, call>>

PersistReplace(p) ==
  /\ pc[p] = "replace"
  /\ \/ /\ tmp' = [tmp EXCEPT ![run[p]] = @ \ {Canonical}]
        /\ files' = [files EXCEPT ![run[p]] = @ \cup {Canonical}]
        /\ Goto(p, "save")
     \/ /\ "write" \in Faults
        /\ Goto(p, "undo")
        /\ UNCHANGED <<files, tmp>>
  /\ UNCHANGED <<db, place, call>>

PersistSave(p) ==
  /\ pc[p] = "save"
  /\ \/ /\ row' = [row EXCEPT ![run[p]] = "stored"]
        /\ artifacts' = [artifacts EXCEPT ![run[p]] = {Canonical}]
        /\ Goto(p, "saved")
     \/ /\ "db" \in Faults
        /\ Goto(p, "undo")
        /\ UNCHANGED <<row, artifacts>>
  /\ UNCHANGED <<baselines, disk, call>>

(* The rows are committed; save_execution and persist_execution return. *)
PersistReturn(p) ==
  /\ pc[p] = "saved"
  /\ Goto(p, "ok")
  /\ UNCHANGED <<db, disk, call>>

(* except BaseException: rmtree, which may itself stop half way. *)
PersistUndo(p) ==
  /\ pc[p] = "undo"
  /\ \/ /\ place' = [place EXCEPT ![run[p]] = "none"]
        /\ files' = [files EXCEPT ![run[p]] = {}]
        /\ tmp' = [tmp EXCEPT ![run[p]] = {}]
     \/ /\ "undo" \in Faults
        /\ \E some \in SUBSET files[run[p]] :
             files' = [files EXCEPT ![run[p]] = some]
        /\ UNCHANGED <<place, tmp>>
  /\ Goto(p, "failed")
  /\ UNCHANGED <<db, call>>

-----------------------------------------------------------------------------
(* platval report: JSON returns the canonical file, the others are written.  *)

StartReport(p, r, f) ==
  /\ SoleReporter => \A q \in Procs :
       pc[q] \in ReportPcs => run[q] # r \/ arg[q] # f
  /\ Start(p, "load", r, f)
  /\ UNCHANGED minted

ReportLoad(p) ==
  /\ pc[p] = "load"
  /\ Goto(p, IF ~Stored(run[p]) THEN "failed"
             ELSE IF arg[p] = Canonical THEN "json" ELSE "get")
  /\ UNCHANGED <<db, disk, call>>

ReportJson(p) ==
  /\ pc[p] = "json"
  /\ Goto(p, IF InRuns(run[p]) /\ Canonical \in files[run[p]]
             THEN "ok" ELSE "failed")
  /\ UNCHANGED <<db, disk, call>>

ReportGet(p) ==
  /\ pc[p] = "get"
  /\ Goto(p, IF Stored(run[p]) THEN "check" ELSE "failed")
  /\ UNCHANGED <<db, disk, call>>

(* Mutant: the existence check forgets the finished artifact. *)
ReportCheckTmpOnly(p) ==
  /\ pc[p] = "check"
  /\ Goto(p, IF ~InRuns(run[p]) THEN "failed"
             ELSE IF arg[p] \in tmp[run[p]] THEN "refused" ELSE "open")
  /\ UNCHANGED <<db, disk, call>>

ReportCheck(p) ==
  /\ pc[p] = "check"
  /\ Goto(p, IF ~InRuns(run[p]) THEN "failed"
             ELSE IF arg[p] \in files[run[p]] \cup tmp[run[p]] THEN "refused"
             ELSE "open")
  /\ UNCHANGED <<db, disk, call>>

(* open("xb"), write, fsync: needs the directory and no such file. *)
ReportOpen(p) ==
  /\ pc[p] = "open"
  /\ LET possible == InRuns(run[p]) /\ arg[p] \notin tmp[run[p]] IN
     \/ /\ possible
        /\ tmp' = [tmp EXCEPT ![run[p]] = @ \cup {arg[p]}]
        /\ \/ Goto(p, "rename")
           \/ "write" \in Faults /\ Goto(p, "unwind")
     \/ /\ ~possible \/ "write" \in Faults
        /\ Goto(p, "unwind")
        /\ UNCHANGED tmp
  /\ UNCHANGED <<db, place, files, call>>

ReportRename(p) ==
  /\ pc[p] = "rename"
  /\ LET possible == InRuns(run[p]) /\ arg[p] \in tmp[run[p]] IN
     \/ /\ possible
        /\ tmp' = [tmp EXCEPT ![run[p]] = @ \ {arg[p]}]
        /\ files' = [files EXCEPT ![run[p]] = @ \cup {arg[p]}]
        /\ Goto(p, "renamed")
     \/ /\ ~possible \/ "write" \in Faults
        /\ Goto(p, "unwind")
        /\ UNCHANGED <<files, tmp>>
  /\ UNCHANGED <<db, place, call>>

(* created_artifact = True: from here on the handler removes the file too. *)
(* Mutant: created_artifact is set only after the registration. *)
ReportRenamedLate(p) ==
  /\ pc[p] = "renamed"
  /\ \/ Goto(p, "register")
     \/ "db" \in Faults /\ Goto(p, "unwind")
  /\ UNCHANGED <<db, disk, call>>

ReportRenamed(p) ==
  /\ pc[p] = "renamed"
  /\ Goto(p, "register")
  /\ UNCHANGED <<db, disk, call>>

ReportRegister(p) ==
  /\ pc[p] = "register"
  /\ LET possible == Stored(run[p]) /\ arg[p] \notin artifacts[run[p]] IN
     \/ /\ possible
        /\ artifacts' = [artifacts EXCEPT ![run[p]] = @ \cup {arg[p]}]
        /\ Goto(p, "registered")
     \/ /\ ~possible \/ "db" \in Faults
        /\ Goto(p, "unwindAll")
        /\ UNCHANGED artifacts
  /\ UNCHANGED <<row, baselines, disk, call>>

ReportReturn(p) ==
  /\ pc[p] = "registered"
  /\ Goto(p, "ok")
  /\ UNCHANGED <<db, disk, call>>

(* except BaseException: the temporary file goes, whoever created it, and    *)
(* the artifact goes when this process put it in place.  One step for both:  *)
(* after its rename a process has no temporary file left, so that its first  *)
(* unlink only finds one that another reporter has just created.             *)
ReportUnwind(p) ==
  /\ pc[p] \in {"unwind", "unwindAll"}
  /\ \/ /\ InRuns(run[p])
        /\ tmp' = [tmp EXCEPT ![run[p]] = @ \ {arg[p]}]
        /\ files' = IF pc[p] = "unwindAll"
                    THEN [files EXCEPT ![run[p]] = @ \ {arg[p]}] ELSE files
     \/ /\ ~InRuns(run[p]) \/ "undo" \in Faults
        /\ UNCHANGED <<files, tmp>>
  /\ Goto(p, "failed")
  /\ UNCHANGED <<db, place, call>>

-----------------------------------------------------------------------------
(* platval baseline create: the status is read in one connection, the        *)
(* pointer inserted in another.                                              *)

StartBaseline(p, r, n) == Start(p, "source", r, n) /\ UNCHANGED minted

BaselineSource(p) ==
  /\ pc[p] = "source"
  /\ Goto(p, IF Stored(run[p]) /\ run[p] \in KnownGood THEN "pin" ELSE "failed")
  /\ UNCHANGED <<db, disk, call>>

(* Mutant: INSERT OR REPLACE instead of the check for the name. *)
BaselinePinReplacing(p) ==
  /\ pc[p] = "pin"
  /\ IF Stored(run[p])
     THEN /\ baselines' = [baselines EXCEPT ![arg[p]] = run[p]]
          /\ Goto(p, "ok")
     ELSE Goto(p, "failed") /\ UNCHANGED baselines
  /\ UNCHANGED <<row, artifacts, disk, call>>

(* Mutant: the transaction relies on the earlier read of the source run. *)
BaselinePinUnchecked(p) ==
  /\ pc[p] = "pin"
  /\ IF baselines[arg[p]] = None
     THEN /\ baselines' = [baselines EXCEPT ![arg[p]] = run[p]]
          /\ Goto(p, "ok")
     ELSE Goto(p, "failed") /\ UNCHANGED baselines
  /\ UNCHANGED <<row, artifacts, disk, call>>

(* Mutant: name and source run are swapped in the INSERT. *)
BaselinePinSwapped(p) ==
  /\ pc[p] = "pin"
  /\ IF baselines[arg[p]] = None /\ Stored(run[p])
     THEN /\ baselines' = [baselines EXCEPT ![arg[p]] = arg[p]]
          /\ Goto(p, "ok")
     ELSE Goto(p, "failed") /\ UNCHANGED baselines
  /\ UNCHANGED <<row, artifacts, disk, call>>

BaselinePin(p) ==
  /\ pc[p] = "pin"
  /\ LET possible == baselines[arg[p]] = None /\ Stored(run[p]) IN
     \/ /\ possible
        /\ baselines' = [baselines EXCEPT ![arg[p]] = run[p]]
        /\ Goto(p, "ok")
     \/ /\ ~possible \/ "db" \in Faults
        /\ Goto(p, "failed")
        /\ UNCHANGED baselines
  /\ UNCHANGED <<row, artifacts, disk, call>>

-----------------------------------------------------------------------------
(* platval runs delete: the rows go first, the directory moves afterwards.   *)

StartDelete(p, r) == Start(p, "unrow", r, None) /\ UNCHANGED minted

(* Mutant: neither the baseline query nor the foreign key holds rows back. *)
DeleteRowUnguarded(p) ==
  /\ pc[p] = "unrow"
  /\ IF Stored(run[p])
     THEN /\ row' = [row EXCEPT ![run[p]] = "deleted"]
          /\ artifacts' = [artifacts EXCEPT ![run[p]] = {}]
          /\ Goto(p, "move")
     ELSE Goto(p, "failed") /\ UNCHANGED <<row, artifacts>>
  /\ UNCHANGED <<baselines, disk, call>>

DeleteRow(p) ==
  /\ pc[p] = "unrow"
  /\ LET possible == Stored(run[p]) /\ \A n \in Names : baselines[n] # run[p] IN
     \/ /\ possible
        /\ row' = [row EXCEPT ![run[p]] = "deleted"]
        /\ artifacts' = [artifacts EXCEPT ![run[p]] = {}]
        /\ Goto(p, "move")
     \/ /\ ~possible \/ "db" \in Faults
        /\ Goto(p, "failed")
        /\ UNCHANGED <<row, artifacts>>
  /\ UNCHANGED <<baselines, disk, call>>

(* Mutant: the directory is removed instead of moved. *)
DeleteMoveErasing(p) ==
  /\ pc[p] = "move"
  /\ place' = [place EXCEPT ![run[p]] = "none"]
  /\ Goto(p, "ok")
  /\ UNCHANGED <<db, files, tmp, call>>

DeleteMove(p) ==
  /\ pc[p] = "move"
  /\ \/ /\ place' = IF InRuns(run[p]) THEN [place EXCEPT ![run[p]] = "trash"]
                    ELSE place
        /\ Goto(p, "ok")
     \/ /\ InRuns(run[p]) /\ "move" \in Faults
        /\ Goto(p, "failed")
        /\ UNCHANGED place
  /\ UNCHANGED <<db, files, tmp, call>>

-----------------------------------------------------------------------------
(* platval compare: three reads, each in a connection of its own.            *)

StartCompare(p, r, n) == Start(p, "baseline", r, n) /\ UNCHANGED minted

CompareBaseline(p) ==
  /\ pc[p] = "baseline"
  /\ IF baselines[arg[p]] = None
     THEN Goto(p, "failed") /\ UNCHANGED arg
     ELSE /\ Goto(p, "sourceRun")
          /\ arg' = [arg EXCEPT ![p] = baselines[arg[p]]]
  /\ UNCHANGED <<db, disk, minted, run>>

CompareSource(p) ==
  /\ pc[p] = "sourceRun"
  /\ Goto(p, IF Stored(arg[p]) THEN "currentRun" ELSE "lost")
  /\ UNCHANGED <<db, disk, call>>

CompareCurrent(p) ==
  /\ pc[p] = "currentRun"
  /\ Goto(p, IF Stored(run[p]) THEN "ok" ELSE "failed")
  /\ UNCHANGED <<db, disk, call>>

-----------------------------------------------------------------------------
Crash(p) ==
  /\ "crash" \in Faults
  /\ ~Ended(p)
  /\ Goto(p, "crashed")
  /\ UNCHANGED <<db, disk, call>>

(* Where KeyboardInterrupt takes a command that is about to do step s. *)
Handler(s) ==
  CASE s \in {"write", "replace", "save", "saved"} -> "undo"
    [] s \in {"open", "rename", "renamed"}         -> "unwind"
    [] s \in {"register", "registered"}            -> "unwindAll"
    [] OTHER                                       -> "failed"

Interrupt(p) ==
  /\ "interrupt" \in Faults
  /\ ~Ended(p)
  /\ Goto(p, Handler(pc[p]))
  /\ UNCHANGED <<db, disk, call>>

(* The user starts a command in a process that is free. *)
Command(p) ==
  \E r \in Runs :
    \/ StartPersist(p, r)
    \/ \E f \in Files : StartReport(p, r, f)
    \/ \E n \in Names : StartBaseline(p, r, n) \/ StartCompare(p, r, n)
    \/ StartDelete(p, r)

(* The command of p goes on. *)
Step(p) ==
  \/ PersistMkdir(p)   \/ PersistPayload(p) \/ PersistWrite(p)
  \/ PersistReplace(p) \/ PersistSave(p)    \/ PersistReturn(p)
  \/ PersistUndo(p)
  \/ ReportLoad(p)     \/ ReportJson(p)     \/ ReportGet(p)
  \/ ReportCheck(p)    \/ ReportOpen(p)     \/ ReportRename(p)
  \/ ReportRenamed(p)  \/ ReportRegister(p) \/ ReportReturn(p)
  \/ ReportUnwind(p)
  \/ BaselineSource(p) \/ BaselinePin(p)
  \/ DeleteRow(p)      \/ DeleteMove(p)
  \/ CompareBaseline(p) \/ CompareSource(p) \/ CompareCurrent(p)

Next == \E p \in Procs : Command(p) \/ Step(p) \/ Crash(p) \/ Interrupt(p)

(* A process that is running a command is scheduled: nothing blocks it.  A  *)
(* lock it waits for becomes an error after SQLite's timeout ("db").        *)
Fairness == \A p \in Procs : WF_vars(Step(p))

Spec == Init /\ [][Next]_vars
FairSpec == Spec /\ Fairness

-----------------------------------------------------------------------------
TypeOK ==
  /\ row \in [Runs -> {"none", "stored", "deleted"}]
  /\ artifacts \in [Runs -> SUBSET Files]
  /\ baselines \in [Names -> Runs \cup {None}]
  /\ place \in [Runs -> {"none", "runs", "trash"}]
  /\ files \in [Runs -> SUBSET Files]
  /\ tmp \in [Runs -> SUBSET Files]
  /\ minted \subseteq Runs
  /\ pc \in [Procs -> Pcs]
  /\ run \in [Procs -> Runs \cup {None}]
  /\ arg \in [Procs -> Files \cup Names \cup Runs \cup {None}]
  /\ \A p \in Procs : ~Ended(p) => run[p] \in Runs

(* A run with rows in the database has its canonical JSON in runs/<id>:     *)
(* persist_execution writes the file before it commits, and nothing takes   *)
(* the file away before delete_run has removed the rows.                    *)
CanonicalPresent ==
  \A r \in Runs : Stored(r) => InRuns(r) /\ Canonical \in files[r]

(* An artifact registered in SQLite is a file of the run directory, however *)
(* report, delete and crashes interleave: write_derived_artifact registers  *)
(* what it has put in place and never removes what is registered.           *)
RegisteredOnDisk ==
  \A r \in Runs : Stored(r) => artifacts[r] \subseteq files[r]

(* A baseline names a run that is still stored and is known good, although  *)
(* create_baseline checks the status in one connection, inserts in another, *)
(* and runs delete may come in between.                                     *)
BaselineSourceStored ==
  \A n \in Names : baselines[n] # None =>
    Stored(baselines[n]) /\ baselines[n] \in KnownGood

(* compare_run never finds a baseline and then misses its source run. *)
CompareFindsSource == \A p \in Procs : pc[p] # "lost"

(* A baseline is immutable: once set, no step changes it or removes it. *)
BaselinesImmutable ==
  [][\A n \in Names : baselines[n] # None => baselines'[n] = baselines[n]]_baselines

Quiet(r) == \A p \in Procs : Ended(p) \/ run[p] # r

(* When no command works on a run, and only writes and transactions failed, *)
(* the disk says what the database says: the directory is under runs/       *)
(* exactly when the run is stored, it holds exactly the registered          *)
(* artifacts, and no temporary file is left.                                *)
DiskMatchesDatabase ==
  \A r \in Runs : Quiet(r) =>
    /\ InRuns(r) <=> Stored(r)
    /\ InRuns(r) => files[r] = artifacts[r] /\ tmp[r] = {}

(* A deleted run is recoverable: its directory reaches the trash with the   *)
(* canonical JSON in it.                                                    *)
DeletionReachesTrash ==
  \A r \in Runs : row[r] = "deleted" ~>
                    (place[r] = "trash" /\ Canonical \in files[r])

(* architecture.md, "Reporting boundary": "Existing files are never          *)
(* overwritten": os.replace in write_derived_artifact finds no artifact of   *)
(* that name.                                                                *)
NeverOverwritten ==
  [][\A p \in Procs : pc[p] = "rename" /\ pc'[p] = "renamed" =>
       arg[p] \notin files[run[p]]]_vars

(* The refinement: the ledger read off the database and the files. *)
Ledger == INSTANCE EvidenceLedger WITH
  ledger <- row,
  kept <- {r \in Runs : row[r] # "none" /\ Canonical \in files[r]},
  published <- [r \in Runs |-> IF Stored(r) THEN artifacts[r] \cap files[r] ELSE {}],
  pinned <- baselines

(* Every step of every command is a step of the ledger or invisible to it. *)
ImplementsLedger == Ledger!Spec
=============================================================================
