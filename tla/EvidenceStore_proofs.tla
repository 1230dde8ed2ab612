------------------------ MODULE EvidenceStore_proofs ------------------------
(***************************************************************************)
(* Machine-checked proofs about EvidenceStore, for any numbers of          *)
(* processes, runs, reports and baselines.                                 *)
(***************************************************************************)
EXTENDS EvidenceStore, TLAPS

(* What the arguments of a command are, by the step it is at. *)
ArgOK ==
  \A p \in Procs :
    /\ pc[p] \in ReportPcs \ {"load", "json"} => arg[p] \in Reports
    /\ pc[p] \in ReportPcs => arg[p] \in Files
    /\ pc[p] \in {"source", "pin", "baseline"} => arg[p] \in Names

Safe == TypeOK /\ ArgOK

USE DEF Canonical

LEMMA SafeInit == Init => Safe
  BY ConstantsAssumption DEF Init, Safe, TypeOK, ArgOK, Pcs, EndPcs, Ended,
     SavingPcs, ReportPcs, WritingPcs

(* One step of a command, a new command, a crash or an interrupt keeps the  *)
(* types and the arguments.                                                 *)
LEMMA SafeStep == Safe /\ [Next]_vars => Safe'
<1> SUFFICES ASSUME Safe, [Next]_vars PROVE Safe'
  OBVIOUS
<1> USE ConstantsAssumption DEF Safe, TypeOK, ArgOK, Ended, Goto, db, disk, call,
        Files
<1>1. CASE UNCHANGED vars
  BY <1>1 DEF vars, Pcs
<1>2. ASSUME NEW p \in Procs, Command(p) PROVE Safe'
  <2>1. ASSUME NEW r \in Runs, StartPersist(p, r) PROVE Safe'
    BY <2>1 DEF StartPersist, Start, Pcs, EndPcs, SavingPcs, ReportPcs, WritingPcs
  <2>2. ASSUME NEW r \in Runs, NEW f \in Files, StartReport(p, r, f) PROVE Safe'
    BY <2>2 DEF StartReport, Start, Pcs, EndPcs, SavingPcs, ReportPcs, WritingPcs
  <2>3. ASSUME NEW r \in Runs, NEW n \in Names, StartBaseline(p, r, n) PROVE Safe'
    BY <2>3 DEF StartBaseline, Start, Pcs, EndPcs, SavingPcs, ReportPcs, WritingPcs
  <2>4. ASSUME NEW r \in Runs, NEW n \in Names, StartCompare(p, r, n) PROVE Safe'
    BY <2>4 DEF StartCompare, Start, Pcs, EndPcs, SavingPcs, ReportPcs, WritingPcs
  <2>5. ASSUME NEW r \in Runs, StartDelete(p, r) PROVE Safe'
    BY <2>5 DEF StartDelete, Start, Pcs, EndPcs, SavingPcs, ReportPcs, WritingPcs
  <2> QED BY <1>2, <2>1, <2>2, <2>3, <2>4, <2>5 DEF Command
<1>3. ASSUME NEW p \in Procs, Crash(p) PROVE Safe'
  BY <1>3 DEF Crash, Pcs, EndPcs, SavingPcs, ReportPcs, WritingPcs
<1>4. ASSUME NEW p \in Procs, Interrupt(p) PROVE Safe'
  BY <1>4 DEF Interrupt, Handler, Pcs, EndPcs, SavingPcs, ReportPcs, WritingPcs
<1>5. ASSUME NEW p \in Procs, Step(p) PROVE Safe'
  <2>1. ASSUME PersistMkdir(p) PROVE Safe'
    BY <2>1 DEF PersistMkdir, Pcs, EndPcs, SavingPcs, ReportPcs, WritingPcs
  <2>2. ASSUME PersistPayload(p) PROVE Safe'
    BY <2>2 DEF PersistPayload, Pcs, EndPcs, SavingPcs, ReportPcs, WritingPcs
  <2>3. ASSUME PersistWrite(p) PROVE Safe'
    BY <2>3 DEF PersistWrite, Pcs, EndPcs, SavingPcs, ReportPcs, WritingPcs
  <2>4. ASSUME PersistReplace(p) PROVE Safe'
    BY <2>4 DEF PersistReplace, Pcs, EndPcs, SavingPcs, ReportPcs, WritingPcs
  <2>5. ASSUME PersistSave(p) PROVE Safe'
    BY <2>5 DEF PersistSave, Pcs, EndPcs, SavingPcs, ReportPcs, WritingPcs
  <2>6. ASSUME PersistReturn(p) PROVE Safe'
    BY <2>6 DEF PersistReturn, Pcs, EndPcs, SavingPcs, ReportPcs, WritingPcs
  <2>7. ASSUME PersistUndo(p) PROVE Safe'
    BY <2>7 DEF PersistUndo, Pcs, EndPcs, SavingPcs, ReportPcs, WritingPcs
  <2>8. ASSUME ReportLoad(p) PROVE Safe'
    BY <2>8 DEF ReportLoad, Pcs, EndPcs, SavingPcs, ReportPcs, WritingPcs
  <2>9. ASSUME ReportJson(p) PROVE Safe'
    BY <2>9 DEF ReportJson, Pcs, EndPcs, SavingPcs, ReportPcs, WritingPcs
  <2>10. ASSUME ReportGet(p) PROVE Safe'
    BY <2>10 DEF ReportGet, Pcs, EndPcs, SavingPcs, ReportPcs, WritingPcs
  <2>11. ASSUME ReportCheck(p) PROVE Safe'
    BY <2>11 DEF ReportCheck, Pcs, EndPcs, SavingPcs, ReportPcs, WritingPcs
  <2>12. ASSUME ReportOpen(p) PROVE Safe'
    BY <2>12 DEF ReportOpen, Pcs, EndPcs, SavingPcs, ReportPcs, WritingPcs
  <2>13. ASSUME ReportRename(p) PROVE Safe'
    BY <2>13 DEF ReportRename, Pcs, EndPcs, SavingPcs, ReportPcs, WritingPcs
  <2>14. ASSUME ReportRenamed(p) PROVE Safe'
    BY <2>14 DEF ReportRenamed, Pcs, EndPcs, SavingPcs, ReportPcs, WritingPcs
  <2>15. ASSUME ReportRegister(p) PROVE Safe'
    BY <2>15 DEF ReportRegister, Pcs, EndPcs, SavingPcs, ReportPcs, WritingPcs
  <2>16. ASSUME ReportReturn(p) PROVE Safe'
    BY <2>16 DEF ReportReturn, Pcs, EndPcs, SavingPcs, ReportPcs, WritingPcs
  <2>17. ASSUME ReportUnwind(p) PROVE Safe'
    BY <2>17 DEF ReportUnwind, Pcs, EndPcs, SavingPcs, ReportPcs, WritingPcs
  <2>18. ASSUME BaselineSource(p) PROVE Safe'
    BY <2>18 DEF BaselineSource, Pcs, EndPcs, SavingPcs, ReportPcs, WritingPcs
  <2>19. ASSUME BaselinePin(p) PROVE Safe'
    BY <2>19 DEF BaselinePin, Pcs, EndPcs, SavingPcs, ReportPcs, WritingPcs
  <2>20. ASSUME DeleteRow(p) PROVE Safe'
    BY <2>20 DEF DeleteRow, Pcs, EndPcs, SavingPcs, ReportPcs, WritingPcs
  <2>21. ASSUME DeleteMove(p) PROVE Safe'
    BY <2>21 DEF DeleteMove, Pcs, EndPcs, SavingPcs, ReportPcs, WritingPcs
  <2>22. ASSUME CompareBaseline(p) PROVE Safe'
    BY <2>22 DEF CompareBaseline, Pcs, EndPcs, SavingPcs, ReportPcs, WritingPcs
  <2>23. ASSUME CompareSource(p) PROVE Safe'
    BY <2>23 DEF CompareSource, Pcs, EndPcs, SavingPcs, ReportPcs, WritingPcs
  <2>24. ASSUME CompareCurrent(p) PROVE Safe'
    BY <2>24 DEF CompareCurrent, Pcs, EndPcs, SavingPcs, ReportPcs, WritingPcs
  <2> QED BY <1>5, <2>1, <2>2, <2>3, <2>4, <2>5, <2>6, <2>7, <2>8, <2>9, <2>10, <2>11, <2>12, <2>13, <2>14, <2>15, <2>16, <2>17, <2>18, <2>19, <2>20, <2>21, <2>22, <2>23, <2>24 DEF Step
<1> QED BY <1>1, <1>2, <1>3, <1>4, <1>5 DEF Next

(* Every reachable state is well typed: in particular a baseline names a     *)
(* run, and a command in progress is about a run.                            *)
THEOREM TypeCorrect == Spec => []TypeOK
<1>1. Spec => []Safe
  BY SafeInit, SafeStep, PTL DEF Spec
<1>2. Safe => TypeOK
  BY DEF Safe
<1> QED BY <1>1, <1>2, PTL

-----------------------------------------------------------------------------
(* Baselines.  A source run is known good before it is pinned and is never   *)
(* unpinned, so delete_run's query keeps its rows; and the source a          *)
(* comparison has read is a pinned run.  This holds under every fault.       *)

PinnedOK ==
  /\ BaselineSourceStored
  /\ CompareFindsSource
  /\ \A p \in Procs :
       /\ pc[p] = "pin" => run[p] \in KnownGood
       /\ pc[p] = "sourceRun" =>
            arg[p] # None /\ \E n \in Names : baselines[n] = arg[p]

LEMMA PinnedInit == Init => PinnedOK
  BY DEF Init, PinnedOK, BaselineSourceStored, CompareFindsSource

LEMMA PinnedStep == Safe /\ PinnedOK /\ [Next]_vars => PinnedOK'
<1> SUFFICES ASSUME Safe, PinnedOK, [Next]_vars PROVE PinnedOK'
  OBVIOUS
<1> USE ConstantsAssumption DEF Safe, TypeOK, ArgOK, Ended, Stored, Goto, db, disk, call,
        Files, PinnedOK, BaselineSourceStored, CompareFindsSource
<1>1. CASE UNCHANGED vars
  BY <1>1 DEF vars
<1>2. ASSUME NEW p \in Procs, Command(p) PROVE PinnedOK'
  <2>1. ASSUME NEW r \in Runs, StartPersist(p, r) PROVE PinnedOK'
    BY <2>1 DEF StartPersist, Start, Pcs, EndPcs, SavingPcs, ReportPcs, WritingPcs
  <2>2. ASSUME NEW r \in Runs, NEW f \in Files, StartReport(p, r, f) PROVE PinnedOK'
    BY <2>2 DEF StartReport, Start, Pcs, EndPcs, SavingPcs, ReportPcs, WritingPcs
  <2>3. ASSUME NEW r \in Runs, NEW n \in Names, StartBaseline(p, r, n) PROVE PinnedOK'
    BY <2>3 DEF StartBaseline, Start, Pcs, EndPcs, SavingPcs, ReportPcs, WritingPcs
  <2>4. ASSUME NEW r \in Runs, NEW n \in Names, StartCompare(p, r, n) PROVE PinnedOK'
    BY <2>4 DEF StartCompare, Start, Pcs, EndPcs, SavingPcs, ReportPcs, WritingPcs
  <2>5. ASSUME NEW r \in Runs, StartDelete(p, r) PROVE PinnedOK'
    BY <2>5 DEF StartDelete, Start, Pcs, EndPcs, SavingPcs, ReportPcs, WritingPcs
  <2> QED BY <1>2, <2>1, <2>2, <2>3, <2>4, <2>5 DEF Command
<1>3. ASSUME NEW p \in Procs, Crash(p) PROVE PinnedOK'
  BY <1>3 DEF Crash, Pcs, EndPcs, SavingPcs, ReportPcs, WritingPcs
<1>4. ASSUME NEW p \in Procs, Interrupt(p) PROVE PinnedOK'
  BY <1>4 DEF Interrupt, Handler, Pcs, EndPcs, SavingPcs, ReportPcs, WritingPcs
<1>5. ASSUME NEW p \in Procs, Step(p) PROVE PinnedOK'
  <2>1. ASSUME PersistMkdir(p) PROVE PinnedOK'
    BY <2>1 DEF PersistMkdir, Pcs, EndPcs, SavingPcs, ReportPcs, WritingPcs
  <2>2. ASSUME PersistPayload(p) PROVE PinnedOK'
    BY <2>2 DEF PersistPayload, Pcs, EndPcs, SavingPcs, ReportPcs, WritingPcs
  <2>3. ASSUME PersistWrite(p) PROVE PinnedOK'
    BY <2>3 DEF PersistWrite, Pcs, EndPcs, SavingPcs, ReportPcs, WritingPcs
  <2>4. ASSUME PersistReplace(p) PROVE PinnedOK'
    BY <2>4 DEF PersistReplace, Pcs, EndPcs, SavingPcs, ReportPcs, WritingPcs
  <2>5. ASSUME PersistSave(p) PROVE PinnedOK'
    BY <2>5 DEF PersistSave, Pcs, EndPcs, SavingPcs, ReportPcs, WritingPcs
  <2>6. ASSUME PersistReturn(p) PROVE PinnedOK'
    BY <2>6 DEF PersistReturn, Pcs, EndPcs, SavingPcs, ReportPcs, WritingPcs
  <2>7. ASSUME PersistUndo(p) PROVE PinnedOK'
    BY <2>7 DEF PersistUndo, Pcs, EndPcs, SavingPcs, ReportPcs, WritingPcs
  <2>8. ASSUME ReportLoad(p) PROVE PinnedOK'
    BY <2>8 DEF ReportLoad, Pcs, EndPcs, SavingPcs, ReportPcs, WritingPcs
  <2>9. ASSUME ReportJson(p) PROVE PinnedOK'
    BY <2>9 DEF ReportJson, Pcs, EndPcs, SavingPcs, ReportPcs, WritingPcs
  <2>10. ASSUME ReportGet(p) PROVE PinnedOK'
    BY <2>10 DEF ReportGet, Pcs, EndPcs, SavingPcs, ReportPcs, WritingPcs
  <2>11. ASSUME ReportCheck(p) PROVE PinnedOK'
    BY <2>11 DEF ReportCheck, Pcs, EndPcs, SavingPcs, ReportPcs, WritingPcs
  <2>12. ASSUME ReportOpen(p) PROVE PinnedOK'
    BY <2>12 DEF ReportOpen, Pcs, EndPcs, SavingPcs, ReportPcs, WritingPcs
  <2>13. ASSUME ReportRename(p) PROVE PinnedOK'
    BY <2>13 DEF ReportRename, Pcs, EndPcs, SavingPcs, ReportPcs, WritingPcs
  <2>14. ASSUME ReportRenamed(p) PROVE PinnedOK'
    BY <2>14 DEF ReportRenamed, Pcs, EndPcs, SavingPcs, ReportPcs, WritingPcs
  <2>15. ASSUME ReportRegister(p) PROVE PinnedOK'
    BY <2>15 DEF ReportRegister, Pcs, EndPcs, SavingPcs, ReportPcs, WritingPcs
  <2>16. ASSUME ReportReturn(p) PROVE PinnedOK'
    BY <2>16 DEF ReportReturn, Pcs, EndPcs, SavingPcs, ReportPcs, WritingPcs
  <2>17. ASSUME ReportUnwind(p) PROVE PinnedOK'
    BY <2>17 DEF ReportUnwind, Pcs, EndPcs, SavingPcs, ReportPcs, WritingPcs
  <2>18. ASSUME BaselineSource(p) PROVE PinnedOK'
    BY <2>18 DEF BaselineSource, Pcs, EndPcs, SavingPcs, ReportPcs, WritingPcs
  <2>19. ASSUME BaselinePin(p) PROVE PinnedOK'
    BY <2>19 DEF BaselinePin, Pcs, EndPcs, SavingPcs, ReportPcs, WritingPcs
  <2>20. ASSUME DeleteRow(p) PROVE PinnedOK'
    BY <2>20 DEF DeleteRow, Pcs, EndPcs, SavingPcs, ReportPcs, WritingPcs
  <2>21. ASSUME DeleteMove(p) PROVE PinnedOK'
    BY <2>21 DEF DeleteMove, Pcs, EndPcs, SavingPcs, ReportPcs, WritingPcs
  <2>22. ASSUME CompareBaseline(p) PROVE PinnedOK'
    BY <2>22 DEF CompareBaseline, Pcs, EndPcs, SavingPcs, ReportPcs, WritingPcs
  <2>23. ASSUME CompareSource(p) PROVE PinnedOK'
    BY <2>23 DEF CompareSource, Pcs, EndPcs, SavingPcs, ReportPcs, WritingPcs
  <2>24. ASSUME CompareCurrent(p) PROVE PinnedOK'
    BY <2>24 DEF CompareCurrent, Pcs, EndPcs, SavingPcs, ReportPcs, WritingPcs
  <2> QED BY <1>5, <2>1, <2>2, <2>3, <2>4, <2>5, <2>6, <2>7, <2>8, <2>9, <2>10, <2>11, <2>12, <2>13, <2>14, <2>15, <2>16, <2>17, <2>18, <2>19, <2>20, <2>21, <2>22, <2>23, <2>24 DEF Step
<1> QED BY <1>1, <1>2, <1>3, <1>4, <1>5 DEF Next

(* Whatever fails, and however create, delete and compare interleave: the    *)
(* source of a baseline is stored and known good, and a comparison that has  *)
(* found the baseline finds its source.                                      *)
THEOREM BaselineSourcesSafe ==
  Spec => [](BaselineSourceStored /\ CompareFindsSource)
<1>1. Spec => [](Safe /\ PinnedOK)
  BY SafeInit, SafeStep, PinnedInit, PinnedStep, PTL DEF Spec
<1>2. PinnedOK => BaselineSourceStored /\ CompareFindsSource
  BY DEF PinnedOK
<1> QED BY <1>1, <1>2, PTL

(* A comparison that has found the baseline finds its source.                *)
THEOREM ComparisonsFindTheirSource == Spec => []CompareFindsSource
  BY BaselineSourcesSafe, PTL

(* Baselines are immutable. *)
THEOREM BaselinesNeverChange == Spec => BaselinesImmutable
<1> DEFINE Keep == \A n \in Names : baselines[n] # None => baselines'[n] = baselines[n]
<1>1. Safe /\ [Next]_vars => [Keep]_baselines
  <2> SUFFICES ASSUME Safe, [Next]_vars, baselines' # baselines PROVE Keep
    BY DEF Keep
  <2>1. PICK p \in Procs : BaselinePin(p)
    BY DEF Next, vars, Command, Step, db, StartPersist, StartReport, StartBaseline,
       StartCompare, StartDelete, Start, Crash, Interrupt, PersistMkdir, PersistPayload, PersistWrite, PersistReplace, PersistSave, PersistReturn, PersistUndo, ReportLoad, ReportJson, ReportGet, ReportCheck, ReportOpen, ReportRename, ReportRenamed, ReportRegister, ReportReturn, ReportUnwind, BaselineSource, DeleteRow, DeleteMove, CompareBaseline, CompareSource, CompareCurrent
  <2> QED BY <2>1 DEF BaselinePin, Safe, TypeOK
<1>2. Spec => []Safe
  BY SafeInit, SafeStep, PTL DEF Spec
<1> QED BY <1>1, <1>2, PTL DEF Spec, BaselinesImmutable

-----------------------------------------------------------------------------
(* Canonical evidence.  Only rmtree and the move take run.json out of        *)
(* runs/<id>: rmtree runs before the rows are committed, in the one process  *)
(* that drew the run's identifier, and the move after they are deleted.      *)
(* Without NoInterrupt this fails: Ctrl+C between the commit and the return  *)
(* of persist_execution runs rmtree on a stored run.                         *)

NoInterrupt == "interrupt" \notin Faults

SavingOK ==
  /\ \A r \in Runs : row[r] # "none" => r \in minted /\ Canonical \in files[r]
  /\ \A r \in Runs : Stored(r) => InRuns(r)
  /\ \A p \in Procs :
       /\ pc[p] \in SavingPcs => run[p] \in minted /\ row[run[p]] = "none"
       /\ pc[p] \in {"payload", "write", "replace", "save"} => InRuns(run[p])
       /\ pc[p] = "save" => Canonical \in files[run[p]]
       /\ pc[p] = "move" => row[run[p]] = "deleted"
  /\ \A p, q \in Procs :
       p # q /\ pc[p] \in SavingPcs /\ pc[q] \in SavingPcs => run[p] # run[q]

LEMMA SavingInit == Init => SavingOK
  BY DEF Init, SavingOK, Stored, InRuns, SavingPcs

LEMMA SavingStep ==
  ASSUME NoInterrupt
  PROVE  Safe /\ SavingOK /\ [Next]_vars => SavingOK'
<1> SUFFICES ASSUME Safe, SavingOK, [Next]_vars PROVE SavingOK'
  OBVIOUS
<1> USE ConstantsAssumption DEF Safe, TypeOK, ArgOK, Ended, Stored, InRuns, Goto, db,
        disk, call, Files, SavingOK
<1>1. CASE UNCHANGED vars
  BY <1>1 DEF vars
<1>2. ASSUME NEW p \in Procs, Command(p) PROVE SavingOK'
  <2>1. ASSUME NEW r \in Runs, StartPersist(p, r) PROVE SavingOK'
    BY <2>1 DEF StartPersist, Start, Pcs, EndPcs, SavingPcs, ReportPcs, WritingPcs
  <2>2. ASSUME NEW r \in Runs, NEW f \in Files, StartReport(p, r, f) PROVE SavingOK'
    BY <2>2 DEF StartReport, Start, Pcs, EndPcs, SavingPcs, ReportPcs, WritingPcs
  <2>3. ASSUME NEW r \in Runs, NEW n \in Names, StartBaseline(p, r, n) PROVE SavingOK'
    BY <2>3 DEF StartBaseline, Start, Pcs, EndPcs, SavingPcs, ReportPcs, WritingPcs
  <2>4. ASSUME NEW r \in Runs, NEW n \in Names, StartCompare(p, r, n) PROVE SavingOK'
    BY <2>4 DEF StartCompare, Start, Pcs, EndPcs, SavingPcs, ReportPcs, WritingPcs
  <2>5. ASSUME NEW r \in Runs, StartDelete(p, r) PROVE SavingOK'
    BY <2>5 DEF StartDelete, Start, Pcs, EndPcs, SavingPcs, ReportPcs, WritingPcs
  <2> QED BY <1>2, <2>1, <2>2, <2>3, <2>4, <2>5 DEF Command
<1>3. ASSUME NEW p \in Procs, Crash(p) PROVE SavingOK'
  BY <1>3 DEF Crash, Pcs, EndPcs, SavingPcs, ReportPcs, WritingPcs
<1>4. ASSUME NEW p \in Procs, Interrupt(p) PROVE SavingOK'
  BY <1>4 DEF Interrupt, NoInterrupt
<1>5. ASSUME NEW p \in Procs, Step(p) PROVE SavingOK'
  <2>1. ASSUME PersistMkdir(p) PROVE SavingOK'
    BY <2>1 DEF PersistMkdir, Pcs, EndPcs, SavingPcs, ReportPcs, WritingPcs
  <2>2. ASSUME PersistPayload(p) PROVE SavingOK'
    BY <2>2 DEF PersistPayload, Pcs, EndPcs, SavingPcs, ReportPcs, WritingPcs
  <2>3. ASSUME PersistWrite(p) PROVE SavingOK'
    BY <2>3 DEF PersistWrite, Pcs, EndPcs, SavingPcs, ReportPcs, WritingPcs
  <2>4. ASSUME PersistReplace(p) PROVE SavingOK'
    BY <2>4 DEF PersistReplace, Pcs, EndPcs, SavingPcs, ReportPcs, WritingPcs
  <2>5. ASSUME PersistSave(p) PROVE SavingOK'
    BY <2>5 DEF PersistSave, Pcs, EndPcs, SavingPcs, ReportPcs, WritingPcs
  <2>6. ASSUME PersistReturn(p) PROVE SavingOK'
    BY <2>6 DEF PersistReturn, Pcs, EndPcs, SavingPcs, ReportPcs, WritingPcs
  <2>7. ASSUME PersistUndo(p) PROVE SavingOK'
    BY <2>7 DEF PersistUndo, Pcs, EndPcs, SavingPcs, ReportPcs, WritingPcs
  <2>8. ASSUME ReportLoad(p) PROVE SavingOK'
    BY <2>8 DEF ReportLoad, Pcs, EndPcs, SavingPcs, ReportPcs, WritingPcs
  <2>9. ASSUME ReportJson(p) PROVE SavingOK'
    BY <2>9 DEF ReportJson, Pcs, EndPcs, SavingPcs, ReportPcs, WritingPcs
  <2>10. ASSUME ReportGet(p) PROVE SavingOK'
    BY <2>10 DEF ReportGet, Pcs, EndPcs, SavingPcs, ReportPcs, WritingPcs
  <2>11. ASSUME ReportCheck(p) PROVE SavingOK'
    BY <2>11 DEF ReportCheck, Pcs, EndPcs, SavingPcs, ReportPcs, WritingPcs
  <2>12. ASSUME ReportOpen(p) PROVE SavingOK'
    BY <2>12 DEF ReportOpen, Pcs, EndPcs, SavingPcs, ReportPcs, WritingPcs
  <2>13. ASSUME ReportRename(p) PROVE SavingOK'
    BY <2>13 DEF ReportRename, Pcs, EndPcs, SavingPcs, ReportPcs, WritingPcs
  <2>14. ASSUME ReportRenamed(p) PROVE SavingOK'
    BY <2>14 DEF ReportRenamed, Pcs, EndPcs, SavingPcs, ReportPcs, WritingPcs
  <2>15. ASSUME ReportRegister(p) PROVE SavingOK'
    BY <2>15 DEF ReportRegister, Pcs, EndPcs, SavingPcs, ReportPcs, WritingPcs
  <2>16. ASSUME ReportReturn(p) PROVE SavingOK'
    BY <2>16 DEF ReportReturn, Pcs, EndPcs, SavingPcs, ReportPcs, WritingPcs
  <2>17. ASSUME ReportUnwind(p) PROVE SavingOK'
    BY <2>17 DEF ReportUnwind, Pcs, EndPcs, SavingPcs, ReportPcs, WritingPcs
  <2>18. ASSUME BaselineSource(p) PROVE SavingOK'
    BY <2>18 DEF BaselineSource, Pcs, EndPcs, SavingPcs, ReportPcs, WritingPcs
  <2>19. ASSUME BaselinePin(p) PROVE SavingOK'
    BY <2>19 DEF BaselinePin, Pcs, EndPcs, SavingPcs, ReportPcs, WritingPcs
  <2>20. ASSUME DeleteRow(p) PROVE SavingOK'
    BY <2>20 DEF DeleteRow, Pcs, EndPcs, SavingPcs, ReportPcs, WritingPcs
  <2>21. ASSUME DeleteMove(p) PROVE SavingOK'
    BY <2>21 DEF DeleteMove, Pcs, EndPcs, SavingPcs, ReportPcs, WritingPcs
  <2>22. ASSUME CompareBaseline(p) PROVE SavingOK'
    BY <2>22 DEF CompareBaseline, Pcs, EndPcs, SavingPcs, ReportPcs, WritingPcs
  <2>23. ASSUME CompareSource(p) PROVE SavingOK'
    BY <2>23 DEF CompareSource, Pcs, EndPcs, SavingPcs, ReportPcs, WritingPcs
  <2>24. ASSUME CompareCurrent(p) PROVE SavingOK'
    BY <2>24 DEF CompareCurrent, Pcs, EndPcs, SavingPcs, ReportPcs, WritingPcs
  <2> QED BY <1>5, <2>1, <2>2, <2>3, <2>4, <2>5, <2>6, <2>7, <2>8, <2>9, <2>10, <2>11, <2>12, <2>13, <2>14, <2>15, <2>16, <2>17, <2>18, <2>19, <2>20, <2>21, <2>22, <2>23, <2>24 DEF Step
<1> QED BY <1>1, <1>2, <1>3, <1>4, <1>5 DEF Next

(* Whatever crashes or fails, a stored run has its canonical JSON in runs/.  *)
THEOREM CanonicalNeverLost ==
  ASSUME NoInterrupt
  PROVE  Spec => []CanonicalPresent
<1>1. Spec => [](Safe /\ SavingOK)
  BY SafeInit, SafeStep, SavingInit, SavingStep, PTL DEF Spec
<1>2. SavingOK => CanonicalPresent
  BY DEF SavingOK, CanonicalPresent, Stored
<1> QED BY <1>1, <1>2, PTL

-----------------------------------------------------------------------------
(* Registered artifacts.  A reporter that has passed the existence check     *)
(* works on a file that is not registered, and is alone with it as long as   *)
(* nobody else reports the same run and format: so its unwinding never       *)
(* removes a registered file.                                                *)

Writing(p) == pc[p] \in WritingPcs

ReportingOK ==
  /\ RegisteredOnDisk
  /\ \A p \in Procs :
       /\ Writing(p) \/ pc[p] = "check" => row[run[p]] # "none"
       /\ Writing(p) /\ Stored(run[p]) => arg[p] \notin artifacts[run[p]]
       /\ pc[p] \in {"renamed", "register"} /\ Stored(run[p]) =>
            arg[p] \in files[run[p]]
  /\ \A p, q \in Procs :
       p # q /\ pc[p] \in ReportPcs /\ pc[q] \in ReportPcs =>
         run[p] # run[q] \/ arg[p] # arg[q]

LEMMA ReportingInit == Init => ReportingOK
  BY DEF Init, ReportingOK, RegisteredOnDisk, Stored, Writing, ReportPcs,
     WritingPcs

LEMMA ReportingStep ==
  ASSUME NoInterrupt, SoleReporter
  PROVE  Safe /\ SavingOK /\ ReportingOK /\ [Next]_vars => ReportingOK'
<1> SUFFICES ASSUME Safe, SavingOK, ReportingOK, [Next]_vars PROVE ReportingOK'
  OBVIOUS
<1> USE ConstantsAssumption DEF Safe, TypeOK, ArgOK, Ended, Stored, InRuns, Goto, db,
        disk, call, Files, SavingOK, ReportingOK, RegisteredOnDisk, Writing
<1>1. CASE UNCHANGED vars
  BY <1>1 DEF vars
<1>2. ASSUME NEW p \in Procs, Command(p) PROVE ReportingOK'
  <2>1. ASSUME NEW r \in Runs, StartPersist(p, r) PROVE ReportingOK'
    BY <2>1 DEF StartPersist, Start, Pcs, EndPcs, SavingPcs, ReportPcs, WritingPcs
  <2>2. ASSUME NEW r \in Runs, NEW f \in Files, StartReport(p, r, f) PROVE ReportingOK'
    BY <2>2 DEF StartReport, Start, Pcs, EndPcs, SavingPcs, ReportPcs, WritingPcs
  <2>3. ASSUME NEW r \in Runs, NEW n \in Names, StartBaseline(p, r, n) PROVE ReportingOK'
    BY <2>3 DEF StartBaseline, Start, Pcs, EndPcs, SavingPcs, ReportPcs, WritingPcs
  <2>4. ASSUME NEW r \in Runs, NEW n \in Names, StartCompare(p, r, n) PROVE ReportingOK'
    BY <2>4 DEF StartCompare, Start, Pcs, EndPcs, SavingPcs, ReportPcs, WritingPcs
  <2>5. ASSUME NEW r \in Runs, StartDelete(p, r) PROVE ReportingOK'
    BY <2>5 DEF StartDelete, Start, Pcs, EndPcs, SavingPcs, ReportPcs, WritingPcs
  <2> QED BY <1>2, <2>1, <2>2, <2>3, <2>4, <2>5 DEF Command
<1>3. ASSUME NEW p \in Procs, Crash(p) PROVE ReportingOK'
  BY <1>3 DEF Crash, Pcs, EndPcs, SavingPcs, ReportPcs, WritingPcs
<1>4. ASSUME NEW p \in Procs, Interrupt(p) PROVE ReportingOK'
  BY <1>4 DEF Interrupt, NoInterrupt
<1>5. ASSUME NEW p \in Procs, Step(p) PROVE ReportingOK'
  <2>1. ASSUME PersistMkdir(p) PROVE ReportingOK'
    BY <2>1 DEF PersistMkdir, Pcs, EndPcs, SavingPcs, ReportPcs, WritingPcs
  <2>2. ASSUME PersistPayload(p) PROVE ReportingOK'
    BY <2>2 DEF PersistPayload, Pcs, EndPcs, SavingPcs, ReportPcs, WritingPcs
  <2>3. ASSUME PersistWrite(p) PROVE ReportingOK'
    BY <2>3 DEF PersistWrite, Pcs, EndPcs, SavingPcs, ReportPcs, WritingPcs
  <2>4. ASSUME PersistReplace(p) PROVE ReportingOK'
    BY <2>4 DEF PersistReplace, Pcs, EndPcs, SavingPcs, ReportPcs, WritingPcs
  <2>5. ASSUME PersistSave(p) PROVE ReportingOK'
    BY <2>5 DEF PersistSave, Pcs, EndPcs, SavingPcs, ReportPcs, WritingPcs
  <2>6. ASSUME PersistReturn(p) PROVE ReportingOK'
    BY <2>6 DEF PersistReturn, Pcs, EndPcs, SavingPcs, ReportPcs, WritingPcs
  <2>7. ASSUME PersistUndo(p) PROVE ReportingOK'
    BY <2>7 DEF PersistUndo, Pcs, EndPcs, SavingPcs, ReportPcs, WritingPcs
  <2>8. ASSUME ReportLoad(p) PROVE ReportingOK'
    BY <2>8 DEF ReportLoad, Pcs, EndPcs, SavingPcs, ReportPcs, WritingPcs
  <2>9. ASSUME ReportJson(p) PROVE ReportingOK'
    BY <2>9 DEF ReportJson, Pcs, EndPcs, SavingPcs, ReportPcs, WritingPcs
  <2>10. ASSUME ReportGet(p) PROVE ReportingOK'
    BY <2>10 DEF ReportGet, Pcs, EndPcs, SavingPcs, ReportPcs, WritingPcs
  <2>11. ASSUME ReportCheck(p) PROVE ReportingOK'
    BY <2>11 DEF ReportCheck, Pcs, EndPcs, SavingPcs, ReportPcs, WritingPcs
  <2>12. ASSUME ReportOpen(p) PROVE ReportingOK'
    BY <2>12 DEF ReportOpen, Pcs, EndPcs, SavingPcs, ReportPcs, WritingPcs
  <2>13. ASSUME ReportRename(p) PROVE ReportingOK'
    BY <2>13, SMTT(20) DEF ReportRename, Pcs, EndPcs, SavingPcs, ReportPcs, WritingPcs
  <2>14. ASSUME ReportRenamed(p) PROVE ReportingOK'
    BY <2>14 DEF ReportRenamed, Pcs, EndPcs, SavingPcs, ReportPcs, WritingPcs
  <2>15. ASSUME ReportRegister(p) PROVE ReportingOK'
    BY <2>15 DEF ReportRegister, Pcs, EndPcs, SavingPcs, ReportPcs, WritingPcs
  <2>16. ASSUME ReportReturn(p) PROVE ReportingOK'
    BY <2>16 DEF ReportReturn, Pcs, EndPcs, SavingPcs, ReportPcs, WritingPcs
  <2>17. ASSUME ReportUnwind(p) PROVE ReportingOK'
    BY <2>17 DEF ReportUnwind, Pcs, EndPcs, SavingPcs, ReportPcs, WritingPcs
  <2>18. ASSUME BaselineSource(p) PROVE ReportingOK'
    BY <2>18 DEF BaselineSource, Pcs, EndPcs, SavingPcs, ReportPcs, WritingPcs
  <2>19. ASSUME BaselinePin(p) PROVE ReportingOK'
    BY <2>19 DEF BaselinePin, Pcs, EndPcs, SavingPcs, ReportPcs, WritingPcs
  <2>20. ASSUME DeleteRow(p) PROVE ReportingOK'
    BY <2>20 DEF DeleteRow, Pcs, EndPcs, SavingPcs, ReportPcs, WritingPcs
  <2>21. ASSUME DeleteMove(p) PROVE ReportingOK'
    BY <2>21 DEF DeleteMove, Pcs, EndPcs, SavingPcs, ReportPcs, WritingPcs
  <2>22. ASSUME CompareBaseline(p) PROVE ReportingOK'
    BY <2>22 DEF CompareBaseline, Pcs, EndPcs, SavingPcs, ReportPcs, WritingPcs
  <2>23. ASSUME CompareSource(p) PROVE ReportingOK'
    BY <2>23 DEF CompareSource, Pcs, EndPcs, SavingPcs, ReportPcs, WritingPcs
  <2>24. ASSUME CompareCurrent(p) PROVE ReportingOK'
    BY <2>24 DEF CompareCurrent, Pcs, EndPcs, SavingPcs, ReportPcs, WritingPcs
  <2> QED BY <1>5, <2>1, <2>2, <2>3, <2>4, <2>5, <2>6, <2>7, <2>8, <2>9, <2>10, <2>11, <2>12, <2>13, <2>14, <2>15, <2>16, <2>17, <2>18, <2>19, <2>20, <2>21, <2>22, <2>23, <2>24 DEF Step
<1> QED BY <1>1, <1>2, <1>3, <1>4, <1>5 DEF Next

(* With one reporter per run and format, what SQLite lists is on disk.       *)
THEOREM RegisteredStaysOnDisk ==
  ASSUME NoInterrupt, SoleReporter
  PROVE  Spec => []RegisteredOnDisk
<1>1. Spec => [](Safe /\ SavingOK /\ ReportingOK)
  BY SafeInit, SafeStep, SavingInit, SavingStep, ReportingInit, ReportingStep, PTL DEF Spec
<1>2. ReportingOK => RegisteredOnDisk
  BY DEF ReportingOK
<1> QED BY <1>1, <1>2, PTL

-----------------------------------------------------------------------------
(* Fresh artifacts.  Between a reporter's existence check and its rename     *)
(* nobody else puts a file of that name into the directory, as long as       *)
(* nobody else reports the same run and format.                              *)

FreshOK ==
  /\ \A p \in Procs : pc[p] \in {"open", "rename"} => arg[p] \notin files[run[p]]
  /\ \A p, q \in Procs :
       p # q /\ pc[p] \in ReportPcs /\ pc[q] \in ReportPcs =>
         run[p] # run[q] \/ arg[p] # arg[q]

LEMMA FreshInit == Init => FreshOK
  BY DEF Init, FreshOK, ReportPcs, WritingPcs

LEMMA FreshStep ==
  ASSUME SoleReporter
  PROVE  Safe /\ FreshOK /\ [Next]_vars => FreshOK'
<1> SUFFICES ASSUME Safe, FreshOK, [Next]_vars PROVE FreshOK'
  OBVIOUS
<1> USE ConstantsAssumption DEF Safe, TypeOK, ArgOK, Ended, Goto, db, disk, call, Files,
        FreshOK, ReportPcs, WritingPcs, EndPcs
<1>1. CASE UNCHANGED vars
  BY <1>1 DEF vars
<1>2. ASSUME NEW p \in Procs, Command(p) PROVE FreshOK'
  <2>1. ASSUME NEW r \in Runs, StartPersist(p, r) PROVE FreshOK'
    BY <2>1 DEF StartPersist, Start
  <2>2. ASSUME NEW r \in Runs, NEW f \in Files, StartReport(p, r, f) PROVE FreshOK'
    BY <2>2 DEF StartReport, Start
  <2>3. ASSUME NEW r \in Runs, NEW n \in Names, StartBaseline(p, r, n) PROVE FreshOK'
    BY <2>3 DEF StartBaseline, Start
  <2>4. ASSUME NEW r \in Runs, NEW n \in Names, StartCompare(p, r, n) PROVE FreshOK'
    BY <2>4 DEF StartCompare, Start
  <2>5. ASSUME NEW r \in Runs, StartDelete(p, r) PROVE FreshOK'
    BY <2>5 DEF StartDelete, Start
  <2> QED BY <1>2, <2>1, <2>2, <2>3, <2>4, <2>5 DEF Command
<1>3. ASSUME NEW p \in Procs, Crash(p) PROVE FreshOK'
  BY <1>3 DEF Crash
<1>4. ASSUME NEW p \in Procs, Interrupt(p) PROVE FreshOK'
  BY <1>4 DEF Interrupt, Handler
<1>5. ASSUME NEW p \in Procs, Step(p) PROVE FreshOK'
  <2>1. ASSUME PersistMkdir(p) PROVE FreshOK'
    BY <2>1 DEF PersistMkdir
  <2>2. ASSUME PersistPayload(p) PROVE FreshOK'
    BY <2>2 DEF PersistPayload
  <2>3. ASSUME PersistWrite(p) PROVE FreshOK'
    BY <2>3 DEF PersistWrite
  <2>4. ASSUME PersistReplace(p) PROVE FreshOK'
    BY <2>4 DEF PersistReplace
  <2>5. ASSUME PersistSave(p) PROVE FreshOK'
    BY <2>5 DEF PersistSave
  <2>6. ASSUME PersistReturn(p) PROVE FreshOK'
    BY <2>6 DEF PersistReturn
  <2>7. ASSUME PersistUndo(p) PROVE FreshOK'
    BY <2>7 DEF PersistUndo
  <2>8. ASSUME ReportLoad(p) PROVE FreshOK'
    BY <2>8 DEF ReportLoad
  <2>9. ASSUME ReportJson(p) PROVE FreshOK'
    BY <2>9 DEF ReportJson
  <2>10. ASSUME ReportGet(p) PROVE FreshOK'
    BY <2>10 DEF ReportGet
  <2>11. ASSUME ReportCheck(p) PROVE FreshOK'
    BY <2>11 DEF ReportCheck
  <2>12. ASSUME ReportOpen(p) PROVE FreshOK'
    BY <2>12 DEF ReportOpen
  <2>13. ASSUME ReportRename(p) PROVE FreshOK'
    BY <2>13 DEF ReportRename
  <2>14. ASSUME ReportRenamed(p) PROVE FreshOK'
    BY <2>14 DEF ReportRenamed
  <2>15. ASSUME ReportRegister(p) PROVE FreshOK'
    BY <2>15 DEF ReportRegister
  <2>16. ASSUME ReportReturn(p) PROVE FreshOK'
    BY <2>16 DEF ReportReturn
  <2>17. ASSUME ReportUnwind(p) PROVE FreshOK'
    BY <2>17 DEF ReportUnwind
  <2>18. ASSUME BaselineSource(p) PROVE FreshOK'
    BY <2>18 DEF BaselineSource
  <2>19. ASSUME BaselinePin(p) PROVE FreshOK'
    BY <2>19 DEF BaselinePin
  <2>20. ASSUME DeleteRow(p) PROVE FreshOK'
    BY <2>20 DEF DeleteRow
  <2>21. ASSUME DeleteMove(p) PROVE FreshOK'
    BY <2>21 DEF DeleteMove
  <2>22. ASSUME CompareBaseline(p) PROVE FreshOK'
    BY <2>22 DEF CompareBaseline
  <2>23. ASSUME CompareSource(p) PROVE FreshOK'
    BY <2>23 DEF CompareSource
  <2>24. ASSUME CompareCurrent(p) PROVE FreshOK'
    BY <2>24 DEF CompareCurrent
  <2> QED BY <1>5, <2>1, <2>2, <2>3, <2>4, <2>5, <2>6, <2>7, <2>8, <2>9, <2>10, <2>11, <2>12, <2>13, <2>14, <2>15, <2>16, <2>17, <2>18, <2>19, <2>20, <2>21, <2>22, <2>23, <2>24 DEF Step
<1> QED BY <1>1, <1>2, <1>3, <1>4, <1>5 DEF Next

(* The claim of architecture.md holds, interrupts included, when nobody runs *)
(* two reports of one run and format at once; the run store_two_reporters    *)
(* shows that it needs this.                                                 *)
THEOREM FilesAreNeverOverwritten ==
  ASSUME SoleReporter
  PROVE  Spec => NeverOverwritten
<1>1. Spec => [](Safe /\ FreshOK)
  BY SafeInit, SafeStep, FreshInit, FreshStep, PTL DEF Spec
<1>2. FreshOK => \A p \in Procs : pc[p] = "rename" /\ pc'[p] = "renamed" =>
                   arg[p] \notin files[run[p]]
  BY DEF FreshOK
<1> QED BY <1>1, <1>2, PTL DEF NeverOverwritten, Spec

-----------------------------------------------------------------------------
(* Clean-up.  When only writes and transactions fail, whatever the disk holds *)
(* beyond the database has a command that answers for it: a directory without *)
(* rows its saver or its deleter, an unregistered file its reporter, and a    *)
(* temporary file the command that renames or removes it.                     *)

OnlyOperationsFail == Faults \subseteq {"write", "db"}

Answering(p, r) ==
  /\ run[p] = r
  /\ pc[p] \in {"payload", "write", "replace", "save", "undo", "move"}

Filing(p, r, f) ==
  run[p] = r /\ arg[p] = f /\ pc[p] \in {"renamed", "register", "unwindAll"}

Staging(p, r, f) ==
  /\ run[p] = r
  /\ \/ f = arg[p] /\ pc[p] \in {"rename", "unwind"}
     \/ f = Canonical /\ pc[p] \in {"replace", "undo"}

CleanOK ==
  /\ \A r \in Runs : row[r] = "none" => files[r] \cup tmp[r] \subseteq {Canonical}
  /\ \A r \in Runs : row[r] = "none" /\ ~InRuns(r) => files[r] = {} /\ tmp[r] = {}
  /\ \A r \in Runs : InRuns(r) /\ ~Stored(r) => \E p \in Procs : Answering(p, r)
  /\ \A r \in Runs : Stored(r) =>
       \A f \in files[r] \ artifacts[r] : \E p \in Procs : Filing(p, r, f)
  /\ \A r \in Runs : InRuns(r) =>
       \A f \in tmp[r] : \E p \in Procs : Staging(p, r, f)

LEMMA CleanInit == Init => CleanOK
  BY DEF Init, CleanOK, InRuns, Stored

LEMMA CleanStep ==
  ASSUME OnlyOperationsFail, SoleReporter
  PROVE  Safe /\ SavingOK /\ ReportingOK /\ CleanOK /\ [Next]_vars => CleanOK'
<1> SUFFICES ASSUME Safe, SavingOK, ReportingOK, CleanOK, [Next]_vars PROVE CleanOK'
  OBVIOUS
<1> USE ConstantsAssumption DEF Safe, TypeOK, ArgOK, Ended, Stored, InRuns, Goto, db,
        disk, call, Files, SavingOK, ReportingOK, Writing, CleanOK, Answering, Filing,
        Staging, Pcs, EndPcs, SavingPcs, ReportPcs, WritingPcs
<1>0. Faults \subseteq {"write", "db"}
  BY DEF OnlyOperationsFail
<1>1. CASE UNCHANGED vars
  BY <1>1 DEF vars
<1>2. ASSUME NEW p \in Procs, Command(p) PROVE CleanOK'
  <2>1. ASSUME NEW r \in Runs, StartPersist(p, r) PROVE CleanOK'
    BY <2>1 DEF StartPersist, Start
  <2>2. ASSUME NEW r \in Runs, NEW f \in Files, StartReport(p, r, f) PROVE CleanOK'
    BY <2>2 DEF StartReport, Start
  <2>3. ASSUME NEW r \in Runs, NEW n \in Names, StartBaseline(p, r, n) PROVE CleanOK'
    BY <2>3 DEF StartBaseline, Start
  <2>4. ASSUME NEW r \in Runs, NEW n \in Names, StartCompare(p, r, n) PROVE CleanOK'
    BY <2>4 DEF StartCompare, Start
  <2>5. ASSUME NEW r \in Runs, StartDelete(p, r) PROVE CleanOK'
    BY <2>5 DEF StartDelete, Start
  <2> QED BY <1>2, <2>1, <2>2, <2>3, <2>4, <2>5 DEF Command
<1>3. ASSUME NEW p \in Procs, Crash(p) PROVE CleanOK'
  BY <1>0, <1>3 DEF Crash
<1>4. ASSUME NEW p \in Procs, Interrupt(p) PROVE CleanOK'
  BY <1>0, <1>4 DEF Interrupt
<1>5. ASSUME NEW p \in Procs, Step(p) PROVE CleanOK'
  <2>1. ASSUME PersistMkdir(p) PROVE CleanOK'
    <3>1. /\ pc[p] = "mkdir" /\ run[p] \in Runs /\ row[run[p]] = "none"
          /\ row' = row /\ artifacts' = artifacts /\ files' = files /\ tmp' = tmp
          /\ run' = run /\ arg' = arg
      BY <2>1 DEF PersistMkdir
    <3>2. CASE InRuns(run[p])
      BY <1>0, <2>1, <3>1, <3>2 DEF PersistMkdir
    <3>3. CASE ~InRuns(run[p]) /\ pc' = [pc EXCEPT ![p] = "failed"] /\ place' = place
      BY <3>1, <3>3
    <3>4. CASE /\ ~InRuns(run[p]) /\ pc' = [pc EXCEPT ![p] = "payload"]
               /\ place' = [place EXCEPT ![run[p]] = "runs"]
      <4>1. files[run[p]] = {} /\ tmp[run[p]] = {}
        BY <3>1, <3>4
      <4>2. Answering(p, run[p])'
        BY <3>1, <3>4
      <4>3. \A q \in Procs, r \in Runs : Answering(q, r) => Answering(q, r)'
        BY <3>1, <3>4
      <4>4. \A q \in Procs, r \in Runs, f \in Files :
              /\ Filing(q, r, f) => Filing(q, r, f)'
              /\ Staging(q, r, f) => Staging(q, r, f)'
        BY <3>1, <3>4
      <4>5. \A r \in Runs : InRuns(r)' <=> InRuns(r) \/ r = run[p]
        BY <3>1, <3>4
      <4>6. \A r \in Runs : row'[r] = "none" => files'[r] \cup tmp'[r] \subseteq {Canonical}
        BY <3>1
      <4>7. \A r \in Runs : row'[r] = "none" /\ ~InRuns(r)' => files'[r] = {} /\ tmp'[r] = {}
        BY <3>1, <4>5
      <4>8. \A r \in Runs : InRuns(r)' /\ row'[r] # "stored" => \E q \in Procs : Answering(q, r)'
        BY <3>1, <4>2, <4>3, <4>5
      <4>9. \A r \in Runs : row'[r] = "stored" =>
              \A f \in files'[r] \ artifacts'[r] : \E q \in Procs : Filing(q, r, f)'
        BY <3>1, <4>4
      <4>10. \A r \in Runs : InRuns(r)' => \A f \in tmp'[r] : \E q \in Procs : Staging(q, r, f)'
        BY <3>1, <4>1, <4>4, <4>5
      <4> QED BY <4>6, <4>7, <4>8, <4>9, <4>10
    <3> QED BY <2>1, <3>2, <3>3, <3>4 DEF PersistMkdir
  <2>2. ASSUME PersistPayload(p) PROVE CleanOK'
    BY <1>0, <2>2 DEF PersistPayload
  <2>3. ASSUME PersistWrite(p) PROVE CleanOK'
    BY <1>0, <2>3 DEF PersistWrite
  <2>4. ASSUME PersistReplace(p) PROVE CleanOK'
    BY <1>0, <2>4, SMTT(20) DEF PersistReplace
  <2>5. ASSUME PersistSave(p) PROVE CleanOK'
    BY <1>0, <2>5, SMTT(20) DEF PersistSave
  <2>6. ASSUME PersistReturn(p) PROVE CleanOK'
    BY <1>0, <2>6 DEF PersistReturn
  <2>7. ASSUME PersistUndo(p) PROVE CleanOK'
    BY <1>0, <2>7, SMTT(20) DEF PersistUndo
  <2>8. ASSUME ReportLoad(p) PROVE CleanOK'
    BY <1>0, <2>8 DEF ReportLoad
  <2>9. ASSUME ReportJson(p) PROVE CleanOK'
    BY <1>0, <2>9 DEF ReportJson
  <2>10. ASSUME ReportGet(p) PROVE CleanOK'
    BY <1>0, <2>10 DEF ReportGet
  <2>11. ASSUME ReportCheck(p) PROVE CleanOK'
    BY <1>0, <2>11 DEF ReportCheck
  <2>12. ASSUME ReportOpen(p) PROVE CleanOK'
    BY <1>0, <2>12 DEF ReportOpen
  <2>13. ASSUME ReportRename(p) PROVE CleanOK'
    BY <1>0, <2>13, SMTT(20) DEF ReportRename
  <2>14. ASSUME ReportRenamed(p) PROVE CleanOK'
    BY <1>0, <2>14 DEF ReportRenamed
  <2>15. ASSUME ReportRegister(p) PROVE CleanOK'
    BY <1>0, <2>15, SMTT(20) DEF ReportRegister
  <2>16. ASSUME ReportReturn(p) PROVE CleanOK'
    BY <1>0, <2>16 DEF ReportReturn
  <2>17. ASSUME ReportUnwind(p) PROVE CleanOK'
    BY <1>0, <2>17, SMTT(20) DEF ReportUnwind
  <2>18. ASSUME BaselineSource(p) PROVE CleanOK'
    BY <1>0, <2>18 DEF BaselineSource
  <2>19. ASSUME BaselinePin(p) PROVE CleanOK'
    BY <1>0, <2>19 DEF BaselinePin
  <2>20. ASSUME DeleteRow(p) PROVE CleanOK'
    BY <1>0, <2>20, SMTT(20) DEF DeleteRow
  <2>21. ASSUME DeleteMove(p) PROVE CleanOK'
    BY <1>0, <2>21 DEF DeleteMove
  <2>22. ASSUME CompareBaseline(p) PROVE CleanOK'
    BY <1>0, <2>22 DEF CompareBaseline
  <2>23. ASSUME CompareSource(p) PROVE CleanOK'
    BY <1>0, <2>23 DEF CompareSource
  <2>24. ASSUME CompareCurrent(p) PROVE CleanOK'
    BY <1>0, <2>24 DEF CompareCurrent
  <2> QED BY <1>5, <2>1, <2>2, <2>3, <2>4, <2>5, <2>6, <2>7, <2>8, <2>9, <2>10, <2>11, <2>12, <2>13, <2>14, <2>15, <2>16, <2>17, <2>18, <2>19, <2>20, <2>21, <2>22, <2>23, <2>24 DEF Step
<1> QED BY <1>1, <1>2, <1>3, <1>4, <1>5 DEF Next

(* When only writes and transactions fail, and with one reporter per run and *)
(* format: whenever no command works on a run, the disk holds of it exactly  *)
(* what the database says.                                                   *)
THEOREM NothingIsLeftBehind ==
  ASSUME OnlyOperationsFail, SoleReporter
  PROVE  Spec => []DiskMatchesDatabase
<1>1. NoInterrupt
  BY DEF OnlyOperationsFail, NoInterrupt
<1>2. Spec => [](Safe /\ SavingOK /\ ReportingOK /\ CleanOK)
  BY <1>1, SafeInit, SafeStep, SavingInit, SavingStep, ReportingInit, ReportingStep,
     CleanInit, CleanStep, PTL DEF Spec
<1>3. SavingOK /\ ReportingOK /\ CleanOK => DiskMatchesDatabase
  <2> SUFFICES ASSUME SavingOK, ReportingOK, CleanOK, NEW r \in Runs, Quiet(r)
               PROVE  /\ InRuns(r) <=> Stored(r)
                      /\ InRuns(r) => files[r] = artifacts[r] /\ tmp[r] = {}
    BY DEF DiskMatchesDatabase
  <2>1. \A p \in Procs : ~Answering(p, r)
    BY DEF Quiet, Answering, Ended, EndPcs
  <2>2. \A p \in Procs, f \in files[r] \cup tmp[r] : ~Filing(p, r, f) /\ ~Staging(p, r, f)
    BY DEF Quiet, Filing, Staging, Ended, EndPcs
  <2>3. InRuns(r) <=> Stored(r)
    BY <2>1 DEF CleanOK, SavingOK
  <2>4. Stored(r) => artifacts[r] \subseteq files[r]
    BY DEF ReportingOK, RegisteredOnDisk
  <2>5. Stored(r) => files[r] \subseteq artifacts[r]
    BY <2>2 DEF CleanOK
  <2>6. InRuns(r) => tmp[r] = {}
    BY <2>2 DEF CleanOK
  <2> QED BY <2>3, <2>4, <2>5, <2>6
<1> QED BY <1>2, <1>3, PTL

-----------------------------------------------------------------------------
(* The refinement.  The ledger's kept and published are read off the files,  *)
(* but in a reachable state the database alone determines them, so only the  *)
(* four transactions that write it can be steps of the ledger.               *)

Sound == Safe /\ PinnedOK /\ SavingOK /\ ReportingOK

Kept == {r \in Runs : row[r] # "none" /\ Canonical \in files[r]}
Published ==
  [r \in Runs |-> IF Stored(r) THEN artifacts[r] \cap files[r] ELSE {}]

LEMMA DatabaseDecides ==
  Sound => /\ Kept = {r \in Runs : row[r] # "none"}
           /\ Published = [r \in Runs |-> IF Stored(r) THEN artifacts[r] ELSE {}]
  BY DEF Sound, SavingOK, ReportingOK, RegisteredOnDisk, Kept, Published

LEMMA SoundStep ==
  ASSUME NoInterrupt, SoleReporter
  PROVE  Sound /\ [Next]_vars => Sound'
  BY SafeStep, PinnedStep, SavingStep, ReportingStep DEF Sound

LEMMA OnlyTransactionsWrite ==
  ASSUME [Next]_vars, db' # db
  PROVE  \E p \in Procs : PersistSave(p) \/ ReportRegister(p) \/ BaselinePin(p)
                           \/ DeleteRow(p)
  BY DEF Next, vars, Command, Step, db, StartPersist, StartReport, StartBaseline,
     StartCompare, StartDelete, Start, Crash, Interrupt, PersistMkdir,
     PersistPayload, PersistWrite, PersistReplace, PersistReturn, PersistUndo,
     ReportLoad, ReportJson, ReportGet, ReportCheck, ReportOpen, ReportRename,
     ReportRenamed, ReportReturn, ReportUnwind, BaselineSource, DeleteMove,
     CompareBaseline, CompareSource, CompareCurrent

LEMMA LedgerStep ==
  ASSUME Sound, Sound', [Next]_vars
  PROVE  [Ledger!Next]_(Ledger!vars)
<1> USE DEF Stored
<1>1. /\ Kept = {r \in Runs : row[r] # "none"}
      /\ Kept' = {r \in Runs : row'[r] # "none"}
      /\ Published = [r \in Runs |-> IF Stored(r) THEN artifacts[r] ELSE {}]
      /\ Published' = [r \in Runs |-> IF row'[r] = "stored" THEN artifacts'[r] ELSE {}]
  <2>1. Sound' => /\ Kept' = {r \in Runs : row'[r] # "none"}
                  /\ Published' = [r \in Runs |->
                       IF row'[r] = "stored" THEN artifacts'[r] ELSE {}]
    BY DEF Sound, SavingOK, ReportingOK, RegisteredOnDisk, Kept, Published
  <2> QED BY <2>1, DatabaseDecides
<1>2. CASE db' = db
  BY <1>1, <1>2 DEF db, Ledger!vars, Kept, Published
<1>3. ASSUME NEW p \in Procs, PersistSave(p), db' # db PROVE Ledger!Next
  <2>1. /\ run[p] \in Runs /\ row[run[p]] = "none"
        /\ row' = [row EXCEPT ![run[p]] = "stored"]
        /\ artifacts' = [artifacts EXCEPT ![run[p]] = {Canonical}]
        /\ baselines' = baselines
    BY <1>3 DEF PersistSave, Sound, Safe, TypeOK, SavingOK, SavingPcs, db, Ended, EndPcs
  <2>2. Kept' = Kept \cup {run[p]}
    BY <1>1, <2>1 DEF Sound, Safe, TypeOK
  <2>3. Published' = [Published EXCEPT ![run[p]] = {Canonical}]
    BY <1>1, <2>1 DEF Sound, Safe, TypeOK
  <2> QED BY <2>1, <2>2, <2>3 DEF Ledger!Next, Ledger!Save, Kept, Published
<1>4. ASSUME NEW p \in Procs, ReportRegister(p), db' # db PROVE Ledger!Next
  <2>1. /\ run[p] \in Runs /\ arg[p] \in Files
        /\ Stored(run[p]) /\ arg[p] \notin artifacts[run[p]]
        /\ artifacts' = [artifacts EXCEPT ![run[p]] = @ \cup {arg[p]}]
        /\ row' = row /\ baselines' = baselines
    BY <1>4 DEF ReportRegister, Sound, Safe, TypeOK, ArgOK, ReportPcs, WritingPcs, db,
       Ended, EndPcs
  <2>2. Kept' = Kept
    BY <1>1, <2>1
  <2>3. Published' = [Published EXCEPT ![run[p]] = @ \cup {arg[p]}]
    BY <1>1, <2>1 DEF Sound, Safe, TypeOK
  <2>4. arg[p] \notin Published[run[p]]
    BY <1>1, <2>1
  <2> QED BY <2>1, <2>2, <2>3, <2>4 DEF Ledger!Next, Ledger!Publish, Kept, Published
<1>5. ASSUME NEW p \in Procs, BaselinePin(p), db' # db PROVE Ledger!Next
  <2>1. /\ run[p] \in Runs /\ arg[p] \in Names /\ run[p] \in KnownGood
        /\ Stored(run[p]) /\ baselines[arg[p]] = None
        /\ baselines' = [baselines EXCEPT ![arg[p]] = run[p]]
        /\ row' = row /\ artifacts' = artifacts
    BY <1>5 DEF BaselinePin, Sound, Safe, TypeOK, ArgOK, PinnedOK, db, Ended, EndPcs
  <2>2. Kept' = Kept /\ Published' = Published
    BY <1>1, <2>1
  <2>3. Ledger!Pin(arg[p], run[p])
    BY <2>1, <2>2 DEF Ledger!Pin, Kept, Published
  <2> QED BY <2>1, <2>3, Zenon DEF Ledger!Next
<1>6. ASSUME NEW p \in Procs, DeleteRow(p), db' # db PROVE Ledger!Next
  <2>1. /\ run[p] \in Runs /\ Stored(run[p])
        /\ \A n \in Names : baselines[n] # run[p]
        /\ row' = [row EXCEPT ![run[p]] = "deleted"]
        /\ artifacts' = [artifacts EXCEPT ![run[p]] = {}]
        /\ baselines' = baselines
    BY <1>6 DEF DeleteRow, Sound, Safe, TypeOK, db, Ended, EndPcs
  <2>2. Kept' = Kept
    BY <1>1, <2>1 DEF Sound, Safe, TypeOK
  <2>3. Published' = [Published EXCEPT ![run[p]] = {}]
    BY <1>1, <2>1 DEF Sound, Safe, TypeOK
  <2> QED BY <2>1, <2>2, <2>3 DEF Ledger!Next, Ledger!Delete, Kept, Published
<1> QED BY <1>2, <1>3, <1>4, <1>5, <1>6, OnlyTransactionsWrite

(* The store implements the ledger: every command, interleaved with others   *)
(* and with crashes and failures, is a sequence of atomic ledger operations. *)
THEOREM StoreImplementsLedger ==
  ASSUME NoInterrupt, SoleReporter
  PROVE  Spec => ImplementsLedger
<1>1. Init => Ledger!Init
  BY DEF Init, Ledger!Init, Stored
<1>2. Init => Sound
  BY SafeInit, PinnedInit, SavingInit, ReportingInit DEF Sound
<1>3. Sound /\ [Next]_vars => Sound'
  BY SoundStep
<1>4. Sound /\ Sound' /\ [Next]_vars => [Ledger!Next]_(Ledger!vars)
  BY LedgerStep
<1> QED BY <1>1, <1>2, <1>3, <1>4, PTL DEF Spec, ImplementsLedger, Ledger!Spec
=============================================================================
