----------------------------- MODULE RunArchive ------------------------------
(***************************************************************************)
(* What the repository promises about runs and their reports, with every   *)
(* command in one step: a database of another schema version is left as it *)
(* is, and nothing is stored before the schema is there; a run id stands   *)
(* for one run, also after it was deleted; a report is made from the run   *)
(* as it is at one moment, and goes with it.  RunRepository implements it. *)
(***************************************************************************)
CONSTANTS Runs, Executions

VARIABLES schema,  \* the version of the database: "none", "ours" or "foreign"
          used,    \* the ids of all the runs that were ever saved
          stored,  \* the stored runs with their executions
          reports  \* what the report of a stored run shows

vars == <<schema, used, stored, reports>>

Init ==
  /\ schema \in {"none", "foreign"}
  /\ used = {}
  /\ stored = << >>
  /\ reports = << >>

Create ==
  /\ schema = "none"
  /\ schema' = "ours"
  /\ UNCHANGED <<used, stored, reports>>

Save(r) ==
  /\ schema = "ours"
  /\ r \notin used
  /\ used' = used \cup {r}
  /\ \E e \in Executions :
       stored' = [x \in DOMAIN stored \cup {r} |-> IF x = r THEN e ELSE stored[x]]
  /\ UNCHANGED <<schema, reports>>

Report(r) ==
  /\ schema = "ours"
  /\ r \in DOMAIN stored \ DOMAIN reports
  /\ reports' = [x \in DOMAIN reports \cup {r} |->
                   IF x = r THEN <<stored[r].run, stored[r].platform, stored[r].telemetry>>
                   ELSE reports[x]]
  /\ UNCHANGED <<schema, used, stored>>

Delete(r) ==
  /\ schema = "ours"
  /\ r \in DOMAIN stored
  /\ stored'  = [x \in DOMAIN stored \ {r}  |-> stored[x]]
  /\ reports' = [x \in DOMAIN reports \ {r} |-> reports[x]]
  /\ UNCHANGED <<schema, used>>

Next == Create \/ \E r \in Runs : Save(r) \/ Report(r) \/ Delete(r)

Spec == Init /\ [][Next]_vars
=============================================================================
