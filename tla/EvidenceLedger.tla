--------------------------- MODULE EvidenceLedger ---------------------------
(***************************************************************************)
(* What the evidence store promises to its users, with no files, processes *)
(* or failures in sight: a run is stored once, its canonical evidence is   *)
(* never lost afterwards (deletion only takes it out of the ledger), its   *)
(* published reports stay published while it is stored, and a baseline     *)
(* pins a known-good stored run for ever.  EvidenceStore implements it.    *)
(***************************************************************************)
CONSTANTS Runs, KnownGood, Files, Canonical, Names, None

VARIABLES ledger,    \* ledger[r]: "none", "stored" or "deleted"
          kept,      \* the runs whose canonical evidence can still be read
          published, \* published[r]: the artifacts a stored run offers
          pinned     \* pinned[n]: the source run of baseline n, or None

vars == <<ledger, kept, published, pinned>>

Init ==
  /\ ledger = [r \in Runs |-> "none"]
  /\ kept = {}
  /\ published = [r \in Runs |-> {}]
  /\ pinned = [n \in Names |-> None]

Save(r) ==
  /\ ledger[r] = "none"
  /\ ledger' = [ledger EXCEPT ![r] = "stored"]
  /\ kept' = kept \cup {r}
  /\ published' = [published EXCEPT ![r] = {Canonical}]
  /\ UNCHANGED pinned

Publish(r, f) ==
  /\ ledger[r] = "stored"
  /\ f \notin published[r]
  /\ published' = [published EXCEPT ![r] = @ \cup {f}]
  /\ UNCHANGED <<ledger, kept, pinned>>

Pin(n, r) ==
  /\ pinned[n] = None
  /\ ledger[r] = "stored"
  /\ r \in KnownGood
  /\ pinned' = [pinned EXCEPT ![n] = r]
  /\ UNCHANGED <<ledger, kept, published>>

Delete(r) ==
  /\ ledger[r] = "stored"
  /\ \A n \in Names : pinned[n] # r
  /\ ledger' = [ledger EXCEPT ![r] = "deleted"]
  /\ published' = [published EXCEPT ![r] = {}]
  /\ UNCHANGED <<kept, pinned>>

Next ==
  \E r \in Runs :
    \/ Save(r)
    \/ \E f \in Files : Publish(r, f)
    \/ \E n \in Names : Pin(n, r)
    \/ Delete(r)

Spec == Init /\ [][Next]_vars
=============================================================================
