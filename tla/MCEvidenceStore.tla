--------------------------- MODULE MCEvidenceStore ---------------------------
(* A small store for TLC: two processes, two runs, one report format and one *)
(* baseline name.  Either one run is known good, or both are (so that one    *)
(* baseline could be pointed from one source to another).                    *)
EXTENDS EvidenceStore, TLC

CONSTANTS r1, r2, p1, p2, b1

MCProcs == {p1, p2}
MCRuns == {r1, r2}
MCOneGood == {r1}
MCAllGood == {r1, r2}
MCNames == {b1}
MCReports == {"report.html"}

ProcSymmetry == Permutations(MCProcs)
=============================================================================
