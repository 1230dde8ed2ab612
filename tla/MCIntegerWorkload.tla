------------------------- MODULE MCIntegerWorkload -------------------------
(* Up to four workers under a policy that refuses four and has no memory for *)
(* three, up to five blocks in all, with and without a configured checksum.  *)
EXTENDS IntegerWorkload

MCWorkerCounts == 1 .. 4
MCOperationTotals == 1 .. 5
MCExpectations == {"none", "right", "wrong"}
=============================================================================
