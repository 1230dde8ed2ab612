------------------------- MODULE MCStabilityWorkload -------------------------
(* Three repetitions, the least the code accepts, of one and two workers, of *)
(* three, whose blocks are too much memory, and of four, which are too many; *)
(* up to four blocks, with and without a configured checksum; durations of   *)
(* up to three clock ticks.                                                  *)
EXTENDS StabilityWorkload

MCWorkerCounts == 1 .. 4
MCOperationTotals == 1 .. 4
MCExpectations == {"none", "right", "wrong"}
MCDurations == 0 .. 3
=============================================================================
