--------------------------- MODULE MCTestExecution ---------------------------
(* Workloads of less than a block, of whole blocks, of a block and a half    *)
(* and beyond the policy; volumes with too little space, with space for the  *)
(* file but not for the reserve, and with enough; a sampler whose bound lies *)
(* within the test.                                                          *)
EXTENDS TestExecution
=============================================================================
