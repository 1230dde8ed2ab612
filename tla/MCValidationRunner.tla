------------------------- MODULE MCValidationRunner -------------------------
(* Every plan of up to three tests, each disabled, plain, parallel or        *)
(* injected: three are enough for a failure before, in and after a test.     *)
EXTENDS ValidationRunner
=============================================================================
