------------------------- MODULE MCTelemetrySampler -------------------------
(* A sampler of at most three samples whose sensors always answer.           *)
EXTENDS TelemetrySampler
=============================================================================
