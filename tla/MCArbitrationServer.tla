------------------------ MODULE MCArbitrationServer ------------------------
(* ArbitrationServer with the constants of the Arbitration_*.cfg files. *)
EXTENDS ArbitrationServer
=============================================================================
