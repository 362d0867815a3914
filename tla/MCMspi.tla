------------------------------- MODULE MCMspi -------------------------------
(* Model-checking instance of Mspi: two byte values, and FIFOs of two      *)
(* bytes, one less than the longest exchange.                              *)
EXTENDS Mspi
=============================================================================
