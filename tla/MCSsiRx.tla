------------------------------- MODULE MCSsiRx -------------------------------
(* A model-checking instance of SsiRx: samples of four bits.               *)
EXTENDS SsiRx
=============================================================================
