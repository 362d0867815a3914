------------------------------- MODULE MCSsiTx -------------------------------
(* A model-checking instance of SsiTx: a counter that stops at 3.          *)
EXTENDS SsiTx
=============================================================================
