------------------------------- MODULE MCSsiCal -------------------------------
(* A model-checking instance of SsiCal: every table of two full rows.      *)
EXTENDS SsiCal
=============================================================================
