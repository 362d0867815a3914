------------------------------ MODULE MCAxiRegs ------------------------------
(* A model-checking instance of AxiRegs: a register of each kind.          *)
EXTENDS AxiRegs
=============================================================================
