------------------------------ MODULE MCStream ------------------------------
(* Model-checking instance of Stream: one channel in each direction and a  *)
(* queue that two events fill.                                             *)
EXTENDS Stream

CONSTANTS Tx1, Rx1

MCChannels   == {Tx1, Rx1}
MCTxChannels == {Tx1}
=============================================================================
