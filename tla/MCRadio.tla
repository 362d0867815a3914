------------------------------ MODULE MCRadio ------------------------------
(* Model-checking instance of Radio: a transmitter, whose configured mode  *)
(* is PIN, and a receiver of the same number, as rflan.c:407-412 sets up.  *)
EXTENDS Radio

CONSTANTS Tx1, Rx1

MCChannels   == {Tx1, Rx1}
MCTxChannels == {Tx1}
MCNumber     == [c \in MCChannels |-> 1]
=============================================================================
