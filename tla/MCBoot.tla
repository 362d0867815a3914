------------------------------- MODULE MCBoot -------------------------------
(***************************************************************************)
(* Instance of Boot for TLC.  An operator works with one of several groups *)
(* of parameters; what one of a group changes, no other group has a say    *)
(* in.  The second transmitter is one that the profile leaves out.      *)
(***************************************************************************)
EXTENDS Boot

MCEnabled == {<<"tx", 1>>, <<"rx", 1>>, <<"rx", 2>>}

MCPlans ==
  { {<<"TxAttn", 1>>, <<"Samples", 1>>, <<"DpdEnable", 1>>},
    {<<"TxAttn", 1>>, <<"TxBoost", 1>>, <<"Enable", 1>>},
    {<<"TxBoost", 1>>, <<"TxCarrier", 1>>, <<"PathDelay", 1>>, <<"DpdEnable", 1>>},
    {<<"TxBoost", 1>>, <<"State", 1>>, <<"DpdEnable", 1>>},
    {<<"TxAttn", 2>>, <<"TxBoost", 2>>, <<"LoopBack", 2>>, <<"DpdEnable", 1>>},
    {<<"RxCarrier", 1>>, <<"RxPort", 1>>, <<"RxPort", 2>>, <<"DpdEnable", 1>>},
    {<<"RxCarrier", 2>>, <<"TxCarrier", 2>>, <<"RxPort", 2>>},
    {<<"Samples", 1>>, <<"Power", 1>>, <<"PathDelay", 2>>, <<"DpdEnable", 2>>},
    {"Gain", "IqPath", "SsiEnable", "DpdEnable"} \X {1},
    {"IqData", "Disable", "IqPath", "Rssi", "State", "Unknown"} \X {2},
    {<<"Reboot", 1>>, <<"RxPort", 1>>} }

(* 5 dB, 5.1 dB, 50 dB (more than the device takes), 6000 dB (more than 16 *)
(* bits take, and the documentation's 6 dB); 256 and 258 do not fit        *)
(* eight bits, 9 does not fit three.                                       *)
MCTyped ==
  [k \in Commands |->
     CASE k = "TxAttn" -> {5000, 5100, 50000, 6000000}
       [] k \in {"TxBoost", "RxPort", "DpdEnable"} -> {0, 1}
       [] k = "LoopBack" -> {1, 256}
       [] k \in Carriers -> {435}
       [] k = "IqPath" -> {1, 9}
       [] k = "Gain" -> {3, 258}
       [] k = "State" -> {3, 7}
       [] OTHER -> {7}]

(* In floating point 5.1 is a little less.                                 *)
MCLossy == {5100}

(* The profiles' own values: 10 dB, boost, 157 MHz, port A; only the    *)
(* first has DPD settings.                                                 *)
MCProfile ==
  [p \in Profiles |-> [k \in Device |->
     CASE k = "TxAttn" -> 10000
       [] k = "TxBoost" -> 1
       [] k \in Carriers -> 157
       [] k \in Dpd -> IF p = "rf1" THEN 4096 ELSE Unset
       [] OTHER -> 0]]

(* Rflan_Initialize: 0 dB, boost, port A; counts of 20 and 100.            *)
MCDefault ==
  [k \in Copied \cup Logic |->
     CASE k = "TxBoost" -> 1
       [] k = "SsiEnable" -> 20
       [] k = "Disable" -> 100
       [] OTHER -> 0]
=============================================================================
