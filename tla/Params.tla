------------------------------- MODULE Params -------------------------------
(***************************************************************************)
(* The radio's parameters: what the command SetParam does to the           *)
(* transceiver and to the logic, and what GetParam says they hold.         *)
(*                                                                         *)
(* A parameter is a name of the table in adrv9001_params.c, written        *)
(* <<kind, channel>>.  It lives in one of three places: in the             *)
(* transceiver (attenuation, carrier, DPD settings, ...), in a register of *)
(* the logic (pattern, data source, counts), or in both the transceiver    *)
(* and a copy the processor keeps (attenuation, boost, loop back, input    *)
(* port); GetParam prints the copy where there is one.  Loading a profile, *)
(* which is how DPD is switched on and off, rewrites the transceiver and   *)
(* not the copies; enabling a transmitter sends two of them again.         *)
(*                                                                         *)
(* The command task makes every call, so a command is one step.  How the   *)
(* channel moves while a setting is applied is module Radio.               *)
(***************************************************************************)
EXTENDS Integers, FiniteSets

CONSTANTS
  Channels,   \* channel numbers
  Enabled,    \* the <<port, channel>> pairs the profile enables
  Plans,      \* the sets of names an operator may be working with
  Typed,      \* for each kind, the numbers an operator types
  Profile,    \* for each profile and kind, what loading it sets
  Default,    \* for each kind with a copy or a register, its initial value
  Ramp,       \* the number of the ramp among the data sources
  Forever,    \* the count that stands for "no end"
  Lossy,      \* attenuations that lose 0.001 dB to floating point
  Junk,       \* a text that is not a number
  Unset       \* a value nobody knows

(* Samples and Power stand for the five settings of the DPD, SsiEnable and *)
(* Disable for the three counts, Rssi for what can only be read.  Enable   *)
(* and Reboot are no parameters but commands, the latter of module Boot.   *)
Stored   == {"TxAttn", "TxBoost", "LoopBack"}
Carriers == {"TxCarrier", "RxCarrier"}
Dpd      == {"Samples", "Power"}
Counts   == {"SsiEnable", "Disable"}
Logic    == {"IqData", "IqPath"} \cup Counts
Device   == Stored \cup Carriers \cup Dpd \cup {"RxPort", "PathDelay", "Gain"}
Copied   == Stored \cup {"RxPort"}
Kinds    == Device \cup Logic
Commands == Kinds \cup {"DpdEnable", "State", "Rssi", "Unknown", "Enable", "Reboot"}

Names    == Kinds \X Channels
Copies   == Copied \X Channels
Profiles == {"rf1", "rf2"}
Statuses == {"Success", "InvalidParameter", "Error"}

\* Word widths, the largest attenuation the device takes, and the number
\* of the state in which a channel transmits or receives.
HalfWord  == 65536
Byte      == 256
MaxAttn   == 41950
RfEnabled == 3

ASSUME PlansAssumption ==
  \A p \in Plans : p \subseteq Commands \X Channels

ASSUME TypedAssumption ==
  Typed \in [Commands -> SUBSET Nat]

ASSUME ProfileAssumption ==
  /\ Profile \in [Profiles -> [Device -> Nat \cup {Unset}]]
  /\ \A p \in Profiles : Profile[p]["TxAttn"] \in 0 .. MaxAttn

ASSUME DefaultAssumption ==
  /\ Default \in [Copied \cup Logic -> Nat]
  /\ Default["IqPath"] \in 0 .. 7
  /\ Ramp \in 0 .. 7
  /\ Forever \in Nat

ASSUME LossyAssumption ==
  Lossy \subseteq {mdB \in Nat : mdB % 125 # 0}

ASSUME MarksAssumption ==
  /\ Unset \notin Int
  /\ Junk \notin Int

VARIABLES
  radio,      \* "off" before Adrv9001_Initialize, "up" after it
  held,       \* what the transceiver or the logic holds
  cache,      \* the processor's copies
  manual,     \* the receivers' input ports are selected by hand
  reply,      \* the last command and the status printed for it
  plan,       \* what the operator works with
  believed    \* history: the number of the last set that succeeded

vars == <<radio, held, cache, manual, reply, plan, believed>>

NoReply == [name |-> Unset, status |-> "Success"]

-----------------------------------------------------------------------------
(* From the text to the value that is sent.                                *)

(* What sscanf and the conversion after it make of a number: eight bits    *)
(* for ports and indices, a truth value where the setter takes one.        *)
Narrow(kind, number) ==
  CASE kind \in {"TxBoost", "LoopBack", "DpdEnable"} ->
         IF number % Byte = 0 THEN 0 ELSE 1
    [] kind \in {"RxPort", "Gain", "IqPath", "State"} -> number % Byte
    [] OTHER -> number

(* A text that is no number leaves the variable as it was, uninitialised.  *)
Scan(kind, text) ==
  IF text = Junk THEN {Narrow(kind, number) : number \in Typed[kind]}
                 ELSE {Narrow(kind, text)}

(* An attenuation becomes thousandths of a dB cut to 16 bits.  Unless it   *)
(* is a multiple of 1/8 dB the number in floating point is a little more   *)
(* or a little less than what was typed, and if less the cut loses one.  A *)
(* number too large for 16 bits is undefined in C; this processor keeps    *)
(* the low ones.                                                           *)
AttnWord(mdB) == (IF mdB \in Lossy THEN mdB - 1 ELSE mdB) % HalfWord

Sent_KeepsByte(kind, value) ==
  IF kind = "TxAttn" THEN AttnWord(value) ELSE value

(* What reaches the device or the register.                                *)
Sent(kind, value) ==
  CASE kind = "TxAttn" -> AttnWord(value)
    [] kind = "IqPath" -> value % 8
    [] OTHER -> value

Takes(kind, value) == kind = "TxAttn" => value <= MaxAttn

(* What GetParam prints.                                                   *)
Shown(n) == IF n \in Copies THEN cache[n] ELSE held[n]

-----------------------------------------------------------------------------
(* Replies.                                                                *)

Reply(n, status) == reply' = [name |-> n, status |-> status]

(* An operator who typed a number and reads "Success" takes it as set.     *)
Answer(n, text, status) ==
  /\ Reply(n, status)
  /\ believed' = [believed EXCEPT ![n] =
       IF status = "Success" /\ text # Junk THEN Narrow(n[1], text) ELSE Unset]

Hold(n, value) == held' = [held EXCEPT ![n] = value]

Asked(n, kinds) == radio = "up" /\ n \in plan /\ n[1] \in kinds

-----------------------------------------------------------------------------
(* Enabling a transmitter.                                                 *)

(* What may be enabled at the end of a command: the transmitter it had to  *)
(* take to CALIBRATED, or was asked to enable.                             *)
Transmitter(n) ==
  IF n[1] \in {"TxCarrier", "PathDelay", "State", "Enable"} \cup Dpd THEN {n[2]} ELSE {}

(* Adrv9001_ToRfEnabled sends the attenuation and the boost of an enabled  *)
(* transmitter again, from the copies.  Nobody asks whether that worked.   *)
Resent(channels, copies, h) ==
  LET again == {n \in {"TxAttn", "TxBoost"} \X channels :
                  <<"tx", n[2]>> \in Enabled /\ Takes(n[1], Sent(n[1], copies[n]))}
  IN {[n \in Names |-> IF n \in back THEN Sent(n[1], copies[n]) ELSE h[n]] :
        back \in SUBSET again}

(* Whatever ends in Adrv9001_ToRfEnabled and sets no parameter: the        *)
(* command of that name, a sweep of the delays, the start of a stream, a   *)
(* look at the state of the DPD.                                           *)
Enable(n) ==
  /\ Asked(n, {"Enable"})
  /\ held' \in Resent(Transmitter(n), cache, held)
  /\ \E s \in {"Success", "Error"} : Reply(n, s)
  /\ UNCHANGED <<radio, cache, manual, plan, believed>>

-----------------------------------------------------------------------------
(* SetParam, one action for each way in which a parameter is set.          *)

(* Attenuation and boost: the copy is written first.  A transmitter that   *)
(* the profile does not enable is skipped with Success.                    *)
SetStored(n, text) ==
  /\ Asked(n, {"TxAttn", "TxBoost"})
  /\ \E v \in Scan(n[1], text) :
       \/ /\ <<"tx", n[2]>> \notin Enabled
          /\ Answer(n, text, "Success")
          /\ UNCHANGED <<held, cache>>
       \/ /\ <<"tx", n[2]>> \in Enabled
          /\ cache' = [cache EXCEPT ![n] = v]
          /\ \/ /\ Takes(n[1], Sent(n[1], v))
                /\ Hold(n, Sent(n[1], v))
                /\ Answer(n, text, "Success")
             \/ UNCHANGED held /\ Answer(n, text, "Error")
  /\ UNCHANGED <<radio, manual, plan>>

(* Loop back: the copy first, for any channel.                             *)
SetLoopBack(n, text) ==
  /\ Asked(n, {"LoopBack"})
  /\ \E v \in Scan(n[1], text) :
       /\ cache' = [cache EXCEPT ![n] = v]
       /\ \/ Hold(n, v) /\ Answer(n, text, "Success")
          \/ UNCHANGED held /\ Answer(n, text, "Error")
  /\ UNCHANGED <<radio, manual, plan>>

Tuned_OtherPort(n, v) ==
  IF n[1] = "RxCarrier"
  THEN [held EXCEPT ![n] = v, ![<<"RxPort", n[2]>>] = cache[<<"RxPort", 1>>]]
  ELSE [held EXCEPT ![n] = v]

(* A carrier takes the port that the copy names along.                     *)
Tuned(n, v) ==
  LET port == <<"RxPort", n[2]>>
  IN IF n[1] = "RxCarrier"
     THEN [held EXCEPT ![n] = v, ![port] = cache[port]]
     ELSE [held EXCEPT ![n] = v]

(* A failure before the device is configured leaves all as it was, one     *)
(* after it comes too late to undo anything.  A transmitter that was       *)
(* enabled is enabled again.                                               *)
SetCarrier(n, text) ==
  /\ Asked(n, Carriers)
  /\ \E v \in Scan(n[1], text) :
       \/ /\ held' \in Resent(Transmitter(n), cache, Tuned(n, v))
          /\ Answer(n, text, "Success")
       \/ /\ held' \in {held, Tuned(n, v)}
          /\ Answer(n, text, "Error")
  /\ UNCHANGED <<radio, cache, manual, plan>>

SetPort_CopyFirst(n, text) ==
  /\ Asked(n, {"RxPort"})
  /\ \E v \in Scan(n[1], text) :
       /\ cache' = [cache EXCEPT ![n] = v]
       /\ \/ Hold(n, v) /\ Answer(n, text, "Success")
          \/ UNCHANGED held /\ Answer(n, text, "Error")
  /\ UNCHANGED <<radio, manual, plan>>

(* The input port: the device first, then the copy.                        *)
SetPort(n, text) ==
  /\ Asked(n, {"RxPort"})
  /\ \E v \in Scan(n[1], text) :
       \/ /\ Hold(n, v)
          /\ cache' = [cache EXCEPT ![n] = v]
          /\ \E s \in {"Success", "Error"} : Answer(n, text, s)
       \/ /\ UNCHANGED <<held, cache>>
          /\ Answer(n, text, "Error")
  /\ UNCHANGED <<radio, manual, plan>>

SetDpd_NotInspected(n, text) ==
  /\ Asked(n, Dpd)
  /\ \E v \in Scan(n[1], text) :
       held' = [m \in Names |->
         CASE m = n -> v
           [] m[1] \in Dpd /\ m[2] = n[2] /\ m # n -> 0
           [] OTHER -> held[m]]
  /\ Answer(n, text, "Success")
  /\ UNCHANGED <<radio, cache, manual, plan>>

(* What a setting leaves that may fail anywhere and ends in enabling a     *)
(* transmitter that was enabled, even if it was not taken.                 *)
Attempted(n, v) ==
  UNION {Resent(Transmitter(n), cache, h) : h \in {held, [held EXCEPT ![n] = v]}}

(* A setting of the DPD: all are read from the device, one is changed, all *)
(* are written back.  Any of that may fail, and the status is dropped.     *)
SetDpd(n, text) ==
  /\ Asked(n, Dpd)
  /\ \E v \in Scan(n[1], text) : held' \in Attempted(n, v)
  /\ Answer(n, text, "Success")
  /\ UNCHANGED <<radio, cache, manual, plan>>

(* The delay of the external path: likewise.                               *)
SetPathDelay(n, text) ==
  /\ Asked(n, {"PathDelay"})
  /\ \E v \in Scan(n[1], text) : held' \in Attempted(n, v)
  /\ Answer(n, text, "Success")
  /\ UNCHANGED <<radio, cache, manual, plan>>

(* The gain index goes straight to the device.                             *)
SetGain(n, text) ==
  /\ Asked(n, {"Gain"})
  /\ \/ /\ \E v \in Scan(n[1], text) : Hold(n, v)
        /\ Answer(n, text, "Success")
     \/ /\ UNCHANGED held
        /\ Answer(n, text, "Error")
  /\ UNCHANGED <<radio, cache, manual, plan>>

(* A pattern or a data source: a register of the logic.                    *)
SetWord(n, text) ==
  /\ Asked(n, {"IqData", "IqPath"})
  /\ \E v \in Scan(n[1], text) : Hold(n, Sent(n[1], v))
  /\ Answer(n, text, "Success")
  /\ UNCHANGED <<radio, cache, manual, plan>>

(* A count: a register that is read back and compared.                     *)
SetCount(n, text) ==
  /\ Asked(n, Counts)
  /\ \E v \in Scan(n[1], text) :
       /\ Hold(n, Sent(n[1], v))
       /\ Answer(n, text, IF Sent(n[1], v) = v THEN "Success" ELSE "Error")
  /\ UNCHANGED <<radio, cache, manual, plan>>

(* A state of a channel.  The scan fills the lowest byte of a variable of  *)
(* four, uninitialised: a branch may be taken or none, whatever the number *)
(* was, and none leaves the status uninitialised as well.                  *)
SetState(n, text) ==
  /\ Asked(n, {"State"})
  /\ \/ /\ RfEnabled \in Scan("State", text)
        /\ held' \in Resent(Transmitter(n), cache, held)
        /\ Reply(n, "Success")
     \/ UNCHANGED held /\ \E s \in Statuses : Reply(n, s)
  /\ UNCHANGED <<radio, cache, manual, plan, believed>>

(* So does a name without a branch leave it.                               *)
SetUnbranched(n) ==
  /\ Asked(n, {"Rssi"})
  /\ \E s \in Statuses : Reply(n, s)
  /\ UNCHANGED <<radio, held, cache, manual, plan, believed>>

SetUnknown(n) ==
  /\ Asked(n, {"Unknown"})
  /\ Reply(n, "InvalidParameter")
  /\ UNCHANGED <<radio, held, cache, manual, plan, believed>>

-----------------------------------------------------------------------------
(* Loading a profile.                                                      *)

(* What the transceiver holds under a profile; the rest as it was.         *)
Loaded(p, h) ==
  [n \in Names |-> IF n[1] \in Device THEN Profile[p][n[1]] ELSE h[n]]

(* A load that fails leaves a transceiver in the middle of its set-up.     *)
HalfLoaded(h) ==
  [n \in Names |-> IF n[1] \in Device THEN Unset ELSE h[n]]

(* ConfigureProfile: the counts are written anew, and the calibration of   *)
(* the delays, which enables every transmitter for a while, may leave its  *)
(* data source on the ramp.                                                *)
Configured(copies, h) ==
  UNION {Resent(Channels, copies,
           [n \in Names |->
              CASE n[1] = "SsiEnable" -> Default["SsiEnable"]
                [] n[1] = "Disable" -> Forever
                [] n[1] = "IqPath" /\ n[2] \in left -> Ramp
                [] OTHER -> h[n]]) : left \in SUBSET {c \in Channels : <<"tx", c>> \in Enabled}}

(* The radio after a load: the profile by itself, or with ConfigureProfile,*)
(* which may fail before it has begun or after the counts.                 *)
AfterLoad(p, configure, copies, h) ==
  {[held |-> HalfLoaded(h), ok |-> FALSE]}
    \cup (IF configure
          THEN {[held |-> Loaded(p, h), ok |-> FALSE]} \cup
               {[held |-> c, ok |-> ok] : c \in Configured(copies, Loaded(p, h)), ok \in BOOLEAN}
          ELSE {[held |-> Loaded(p, h), ok |-> TRUE]})

(* What a load makes nobody's business any more: the transceiver's own     *)
(* settings and, with ConfigureProfile, the counts and the data sources.   *)
Forgotten(n, configure) ==
  n[1] \in Device \/ (configure /\ n[1] \in Counts \cup {"IqPath"})

(* DpdEnable: 1 loads the profile with DPD and leaves it at that, 0 loads  *)
(* the one without and configures it.  The ports' manual selection is a    *)
(* setting of the device that a profile turns off.                         *)
SetDpdEnable(n, text) ==
  /\ Asked(n, {"DpdEnable"})
  /\ \E v \in Scan("DpdEnable", text) :
       LET p == IF v = 1 THEN "rf1" ELSE "rf2"
           configure == v # 1
       IN \E after \in AfterLoad(p, configure, cache, held) :
            /\ held' = after.held
            /\ Reply(n, IF after.ok THEN "Success" ELSE "Error")
            /\ believed' = [m \in Names |->
                 IF Forgotten(m, configure) THEN Unset ELSE believed[m]]
  /\ manual' = FALSE
  /\ UNCHANGED <<radio, cache, plan>>

SetParam(n, text) ==
  \/ SetStored(n, text)
  \/ SetLoopBack(n, text)
  \/ SetCarrier(n, text)
  \/ SetPort(n, text)
  \/ SetDpd(n, text)
  \/ SetPathDelay(n, text)
  \/ SetGain(n, text)
  \/ SetWord(n, text)
  \/ SetCount(n, text)
  \/ SetState(n, text)
  \/ SetUnbranched(n)
  \/ SetUnknown(n)
  \/ SetDpdEnable(n, text)
  \/ Enable(n)

-----------------------------------------------------------------------------
(* Start-up.                                                               *)

(* The logic after its reset.                                              *)
Fresh ==
  [n \in Names |-> IF n[1] \in Logic THEN Default[n[1]] ELSE Unset]

(* The copies Adrv9001Init starts with.                                    *)
FreshCopies == [n \in Copies |-> Default[n[1]]]

(* Adrv9001_Initialize and Adrv9001Params_Initialize.  The copies get the  *)
(* values of Adrv9001Init and are sent by the calibration at most; a       *)
(* failure is printed and start-up goes on; nobody asks whether the ports' *)
(* manual selection was accepted.                                          *)
Initialize ==
  /\ radio = "off"
  /\ radio' = "up"
  /\ cache' = FreshCopies
  /\ \E after \in AfterLoad("rf1", TRUE, FreshCopies, Fresh) : held' = after.held
  /\ manual' \in BOOLEAN
  /\ believed' = [n \in Names |-> Unset]
  /\ UNCHANGED <<reply, plan>>

(* Before that.                                                            *)
Off ==
  /\ radio = "off"
  /\ held = Fresh
  /\ cache = FreshCopies
  /\ manual = FALSE
  /\ reply = NoReply
  /\ believed = [n \in Names |-> Unset]

Init ==
  /\ Off
  /\ plan \in Plans

Next ==
  \/ Initialize
  \/ \E n \in plan : \E text \in Typed[n[1]] \cup {Junk} : SetParam(n, text)

Spec == Init /\ [][Next]_vars

-----------------------------------------------------------------------------
(* Properties.                                                             *)

TypeOK ==
  /\ radio \in {"off", "up"}
  /\ held \in [Names -> Int \cup {Unset}]
  /\ \A c \in Channels :
       /\ held[<<"TxAttn", c>>] \in (0 .. MaxAttn) \cup {Unset}
       /\ held[<<"IqPath", c>>] \in 0 .. 7
  /\ cache \in [Copies -> Nat]
  /\ manual \in BOOLEAN
  /\ reply.status \in Statuses
  /\ plan \in Plans
  /\ believed \in [Names -> Int \cup {Unset}]

(* Numbers the parameter can take, as the documentation has them: 0 to 40  *)
(* dB, a data source of three bits.                                        *)
InRange(n, number) ==
  /\ n[1] = "TxAttn" => number <= 40000
  /\ n[1] = "IqPath" => number <= 7

(* Parameters whose "Success" can be relied on: not those whose setter's   *)
(* status is dropped, and not a transmitter the profile leaves out.        *)
Reported(n) ==
  /\ n[1] \notin Dpd \cup {"PathDelay"}
  /\ n[1] \in {"TxAttn", "TxBoost"} => <<"tx", n[2]>> \in Enabled

(* Floating point may cost an attenuation a thousandth of a dB.            *)
Agrees(n, value, number) ==
  IF n[1] = "TxAttn" THEN value \in {number - 1, number} ELSE value = number

(* A number in range that was set with "Success" is what the device or the *)
(* logic holds, until the parameter is set again or a profile is loaded;   *)
(* whatever else is set or enabled meanwhile, and however that fails.  So  *)
(* is what GetParam shows, where there is a copy to the last digit         *)
(* (params.c:80-530, adrv9001.c:818-966, 1218-1567, 1712-1716).            *)
BeliefIsHeld ==
  \A n \in Names :
    /\ believed[n] # Unset
    /\ InRange(n, believed[n])
    /\ Reported(n)
    => /\ Agrees(n, held[n], believed[n])
       /\ Shown(n) = IF n \in Copies THEN believed[n] ELSE held[n]

(* What GetParam shows parts from what is held only when a profile is      *)
(* loaded, or by a set of that very parameter that failed after its copy   *)
(* was written or whose number does not fit the device.  A port and a copy *)
(* that agree stay so whatever happens to the carrier, and so do an        *)
(* attenuation and its copy whenever the transmitter is enabled.           *)
Coherent(n) ==
  n \in Copies => held[n] # Unset /\ Agrees(n, held[n], cache[n])

Loading == reply.name \in {"DpdEnable"} \X Channels

PartsOnly ==
  radio = "up" /\ radio' = "up" =>
    \A n \in Copies :
      Coherent(n) /\ ~ Coherent(n)' =>
        \/ Loading'
        \/ /\ reply'.name = n
           /\ n[1] \in Stored
           /\ reply'.status = "Error" \/ ~ InRange(n, cache'[n])

CoherenceLostOnlyBy == [][PartsOnly]_vars

(* A receiver's carrier takes the input port along; what may enable a      *)
(* transmitter, its attenuation and boost.                                 *)
Brings(by, n) ==
  \/ n[1] = "RxPort" /\ by = <<"RxCarrier", n[2]>>
  \/ n[1] \in {"TxAttn", "TxBoost"} /\ n[2] \in Transmitter(by) /\ <<"tx", n[2]>> \in Enabled

(* A set changes no parameter but its own, with one exception: what was    *)
(* chosen before a profile was loaded, or by a set that failed, comes back *)
(* from the processor's copy: a receiver's input port with its carrier,    *)
(* the attenuation and boost of a transmitter with whatever enables it, a  *)
(* setting of its carrier, its delay or its DPD (adrv9001.c:1466-1473,     *)
(* 1489-1493, 1712-1716).                                                  *)
ChangesOnly ==
  radio = "up" /\ radio' = "up" =>
    \A n \in Names :
      held'[n] # held[n] =>
        \/ reply'.name = n
        \/ Loading' /\ Forgotten(n, TRUE)
        \/ Brings(reply'.name, n) /\ held'[n] = Sent(n[1], cache[n])

OnlyAsNamed == [][ChangesOnly]_vars
=============================================================================
