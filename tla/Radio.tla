-------------------------------- MODULE Radio --------------------------------
(***************************************************************************)
(* The radio control layer, adrv9001.c: what each call of the command line *)
(* does to the state of a transceiver channel, to the mode that says who   *)
(* controls it (SPI or the enable pin), to the port-switching register     *)
(* that drives the pin, and to the PA/LNA of its front end.                *)
(*                                                                         *)
(* All calls run on the command task, one at a time.  Beside it runs the   *)
(* transceiver: a channel in PIN mode follows its enable pin whenever it   *)
(* likes (PinFollow).  Every call of the transceiver library may fail.     *)
(*                                                                         *)
(* ToPrimed, ToCalibrated and ToRfEnabled are one step each: they look at  *)
(* the mode only, which nobody else writes.                                *)
(***************************************************************************)
EXTENDS Naturals

CONSTANTS
  Channels,      (* Tx1, Tx2, Rx1, Rx2                                     *)
  TxChannels,    (* those that transmit                                    *)
  EnabledPorts,  (* those in the profile's channel masks                   *)
  PinChannels,   (* those Adrv9001_Initialize is told to put in PIN mode   *)
  Number,        (* a channel's number, 1 or 2                             *)
  HwVer,         (* board version: 2, 3 or unknown                         *)
  LastPoint      (* the sweep's last delay setting: 63, counted from 0     *)

ASSUME RadioAssumption ==
  /\ TxChannels \subseteq Channels
  /\ EnabledPorts \subseteq Channels
  /\ PinChannels \subseteq Channels
  /\ Number \in [Channels -> {1, 2}]
  /\ LastPoint \in Nat

VARIABLES
  radio,        (* the channels: see Channel                               *)
  initialized,  (* Instance->Initialized                                   *)
  pins,         (* what the pin of each channel's PA or LNA is: see Pins   *)
  op,           (* the call being made, or the last one made               *)
  ch,           (* its channel                                             *)
  pc,           (* where it is; "idle" when it has returned                *)
  entry,        (* the channel when it was called, if the call has several *)
                (* steps; its state and mode are the locals State and mode *)
  prevDataSrc,  (* the local of TxSsiTest                                  *)
  point,        (* which delay setting the sweep is at                     *)
  todo,         (* channels this stage of ConfigureProfile has yet to do   *)
  status,       (* the call's return value                                 *)
  fault         (* some library call failed during it (history)            *)

vars == <<radio, initialized, pins, op, ch, pc, entry, prevDataSrc, point,
          todo, status, fault>>

States  == {"standby", "calibrated", "primed", "rf"}
Modes   == {"spi", "pin"}
Sources == {"dma", "pattern"}

Channel == [state   : States,   (* adi_adrv9001_ChannelState_e             *)
            mode    : Modes,    (* adi_adrv9001_ChannelEnableMode_e        *)
            ps      : BOOLEAN,  (* the channel's PS_ENABLE register        *)
            front   : BOOLEAN,  (* level written to its PA or LNA pin      *)
            testing : BOOLEAN,  (* SSI test mode is on                     *)
            source  : Sources]  (* what feeds a Tx channel's SSI           *)

Brackets == {"checked", "ignored", "reported"}
Sweeps   == {"sweep", "calibrate"}
Loads    == {"boot", "dpdOn", "dpdOff"}
Ops      == Brackets \cup Sweeps \cup Loads
              \cup {"none", "toPrimed", "toCalibrated", "toRfEnabled", "testMode"}

BracketPcs   == {"takeover", "unprime", "calibrate", "apply", "reprime", "repin", "reenable"}
SweepPcs     == {"delay", "prime", "arm", "enable", "check", "settle", "normal", "restore", "best"}
ConfigurePcs == {"load", "prepare", "tune", "modes", "pins"}

(* A PA or LNA pin is an input until start-up makes it an output; loading  *)
(* a profile makes it one again ("lost").  A pin that start-up took low    *)
(* although the enable pin keyed its channel is "parked", whether making   *)
(* it an output has worked or not.                                         *)
Pins == {"input", "output", "parked", "lost"}

Reset(c) == [state |-> "standby", mode |-> "spi", ps |-> FALSE,
             front |-> FALSE, testing |-> FALSE, source |-> "dma"]

Init ==
  /\ radio = [c \in Channels |-> Reset(c)]
  /\ initialized = FALSE /\ pins = [c \in Channels |-> "input"]
  /\ op = "boot" /\ ch \in Channels /\ pc = "load"
  /\ entry = Reset(ch) /\ prevDataSrc = "dma" /\ point = 0 /\ todo = {}
  /\ status = "ok" /\ fault = FALSE

-----------------------------------------------------------------------------
(* Outcomes: what a call may leave of a channel, and whether it succeeded. *)

Done(r)  == [now |-> r, ok |-> TRUE]
Fails(r) == [now |-> r, ok |-> FALSE]

HasPaPin(c) == HwVer = 3 \/ (HwVer = 2 /\ c \notin TxChannels)

(* The amplifier is on: its pin is an output, and high. *)
Powered(c) == radio[c].front /\ pins[c] = "output"

(* Rflan_Adrv9001StateCallback, always told RF_ENABLED, drives an Rx       *)
(* channel's LNA pin high; nobody looks at whether that worked.            *)
StateCallback(c, r) ==
  IF initialized /\ c \notin TxChannels THEN {r, [r EXCEPT !.front = TRUE]} ELSE {r}

(* Only the level is written, whatever the pin's direction is. *)
SetPaEnable(c, r, on) ==
  IF HasPaPin(c) THEN {Done([r EXCEPT !.front = on]), Fails(r)}
  ELSE IF HwVer = 2 THEN {Done(r)} ELSE {Fails(r)}

(* The transceiver library: a change of state is refused from the wrong    *)
(* state, and any call may fail and change nothing.                        *)
AdiMove(r, from, to) ==
  {Fails(r)} \cup (IF r.state \in from THEN {Done([r EXCEPT !.state = to])} ELSE {})

AdiSetMode(r, mode) == {Fails(r), Done([r EXCEPT !.mode = mode])}

AdiTestMode(r, on) == {Fails(r), Done([r EXCEPT !.testing = on])}

(* Mutated definitions, each placed before the one it replaces, are named  *)
(* <definition>_<what is wrong>; no behaviour of this module uses them.    *)
Switch_IgnoresPaFailure(c, r, from, to, on) ==
  UNION { IF o.ok
          THEN { Done([p.now EXCEPT !.ps = on]) : p \in SetPaEnable(c, o.now, on) }
          ELSE {o} : o \in IF r.mode = "spi" THEN AdiMove(r, from, to) ELSE {Done(r)} }

(* In PIN mode ToPrimed and ToRfEnabled do not ask for the state; in both  *)
(* modes they set the PA/LNA pin and then the register behind the enable   *)
(* pin, giving up at the first failure.                                    *)
Switch(c, r, from, to, on) ==
  UNION { IF o.ok
          THEN { IF p.ok THEN Done([p.now EXCEPT !.ps = on]) ELSE p :
                   p \in SetPaEnable(c, o.now, on) }
          ELSE {o} : o \in IF r.mode = "spi" THEN AdiMove(r, from, to) ELSE {Done(r)} }

ToPrimed(c, r) ==
  IF c \notin EnabledPorts THEN {Done(r)}
  ELSE {Fails(r)} \cup UNION { Switch(c, lit, {"calibrated", "primed", "rf"}, "primed", FALSE) :
                                 lit \in StateCallback(c, r) }

ToRfEnabled(c, r) ==
  IF c \notin EnabledPorts THEN {Done(r)}
  ELSE {Fails(r)} \cup UNION { Switch(c, lit, {"primed", "rf"}, "rf", TRUE) :
                                 lit \in StateCallback(c, r) }

ToCalibrated_StaysInPinMode(c, r) ==
  IF c \notin EnabledPorts THEN {Done(r)}
  ELSE {Fails(r)} \cup UNION { AdiMove(lit, {"calibrated", "primed", "rf"}, "calibrated") :
                                 lit \in StateCallback(c, r) }

ToCalibrated(c, r) ==
  IF c \notin EnabledPorts THEN {Done(r)}
  ELSE {Fails(r)} \cup UNION {
         UNION { IF o.ok THEN AdiMove(o.now, {"calibrated", "primed", "rf"}, "calibrated") ELSE {o} :
                   o \in IF r.mode = "pin" THEN AdiSetMode(lit, "spi") ELSE {Done(lit)} } :
         lit \in StateCallback(c, r) }

SetEnableMode(c, r, mode) ==
  IF c \notin EnabledPorts THEN {Done(r)} ELSE AdiSetMode(r, mode)

SetTestMode(c, r, on) ==
  UNION { IF o.ok THEN AdiTestMode(o.now, on) ELSE {o} : o \in ToPrimed(c, r) }

-----------------------------------------------------------------------------
(* How a step of a call ends.                                              *)

Put(c, r) == radio' = [radio EXCEPT ![c] = r]

(* Go on at next, or return the error. *)
Attempt(outcomes, next) ==
  \E o \in outcomes :
    /\ Put(ch, o.now)
    /\ pc' = IF o.ok THEN next ELSE "idle"
    /\ status' = IF o.ok THEN "ok" ELSE "err"
    /\ fault' = (fault \/ ~o.ok)

Skip(next) ==
  /\ pc' = next
  /\ UNCHANGED <<radio, status, fault>>

(* The locals of the sweep begin anew with every call. *)
NoSweep == prevDataSrc' = "dma" /\ point' = 0

(* A call on channel c begins; the reads at its top may fail. *)
Begin(call, c, at) ==
  /\ pc = "idle"
  /\ op' = call /\ ch' = c /\ entry' = radio[c]
  /\ \/ pc' = at     /\ status' = "ok"  /\ fault' = FALSE
     \/ pc' = "idle" /\ status' = "err" /\ fault' = TRUE
  /\ NoSweep
  /\ UNCHANGED <<radio, initialized, pins, todo>>

(* A call on channel c that is over in one step. *)
Call(call, c, outcomes) ==
  /\ pc = "idle"
  /\ op' = call /\ ch' = c /\ entry' = Reset(c)
  /\ \E o \in outcomes :
       /\ Put(c, o.now)
       /\ status' = IF o.ok THEN "ok" ELSE "err"
       /\ fault' = ~o.ok
  /\ NoSweep
  /\ UNCHANGED <<initialized, pins, pc, todo>>

locals == <<initialized, pins, op, ch, entry, prevDataSrc, point, todo>>

-----------------------------------------------------------------------------
(* The transceiver: in PIN mode a channel follows its enable pin.  The     *)
(* logic drives a Tx pin from the register, and an Rx pin always high.     *)

EnablePin(c) == c \in TxChannels => radio[c].ps

PinFollow(c) ==
  /\ c \in EnabledPorts /\ radio[c].mode = "pin"
  /\ \/ radio[c].state = "primed" /\ EnablePin(c)  /\ Put(c, [radio[c] EXCEPT !.state = "rf"])
     \/ radio[c].state = "rf"     /\ ~EnablePin(c) /\ Put(c, [radio[c] EXCEPT !.state = "primed"])
  /\ UNCHANGED <<locals, pc, status, fault>>

-----------------------------------------------------------------------------
(* Calls of one step.                                                      *)

CallToPrimed(c)     == Call("toPrimed", c, ToPrimed(c, radio[c]))
CallToCalibrated(c) == Call("toCalibrated", c, ToCalibrated(c, radio[c]))
CallToRfEnabled(c)  == Call("toRfEnabled", c, ToRfEnabled(c, radio[c]))
CallSetTestMode(c)  == \E on \in BOOLEAN : Call("testMode", c, SetTestMode(c, radio[c], on))

(* AxiAdrv9001_SetTxDataSrc, from the parameter table. *)
SetTxDataSrc(c) ==
  /\ pc = "idle" /\ c \in TxChannels
  /\ \E s \in Sources : Put(c, [radio[c] EXCEPT !.source = s])
  /\ op' = "none" /\ ch' = c /\ entry' = Reset(c) /\ status' = "ok" /\ fault' = FALSE
  /\ NoSweep
  /\ UNCHANGED <<initialized, pins, pc, todo>>

-----------------------------------------------------------------------------
(* Calls that need the channel calibrated: they take it there, apply a     *)
(* setting and put it back as it was.  They differ in what a failure to    *)
(* apply does: "checked" returns it at once, "ignored" drops it,           *)
(* "reported" returns it unless a later ToPrimed has overwritten it.       *)

Bracket(c) ==
  \E call \in Brackets :
    /\ call # "checked" => c \in TxChannels
    /\ Begin(call, c, "takeover")

TakeOver ==
  /\ pc = "takeover"
  /\ IF entry.mode = "pin" THEN Attempt(AdiSetMode(radio[ch], "spi"), "unprime") ELSE Skip("unprime")
  /\ UNCHANGED locals

Unprime ==
  /\ pc = "unprime"
  /\ IF entry.state = "rf" THEN Attempt(ToPrimed(ch, radio[ch]), "calibrate") ELSE Skip("calibrate")
  /\ UNCHANGED locals

Calibrate_OnlyIfPrimed ==
  /\ pc = "calibrate"
  /\ IF entry.state = "primed" THEN Attempt(ToCalibrated(ch, radio[ch]), "apply") ELSE Skip("apply")
  /\ UNCHANGED locals

Calibrate ==
  /\ pc = "calibrate"
  /\ IF entry.state # "calibrated" THEN Attempt(ToCalibrated(ch, radio[ch]), "apply") ELSE Skip("apply")
  /\ UNCHANGED locals

Apply ==
  /\ pc = "apply"
  /\ \/ pc' = "reprime" /\ status' = "ok" /\ UNCHANGED fault
     \/ /\ fault' = TRUE
        /\ pc' = IF op = "checked" THEN "idle" ELSE "reprime"
        /\ status' = IF op = "ignored" THEN "ok" ELSE "err"
  /\ UNCHANGED <<radio, locals>>

Reprime_OnlyIfEnabled ==
  /\ pc = "reprime"
  /\ IF entry.mode = "pin" \/ entry.state = "rf"
     THEN Attempt(ToPrimed(ch, radio[ch]), "repin") ELSE Skip("repin")
  /\ UNCHANGED locals

Reprime ==
  /\ pc = "reprime"
  /\ IF entry.mode = "pin" \/ entry.state \in {"primed", "rf"}
     THEN Attempt(ToPrimed(ch, radio[ch]), "repin") ELSE Skip("repin")
  /\ UNCHANGED locals

Repin ==
  /\ pc = "repin"
  /\ IF entry.mode = "pin" THEN Attempt(AdiSetMode(radio[ch], "pin"), "reenable") ELSE Skip("reenable")
  /\ UNCHANGED locals

Reenable ==
  /\ pc = "reenable"
  /\ IF entry.state = "rf" THEN Attempt(ToRfEnabled(ch, radio[ch]), "idle") ELSE Skip("idle")
  /\ UNCHANGED locals

-----------------------------------------------------------------------------
(* The SSI sweep: at every delay setting, send a test pattern over the     *)
(* channel and see whether it arrives.  ConfigureProfile runs it too, and  *)
(* goes on whatever it returned.                                           *)

Sweep(c) == \E call \in Sweeps :
  /\ pc = "idle"
  /\ op' = call /\ ch' = c /\ entry' = radio[c]
  /\ IF call = "calibrate" /\ c \notin EnabledPorts
     THEN pc' = "idle" /\ status' = "ok" /\ fault' = FALSE /\ UNCHANGED radio
     ELSE \E o \in {Fails(radio[c])} \cup SetEnableMode(c, radio[c], "spi") :
            /\ Put(c, o.now)
            /\ pc' = IF o.ok THEN "delay" ELSE "idle"
            /\ status' = IF o.ok THEN "ok" ELSE "err"
            /\ fault' = ~o.ok
  /\ NoSweep
  /\ UNCHANGED <<initialized, pins, todo>>

(* Where the sweep returns to, with or without an error. *)
Return ==
  /\ pc' = IF op \in Sweeps THEN "idle" ELSE IF todo = {} THEN "modes" ELSE "tune"
  /\ todo' = IF op \notin Sweeps /\ todo = {} THEN Channels ELSE todo

SweepStep(outcomes, next) ==
  \E o \in outcomes :
    /\ radio' = [radio EXCEPT ![ch] = o.now]
    /\ fault' = (fault \/ ~o.ok)
    /\ status' = IF o.ok THEN "ok" ELSE "err"
    /\ IF o.ok /\ next # "return" THEN pc' = next /\ UNCHANGED todo ELSE Return
  /\ UNCHANGED <<initialized, pins, op, ch, entry>>

(* SetSsiDelay is refused while the channel is RF-enabled. *)
SetSsiDelay(r) == {Fails(r)} \cup (IF r.state # "rf" THEN {Done(r)} ELSE {})

SetDelay ==
  /\ pc = "delay"
  /\ SweepStep(SetSsiDelay(radio[ch]), "prime")
  /\ UNCHANGED <<prevDataSrc, point>>

(* A failed test is a result of the sweep, not an error of it. *)
TestStep(outcomes, next, otherwise) ==
  /\ \E o \in outcomes :
       /\ Put(ch, o.now)
       /\ fault' = (fault \/ ~o.ok)
       /\ IF o.ok THEN pc' = next /\ UNCHANGED point
          ELSE /\ pc' = otherwise
               /\ point' = IF otherwise = "delay" THEN point + 1 ELSE point
  /\ UNCHANGED <<initialized, pins, op, ch, entry, todo, status>>

NextPoint_OffByOne == IF point > LastPoint THEN "normal" ELSE "delay"

NextPoint == IF point = LastPoint THEN "normal" ELSE "delay"

PrimeForTest ==
  /\ pc = "prime"
  /\ TestStep(ToPrimed(ch, radio[ch]), "arm", NextPoint)
  /\ prevDataSrc' = IF ch \in TxChannels THEN radio[ch].source ELSE prevDataSrc

Arm ==
  /\ pc = "arm"
  /\ TestStep(IF ch \in TxChannels THEN {Done([radio[ch] EXCEPT !.source = "pattern"])}
              ELSE AdiTestMode(radio[ch], TRUE), "enable", NextPoint)
  /\ UNCHANGED prevDataSrc

EnableForTest ==
  /\ pc = "enable"
  /\ TestStep(ToRfEnabled(ch, radio[ch]), "check", NextPoint)
  /\ UNCHANGED prevDataSrc

Check ==
  /\ pc = "check"
  /\ TestStep(IF ch \in TxChannels THEN AdiTestMode(radio[ch], TRUE) ELSE {Done(radio[ch])},
              "settle", "settle")
  /\ UNCHANGED prevDataSrc

Settle_KeepsPattern ==
  /\ pc = "settle"
  /\ \E o \in ToPrimed(ch, radio[ch]) :
       /\ Put(ch, o.now)
       /\ fault' = (fault \/ ~o.ok)
  /\ pc' = NextPoint
  /\ point' = IF point = LastPoint THEN point ELSE point + 1
  /\ UNCHANGED <<initialized, pins, op, ch, entry, prevDataSrc, todo, status>>

Settle ==
  /\ pc = "settle"
  /\ \E o \in ToPrimed(ch, radio[ch]) :
       /\ Put(ch, IF ch \in TxChannels THEN [o.now EXCEPT !.source = prevDataSrc] ELSE o.now)
       /\ fault' = (fault \/ ~o.ok)
  /\ pc' = NextPoint
  /\ point' = IF point = LastPoint THEN point ELSE point + 1
  /\ UNCHANGED <<initialized, pins, op, ch, entry, prevDataSrc, todo, status>>

(* The Rx and then the Tx test mode of this channel number are turned off. *)
Normal ==
  /\ pc = "normal"
  /\ \E off \in { {}, {c \in Channels \ TxChannels : Number[c] = Number[ch]},
                  {c \in Channels : Number[c] = Number[ch]} } :
       /\ radio' = [c \in Channels |-> IF c \in off THEN [radio[c] EXCEPT !.testing = FALSE] ELSE radio[c]]
       /\ \/ /\ off = {c \in Channels : Number[c] = Number[ch]}
             /\ pc' = "restore" /\ UNCHANGED <<todo, status, fault>>
          \/ Return /\ status' = "err" /\ fault' = TRUE
  /\ UNCHANGED <<initialized, pins, op, ch, entry, prevDataSrc, point>>

Restore ==
  /\ pc = "restore"
  /\ SweepStep(SetEnableMode(ch, radio[ch], entry.mode), IF op = "sweep" THEN "return" ELSE "best")
  /\ UNCHANGED <<prevDataSrc, point>>

(* FindBestSsiDelay, which may find none, and SetSsiDelay. *)
SetBest ==
  /\ pc = "best"
  /\ SweepStep(SetSsiDelay(radio[ch]), "return")
  /\ UNCHANGED <<prevDataSrc, point>>

-----------------------------------------------------------------------------
(* Loading a profile.  SetTxDpdEnable(true) only loads one; the boot and   *)
(* SetTxDpdEnable(false) go on to ConfigureProfile, stage by stage.  The   *)
(* code visits the channels of a stage in a fixed order, the model in any. *)

SetTxDpdEnable == \E call \in {"dpdOn", "dpdOff"} :
  /\ pc = "idle"
  /\ op' = call /\ entry' = Reset(ch) /\ pc' = "load" /\ status' = "ok" /\ fault' = FALSE
  /\ NoSweep
  /\ UNCHANGED <<radio, initialized, pins, ch, todo>>

(* Start-up goes on after its load, whatever that returned. *)
AfterLoad == IF op = "boot" THEN "pins" ELSE "idle"

(* The library resets the transceiver; the logic keeps its registers. *)
Loaded(c, state) ==
  [state |-> IF c \in EnabledPorts THEN state ELSE "standby", mode |-> "spi",
   ps |-> radio[c].ps, front |-> FALSE, testing |-> FALSE, source |-> radio[c].source]

(* The reset makes every analog pin an input.  Adrv9001_ResetbPinSet, in   *)
(* which the library ends it, makes those of one bank outputs: the pins of *)
(* board version 2 are among them.  Nobody looks at whether that worked.   *)
ResetPins == \E set \in BOOLEAN :
  pins' = [c \in Channels |-> IF set /\ HwVer = 2 /\ HasPaPin(c) THEN "output"
                              ELSE IF pins[c] = "input" THEN "input" ELSE "lost"]

Load ==
  /\ pc = "load"
  /\ ResetPins
  /\ \/ \E state \in {"standby", "calibrated"} :
          /\ radio' = [c \in Channels |-> Loaded(c, state)]
          /\ pc' = AfterLoad /\ status' = "err" /\ fault' = TRUE
          /\ UNCHANGED todo
     \/ /\ radio' = [c \in Channels |-> Loaded(c, "calibrated")]
        /\ pc' = IF op = "dpdOn" THEN "idle" ELSE "prepare"
        /\ todo' = IF op = "dpdOn" THEN todo ELSE Channels
        /\ UNCHANGED <<status, fault>>
  /\ UNCHANGED <<initialized, op, ch, entry, prevDataSrc, point>>

Stage(c, outcomes, next) ==
  /\ c \in todo
  /\ \E o \in outcomes :
       /\ Put(c, o.now)
       /\ pc' = IF ~o.ok THEN AfterLoad ELSE IF todo = {c} THEN next ELSE pc
       /\ todo' = IF ~o.ok THEN {} ELSE IF todo = {c} /\ next # AfterLoad THEN Channels ELSE todo \ {c}
       /\ status' = IF o.ok THEN "ok" ELSE "err"
       /\ fault' = (fault \/ ~o.ok)
  /\ UNCHANGED <<op, ch, entry, prevDataSrc, point>>

Prepare(c) ==
  /\ pc = "prepare"
  /\ Stage(c, ToPrimed(c, radio[c]), "tune")
  /\ UNCHANGED <<initialized, pins>>

Tune(c) ==
  /\ pc = "tune" /\ c \in todo
  /\ IF c \notin EnabledPorts
     THEN Stage(c, {Done(radio[c])}, "modes")
     ELSE /\ ch' = c /\ entry' = radio[c] /\ point' = 0
          /\ \E o \in {Fails(radio[c])} \cup AdiSetMode(radio[c], "spi") :
               /\ Put(c, o.now)
               /\ fault' = (fault \/ ~o.ok)
               /\ IF o.ok THEN pc' = "delay" /\ todo' = todo \ {c}
                  ELSE /\ pc' = IF todo = {c} THEN "modes" ELSE "tune"
                       /\ todo' = IF todo = {c} THEN Channels ELSE todo \ {c}
          /\ UNCHANGED <<op, prevDataSrc, status>>
  /\ UNCHANGED <<initialized, pins>>

SetModes(c) ==
  /\ pc = "modes"
  /\ Stage(c, SetEnableMode(c, radio[c], IF c \in PinChannels THEN "pin" ELSE "spi"), AfterLoad)
  /\ initialized' = (initialized \/ (pc' = AfterLoad /\ status' = "ok"))
  /\ UNCHANGED pins

(* Start-up makes the PA and LNA pins outputs, a bank of them at a time,   *)
(* and takes the LNAs (board version 2) or the PAs (3) low.  It looks at   *)
(* the result of none of these calls.                                      *)
SameBank(c, d) == HwVer = 2 \/ Number[c] = Number[d]

TakenLow == IF HwVer = 2 THEN Channels \ TxChannels ELSE IF HwVer = 3 THEN TxChannels ELSE {}

ConfigurePins ==
  /\ pc = "pins"
  /\ \E out \in SUBSET {c \in Channels : HasPaPin(c)}, low \in SUBSET TakenLow :
       /\ \A c \in out, d \in Channels : HasPaPin(d) /\ SameBank(c, d) => d \in out
       /\ radio' = [c \in Channels |-> IF c \in low THEN [radio[c] EXCEPT !.front = FALSE] ELSE radio[c]]
       /\ pins' = [c \in Channels |->
            IF c \in low /\ radio[c].mode = "pin" /\ radio[c].ps
            THEN "parked" ELSE IF c \in out /\ pins[c] = "input" THEN "output" ELSE pins[c]]
  /\ pc' = "idle"
  /\ UNCHANGED <<initialized, op, ch, entry, prevDataSrc, point, todo, status, fault>>

-----------------------------------------------------------------------------
Command(c) == CallToPrimed(c) \/ CallToCalibrated(c) \/ CallToRfEnabled(c) \/ CallSetTestMode(c)
                \/ SetTxDataSrc(c) \/ Bracket(c) \/ Sweep(c)

BracketStep == TakeOver \/ Unprime \/ Calibrate \/ Apply \/ Reprime \/ Repin \/ Reenable

SweepRun == SetDelay \/ PrimeForTest \/ Arm \/ EnableForTest \/ Check \/ Settle
              \/ Normal \/ Restore \/ SetBest

Configure(c) == Prepare(c) \/ Tune(c) \/ SetModes(c)

Next == SetTxDpdEnable \/ Load \/ ConfigurePins \/ BracketStep \/ SweepRun
          \/ \E c \in Channels : PinFollow(c) \/ Command(c) \/ Configure(c)

Spec == Init /\ [][Next]_vars

-----------------------------------------------------------------------------
(* Types: where a call can be, and that a sweep stays within its 64 delay  *)
(* settings (adrv9001.c:1941-1969).                                        *)
TypeOK ==
  /\ radio \in [Channels -> Channel]
  /\ initialized \in BOOLEAN
  /\ pins \in [Channels -> Pins]
  /\ op \in Ops
  /\ ch \in Channels
  /\ pc \in {"idle"} \cup BracketPcs \cup SweepPcs \cup ConfigurePcs
  /\ entry \in Channel
  /\ prevDataSrc \in Sources
  /\ point \in 0..LastPoint
  /\ todo \subseteq Channels
  /\ status \in {"ok", "err"}
  /\ fault \in BOOLEAN

(* A setting that the transceiver takes only in CALIBRATED is applied only *)
(* there, with nobody but the driver in control of the channel, whatever   *)
(* state and mode the call found it in and however stale its reading of    *)
(* the state was (adrv9001.c:605-625, 1440-1475).                          *)
ApplyOnlyCalibrated ==
  pc = "apply" /\ ch \in EnabledPorts =>
    radio[ch].state = "calibrated" /\ radio[ch].mode = "spi"

(* The enable pin can only move a channel between PRIMED and RF_ENABLED:   *)
(* the code never leaves one in PIN mode in another state, where the pin   *)
(* would do nothing (adrv9001.c:125-189, 629-633, 1979).                   *)
PinNeverCalibrated ==
  \A c \in EnabledPorts : radio[c].mode = "pin" => radio[c].state \in {"primed", "rf"}

(* While the pin keys a channel, its PA or LNA is on, as long as the pin   *)
(* of the PA or LNA is the output start-up made of it: the amplifier is    *)
(* switched before the register behind the enable pin, and no failure on   *)
(* the way parts the two (adrv9001.c:1651-1655, 1706-1710).  Start-up      *)
(* itself takes the PA of a channel low that a failed calibration left     *)
(* keyed ("parked"), and no load of a profile makes the pin of board       *)
(* version 3 an output again ("lost").                                     *)
KeyedWithFrontEnd ==
  \A c \in EnabledPorts :
    radio[c].mode = "pin" /\ radio[c].ps /\ HasPaPin(c) /\ pins[c] = "output" => Powered(c)

(* A call that took a channel to CALIBRATED and reports success has put    *)
(* back what it found there: the mode, the state, the pin's register and   *)
(* the level for the front end (adrv9001.c:623-641, 1477-1494).            *)
RestoredOnSuccess ==
  pc = "idle" /\ op \in Brackets /\ status = "ok" /\ ch \in EnabledPorts =>
    /\ radio[ch].mode = entry.mode
    /\ radio[ch].mode = "spi" => radio[ch].state = entry.state
    /\ entry.state \in {"primed", "rf"} =>
         /\ radio[ch].ps = (entry.state = "rf")
         /\ HasPaPin(ch) => radio[ch].front = (entry.state = "rf")

(* A sweep or calibration in which nothing failed leaves no test behind:   *)
(* not in the transceiver, not on the transmit data path, and the mode is  *)
(* the one it found (adrv9001.c:1888-1922, 1971-1980).                     *)
SweepCleansUp ==
  pc = "idle" /\ op \in Sweeps /\ ch \in EnabledPorts /\ ~fault =>
    /\ \A c \in Channels : Number[c] = Number[ch] => ~radio[c].testing
    /\ radio[ch].source = entry.source
    /\ radio[ch].mode = entry.mode

(* The front end of a receiver is powered only while it receives: once a   *)
(* call that nothing failed has returned, the LNA is on only in RF_ENABLED. *)
(* Adrv9001_ToCalibrated turns it on through the callback, which is told   *)
(* RF_ENABLED, and never off (adrv9001.c:1669-1671).                       *)
LnaOnOnlyWhileReceiving ==
  pc = "idle" /\ ~fault /\ ch \in EnabledPorts \ TxChannels
    /\ op \in {"toPrimed", "toCalibrated", "toRfEnabled"} =>
      (Powered(ch) => radio[ch].state = "rf")

(* A channel that was enabled has its PA or LNA on: Adrv9001_ToRfEnabled   *)
(* says "Set PA/LNA Enable" (adrv9001.c:1706) and reports success.  After a *)
(* load of a profile, which a set of Tx1DpdEnable is, the pin of board     *)
(* version 3 is an input, and the level written to it does nothing.        *)
EnabledWithFrontEnd ==
  pc = "idle" /\ op = "toRfEnabled" /\ status = "ok" /\ ch \in EnabledPorts /\ HasPaPin(ch) =>
    (pins[ch] \notin {"input", "parked"} => Powered(ch))
=============================================================================
