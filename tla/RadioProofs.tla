----------------------------- MODULE RadioProofs -----------------------------
(***************************************************************************)
(* What the radio control layer guarantees for every board version, every  *)
(* profile mask and any number of channels.                                *)
(*                                                                         *)
(* The properties are not inductive by themselves: that a channel may be   *)
(* given back to its pin depends on what every step since the call took it *)
(* away from the pin has left of it.  The invariant says, per place in a   *)
(* call, what is known of the call's channel (Bracketed, Swept) and of all *)
(* channels while a profile is being configured (Configured).              *)
(*                                                                         *)
(* That a sweep or calibration in which nothing failed leaves no trace is  *)
(* a second invariant on top of it, Tidy.  The last part is about SsiCal:  *)
(* the delay a calibration chooses from the results of its sweep.          *)
(***************************************************************************)
EXTENDS Radio, SsiCal, WellFoundedInduction, TLAPS

(* A channel that may be handed to its pin: the pin means something to it, *)
(* and if the pin is up the level for the amplifier is, too.               *)
Keyable(c, r) ==
  /\ r.state \in {"primed", "rf"}
  /\ r.ps /\ HasPaPin(c) /\ pins[c] # "parked" => r.front

(* What a successful ToPrimed and a successful ToRfEnabled leave. *)
Unkeyed(c, r) == ~r.ps /\ (HasPaPin(c) => ~r.front)
Keyed(c, r)   == r.ps /\ (HasPaPin(c) => r.front)

Located ==
  /\ pc \in BracketPcs => op \in Brackets
  /\ pc \in SweepPcs => op \in Sweeps \cup {"boot", "dpdOff"}
  /\ pc \in ConfigurePcs => op \in Loads
  /\ pc \in ConfigurePcs \ {"load"} => op \in {"boot", "dpdOff"}

PinSafe == \A c \in EnabledPorts : radio[c].mode = "pin" => Keyable(c, radio[c])

Bracketed ==
  ch \in EnabledPorts =>
    /\ pc \in BracketPcs /\ entry.mode = "pin" => entry.state \in {"primed", "rf"}
    /\ pc = "takeover" => radio[ch].mode = entry.mode
    /\ pc \in {"takeover", "unprime", "calibrate"} /\ entry.state = "standby" =>
         radio[ch].state = "standby"
    /\ pc \in {"unprime", "calibrate", "apply", "reprime", "repin"} => radio[ch].mode = "spi"
    /\ pc \in BracketPcs \ {"apply"} /\ entry.state = "calibrated" => radio[ch].state = "calibrated"
    /\ pc \in {"apply", "reprime"} => radio[ch].state = "calibrated"
    /\ pc \in {"apply", "reprime", "repin", "reenable"} => entry.state # "standby"
    /\ pc \in {"repin", "reenable"} /\ entry.state \in {"primed", "rf"} => Unkeyed(ch, radio[ch])
    /\ pc = "repin" /\ entry.state \in {"primed", "rf"} => radio[ch].state = "primed"
    /\ pc = "reenable" => radio[ch].mode = entry.mode
    /\ pc = "reenable" /\ entry.mode = "spi" /\ entry.state \in {"primed", "rf"} =>
         radio[ch].state = "primed"

Swept ==
  ch \in EnabledPorts =>
    /\ pc \in SweepPcs \ {"best"} => radio[ch].mode = "spi"
    /\ pc \in SweepPcs /\ entry.mode = "pin" => Keyable(ch, radio[ch])

Configured ==
  /\ pc \in SweepPcs \cup {"tune", "modes"} /\ op \in Loads =>
       \A c \in EnabledPorts : Keyable(c, radio[c])
  /\ pc = "prepare" => \A c \in EnabledPorts \ todo : Keyable(c, radio[c])

IInv == TypeOK /\ Located /\ PinSafe /\ Bracketed /\ Swept /\ Configured /\ RestoredOnSuccess

-----------------------------------------------------------------------------
(* What the calls leave of a channel.  A step of a channel's front end or  *)
(* of the library keeps it keyable; success says more.                     *)

(* What every outcome o of a state command on r has in common. *)
Keeps(c, r, o) ==
  /\ o.now \in Channel /\ o.ok \in BOOLEAN
  /\ Keyable(c, r) => Keyable(c, o.now)

LEMMA Outcomes ==
  ASSUME NEW r
  PROVE  /\ Done(r).now = r /\ Done(r).ok = TRUE
         /\ Fails(r).now = r /\ Fails(r).ok = FALSE
  BY DEF Done, Fails

(* What an assignment to one field of a channel leaves of the others. *)
LEMMA StateUpdate ==
  ASSUME NEW r \in Channel, NEW v \in States
  PROVE  LET q == [r EXCEPT !.state = v]
         IN  q \in Channel /\ q.state = v /\ q.mode = r.mode /\ q.ps = r.ps /\ q.front = r.front
  BY Zenon DEF Channel

LEMMA ModeUpdate ==
  ASSUME NEW r \in Channel, NEW v \in Modes
  PROVE  LET q == [r EXCEPT !.mode = v]
         IN  q \in Channel /\ q.mode = v /\ q.state = r.state /\ q.ps = r.ps /\ q.front = r.front
  BY Zenon DEF Channel

LEMMA PsUpdate ==
  ASSUME NEW r \in Channel, NEW v \in BOOLEAN
  PROVE  LET q == [r EXCEPT !.ps = v]
         IN  q \in Channel /\ q.ps = v /\ q.state = r.state /\ q.mode = r.mode /\ q.front = r.front
  BY Zenon DEF Channel

LEMMA FrontUpdate ==
  ASSUME NEW r \in Channel, NEW v \in BOOLEAN
  PROVE  LET q == [r EXCEPT !.front = v]
         IN  q \in Channel /\ q.front = v /\ q.state = r.state /\ q.mode = r.mode /\ q.ps = r.ps
  BY Zenon DEF Channel

LEMMA TestingUpdate ==
  ASSUME NEW r \in Channel, NEW v \in BOOLEAN
  PROVE  LET q == [r EXCEPT !.testing = v]
         IN  q \in Channel /\ q.testing = v /\ q.state = r.state /\ q.mode = r.mode /\ q.ps = r.ps /\ q.front = r.front
  BY Zenon DEF Channel

LEMMA SourceUpdate ==
  ASSUME NEW r \in Channel, NEW v \in Sources
  PROVE  LET q == [r EXCEPT !.source = v]
         IN  q \in Channel /\ q.source = v /\ q.state = r.state /\ q.mode = r.mode /\ q.ps = r.ps /\ q.front = r.front
  BY Zenon DEF Channel

LEMMA ChannelFields ==
  ASSUME NEW r \in Channel
  PROVE  /\ r.state \in States /\ r.mode \in Modes /\ r.ps \in BOOLEAN
         /\ r.front \in BOOLEAN /\ r.source \in Sources
  BY Zenon DEF Channel

LEMMA FrontOnlyUp ==
  ASSUME NEW c \in Channels, NEW r \in Channel, NEW lit \in StateCallback(c, r)
  PROVE  /\ lit \in Channel
         /\ lit.state = r.state /\ lit.mode = r.mode /\ lit.ps = r.ps
         /\ r.front => lit.front
<1>1. lit = r \/ lit = [r EXCEPT !.front = TRUE]
  BY DEF StateCallback
<1>2. QED
  BY <1>1, FrontUpdate

LEMMA PaOutcome ==
  ASSUME NEW c \in Channels, NEW r \in Channel, NEW on \in BOOLEAN, NEW o \in SetPaEnable(c, r, on)
  PROVE  /\ o.now \in Channel /\ o.ok \in BOOLEAN
         /\ o.now.state = r.state /\ o.now.mode = r.mode /\ o.now.ps = r.ps
         /\ ~o.ok => o.now = r
         /\ o.ok /\ HasPaPin(c) => o.now.front = on
<1> DEFINE up == [r EXCEPT !.front = on]
<1>1. up \in Channel /\ up.front = on /\ up.state = r.state /\ up.mode = r.mode /\ up.ps = r.ps
  BY FrontUpdate
<1>2. o = Done(up) \/ o = Fails(r) \/ (o = Done(r) /\ ~HasPaPin(c))
  BY Zenon DEF SetPaEnable
<1> HIDE DEF up
<1>3. QED
  BY <1>1, <1>2, Outcomes, ZenonT(30)

LEMMA MoveOutcome ==
  ASSUME NEW r \in Channel, NEW from, NEW to \in States, NEW o \in AdiMove(r, from, to)
  PROVE  /\ o.now \in Channel /\ o.ok \in BOOLEAN
         /\ o.now.mode = r.mode /\ o.now.ps = r.ps /\ o.now.front = r.front
         /\ ~o.ok => o.now = r
         /\ o.ok => o.now.state = to /\ r.state \in from
<1> DEFINE up == [r EXCEPT !.state = to]
<1>1. up \in Channel /\ up.state = to /\ up.mode = r.mode /\ up.ps = r.ps /\ up.front = r.front
  BY StateUpdate
<1>2. (o = Done(up) /\ r.state \in from) \/ o = Fails(r)
  BY Zenon DEF AdiMove
<1> HIDE DEF up
<1>3. QED
  BY <1>1, <1>2, Outcomes, ZenonT(30)

LEMMA ModeOutcome ==
  ASSUME NEW r \in Channel, NEW mode \in Modes, NEW o \in AdiSetMode(r, mode)
  PROVE  /\ o.now \in Channel /\ o.ok \in BOOLEAN
         /\ o.now.state = r.state /\ o.now.ps = r.ps /\ o.now.front = r.front
         /\ ~o.ok => o.now = r
         /\ o.ok => o.now.mode = mode
<1> DEFINE up == [r EXCEPT !.mode = mode]
<1>1. up \in Channel /\ up.mode = mode /\ up.state = r.state /\ up.ps = r.ps /\ up.front = r.front
  BY ModeUpdate
<1>2. o = Done(up) \/ o = Fails(r)
  BY Zenon DEF AdiSetMode
<1> HIDE DEF up
<1>3. QED
  BY <1>1, <1>2, Outcomes, ZenonT(30)

LEMMA TestOutcome ==
  ASSUME NEW r \in Channel, NEW on \in BOOLEAN, NEW o \in AdiTestMode(r, on)
  PROVE  /\ o.now \in Channel /\ o.ok \in BOOLEAN
         /\ o.now.state = r.state /\ o.now.mode = r.mode /\ o.now.ps = r.ps
         /\ o.now.front = r.front
<1> DEFINE up == [r EXCEPT !.testing = on]
<1>1. up \in Channel /\ up.testing = on /\ up.state = r.state /\ up.mode = r.mode /\ up.ps = r.ps /\ up.front = r.front
  BY TestingUpdate
<1>2. o = Done(up) \/ o = Fails(r)
  BY Zenon DEF AdiTestMode
<1> HIDE DEF up
<1>3. (o.now = up \/ o.now = r) /\ (o.ok = TRUE \/ o.ok = FALSE)
  BY <1>2, Outcomes
<1>4. QED
  BY <1>1, <1>3

(* The amplifier and the register move together or not at all. *)
Switched(c, r, to, on, o) ==
  /\ Keeps(c, r, o)
  /\ o.now.mode = r.mode
  /\ o.now.state \in {r.state, to}
  /\ r.mode = "pin" => o.now.state = r.state
  /\ o.ok => o.now.ps = on /\ (HasPaPin(c) => o.now.front = on)
  /\ o.ok /\ r.mode = "spi" => o.now.state = to

LEMMA SwitchOutcome ==
  ASSUME NEW c \in Channels, NEW r \in Channel, NEW from, NEW to \in {"primed", "rf"},
         NEW on \in BOOLEAN, NEW o \in Switch(c, r, from, to, on)
  PROVE  Switched(c, r, to, on, o)
<1> DEFINE Moved == IF r.mode = "spi" THEN AdiMove(r, from, to) ELSE {Done(r)}
<1>1. PICK m \in Moved : o \in IF m.ok THEN { IF p.ok THEN Done([p.now EXCEPT !.ps = on]) ELSE p :
                                                p \in SetPaEnable(c, m.now, on) }
                               ELSE {m}
  BY DEF Switch
<1>2. /\ m.now \in Channel /\ m.ok \in BOOLEAN
      /\ m.now.mode = r.mode /\ m.now.ps = r.ps /\ m.now.front = r.front
      /\ m.now.state \in {r.state, to}
      /\ r.mode = "pin" => m.now.state = r.state
      /\ m.ok /\ r.mode = "spi" => m.now.state = to
  <2>1. CASE r.mode = "spi"
    <3>1. m \in AdiMove(r, from, to)
      BY <2>1
    <3>2. to \in States
      BY DEF States
    <3>3. QED
      BY <2>1, <3>1, <3>2, MoveOutcome
  <2>2. CASE r.mode # "spi"
    <3>1. m = Done(r)
      BY <2>2
    <3>2. QED
      BY <2>2, <3>1, Outcomes
  <2>3. QED
    BY <2>1, <2>2
<1>3. CASE ~m.ok
  BY <1>1, <1>2, <1>3 DEF Switched, Keeps, Keyable
<1>4. CASE m.ok
  <2>1. PICK p \in SetPaEnable(c, m.now, on) : o = IF p.ok THEN Done([p.now EXCEPT !.ps = on]) ELSE p
    BY <1>1, <1>4
  <2>2. /\ p.now \in Channel /\ p.ok \in BOOLEAN
        /\ p.now.state = m.now.state /\ p.now.mode = m.now.mode /\ p.now.ps = m.now.ps
        /\ ~p.ok => p.now = m.now
        /\ p.ok /\ HasPaPin(c) => p.now.front = on
    BY <1>2, PaOutcome
  <2>3. CASE p.ok
    <3> DEFINE up == [p.now EXCEPT !.ps = on]
    <3>1. up \in Channel /\ up.ps = on /\ up.state = p.now.state /\ up.mode = p.now.mode
            /\ up.front = p.now.front
      BY <2>2, PsUpdate
    <3>2. o = Done(up)
      BY <2>1, <2>3
    <3> HIDE DEF up
    <3>3. o.now = up /\ o.ok = TRUE
      BY <3>2, Outcomes
    <3>4. QED
      BY <1>2, <1>4, <2>2, <2>3, <3>1, <3>3 DEF Switched, Keeps, Keyable
  <2>4. CASE ~p.ok
    BY <1>2, <2>1, <2>2, <2>4 DEF Switched, Keeps, Keyable
  <2>5. QED
    BY <2>2, <2>3, <2>4
<1>5. QED
  BY <1>2, <1>3, <1>4

(* ToPrimed and ToRfEnabled return early, or switch the channel. *)
LEMMA ToPrimedOutcome ==
  ASSUME NEW c \in Channels, NEW r \in Channel, NEW o \in ToPrimed(c, r)
  PROVE  /\ Keeps(c, r, o)
         /\ o.now.mode = r.mode
         /\ o.now.state \in {r.state, "primed"}
         /\ r.mode = "pin" => o.now.state = r.state
         /\ c \in EnabledPorts /\ o.ok => Unkeyed(c, o.now)
         /\ c \in EnabledPorts /\ o.ok /\ r.mode = "spi" => o.now.state = "primed"
<1>1. CASE \E lit \in StateCallback(c, r) :
               o \in Switch(c, lit, {"calibrated", "primed", "rf"}, "primed", FALSE)
  <2>1. PICK lit \in StateCallback(c, r) : o \in Switch(c, lit, {"calibrated", "primed", "rf"}, "primed", FALSE)
    BY <1>1
  <2>2. /\ lit \in Channel
        /\ lit.state = r.state /\ lit.mode = r.mode /\ lit.ps = r.ps
        /\ r.front => lit.front
    BY FrontOnlyUp
  <2>3. "primed" \in {"primed", "rf"} /\ FALSE \in BOOLEAN
    OBVIOUS
  <2>4. Switched(c, lit, "primed", FALSE, o)
    BY Zenon, <2>1, <2>2, <2>3, SwitchOutcome
  <2>5. QED
    BY <2>2, <2>4 DEF Switched, Keeps, Keyable, Unkeyed
<1>2. CASE o \in {Done(r), Fails(r)} /\ (c \in EnabledPorts => o = Fails(r))
  BY Zenon, <1>2, Outcomes DEF Keeps
<1>3. QED
  BY <1>1, <1>2 DEF ToPrimed

LEMMA ToRfEnabledOutcome ==
  ASSUME NEW c \in Channels, NEW r \in Channel, NEW o \in ToRfEnabled(c, r)
  PROVE  /\ Keeps(c, r, o)
         /\ o.now.mode = r.mode
         /\ c \in EnabledPorts /\ o.ok => Keyed(c, o.now)
         /\ c \in EnabledPorts /\ o.ok /\ r.mode = "spi" => o.now.state = "rf"
<1>1. CASE \E lit \in StateCallback(c, r) : o \in Switch(c, lit, {"primed", "rf"}, "rf", TRUE)
  <2>1. PICK lit \in StateCallback(c, r) : o \in Switch(c, lit, {"primed", "rf"}, "rf", TRUE)
    BY <1>1
  <2>2. /\ lit \in Channel
        /\ lit.state = r.state /\ lit.mode = r.mode /\ lit.ps = r.ps
        /\ r.front => lit.front
    BY FrontOnlyUp
  <2>3. "rf" \in {"primed", "rf"} /\ TRUE \in BOOLEAN
    OBVIOUS
  <2>4. Switched(c, lit, "rf", TRUE, o)
    BY Zenon, <2>1, <2>2, <2>3, SwitchOutcome
  <2>5. QED
    BY <2>2, <2>4 DEF Switched, Keeps, Keyable, Keyed
<1>2. CASE o \in {Done(r), Fails(r)} /\ (c \in EnabledPorts => o = Fails(r))
  BY Zenon, <1>2, Outcomes DEF Keeps
<1>3. QED
  BY <1>1, <1>2 DEF ToRfEnabled

(* A ToCalibrated that fails may have taken the channel from its pin, and  *)
(* leaves its state and register alone; one that succeeds has.             *)
LEMMA ToCalibratedOutcome ==
  ASSUME NEW c \in EnabledPorts, NEW r \in Channel, NEW o \in ToCalibrated(c, r)
  PROVE  /\ o.now \in Channel /\ o.ok \in BOOLEAN
         /\ r.mode = "spi" => o.now.mode = "spi"
         /\ o.now.mode = "pin" => (Keyable(c, r) => Keyable(c, o.now))
         /\ ~o.ok => o.now.state = r.state /\ (Keyable(c, r) => Keyable(c, o.now))
         /\ o.ok => o.now.mode = "spi" /\ o.now.state = "calibrated" /\ r.state # "standby"
<1> DEFINE Taken(lit) == IF r.mode = "pin" THEN AdiSetMode(lit, "spi") ELSE {Done(lit)}
           Move(q) == AdiMove(q, {"calibrated", "primed", "rf"}, "calibrated")
<1>1. CASE o = Fails(r)
  BY Zenon, <1>1, Outcomes
<1>2. CASE \E lit \in StateCallback(c, r) : \E m \in Taken(lit) :
              o \in IF m.ok THEN Move(m.now) ELSE {m}
  <2>0. PICK lit \in StateCallback(c, r) : \E m \in Taken(lit) : o \in IF m.ok THEN Move(m.now) ELSE {m}
    BY <1>2
  <2>1. PICK m \in Taken(lit) : o \in IF m.ok THEN Move(m.now) ELSE {m}
    BY <2>0
  <2>2. /\ lit \in Channel
        /\ lit.state = r.state /\ lit.mode = r.mode /\ lit.ps = r.ps
        /\ r.front => lit.front
    BY RadioAssumption, FrontOnlyUp
  <2>3. /\ m.now \in Channel /\ m.ok \in BOOLEAN
        /\ m.now.state = r.state /\ m.now.ps = r.ps /\ m.now.front = lit.front
        /\ ~m.ok => m.now = lit
        /\ m.ok => m.now.mode = "spi"
        /\ r.mode = "spi" => m.now.mode = "spi"
    <3>1. CASE r.mode = "pin"
      <4>1. m \in AdiSetMode(lit, "spi") /\ "spi" \in Modes
        BY <3>1 DEF Modes
      <4>2. QED
        BY <2>2, <3>1, <4>1, ModeOutcome
    <3>2. CASE r.mode # "pin"
      <4>1. m = Done(lit) /\ r.mode = "spi"
        BY <3>2 DEF Channel, Modes
      <4>2. QED
        BY Zenon, <2>2, <4>1, Outcomes
    <3>3. QED
      BY <3>1, <3>2
  <2>4. CASE ~m.ok
    BY <2>1, <2>2, <2>3, <2>4 DEF Keyable
  <2>5. CASE m.ok
    <3>1. o \in AdiMove(m.now, {"calibrated", "primed", "rf"}, "calibrated") /\ "calibrated" \in States
      BY <2>1, <2>5 DEF States
    <3>2. /\ o.now \in Channel /\ o.ok \in BOOLEAN
          /\ o.now.mode = m.now.mode /\ o.now.ps = m.now.ps /\ o.now.front = m.now.front
          /\ ~o.ok => o.now = m.now
          /\ o.ok => o.now.state = "calibrated" /\ m.now.state \in {"calibrated", "primed", "rf"}
      BY <2>3, <3>1, MoveOutcome
    <3>3. QED
      BY <2>2, <2>3, <2>5, <3>2 DEF Keyable
  <2>6. QED
    BY <2>3, <2>4, <2>5
<1>3. QED
  BY <1>1, <1>2 DEF ToCalibrated

LEMMA EnableModeOutcome ==
  ASSUME NEW c \in Channels, NEW r \in Channel, NEW mode \in Modes, NEW o \in SetEnableMode(c, r, mode)
  PROVE  /\ Keeps(c, r, o)
         /\ o.now.state = r.state
         /\ o.now.mode \in {r.mode, mode}
         /\ c \in EnabledPorts /\ o.ok => o.now.mode = mode
<1>1. CASE o = Done(r) /\ c \notin EnabledPorts
  BY Zenon, <1>1, Outcomes DEF Keeps
<1>2. CASE o \in AdiSetMode(r, mode)
  BY <1>2, ModeOutcome DEF Keeps, Keyable
<1>3. QED
  BY <1>1, <1>2 DEF SetEnableMode

LEMMA SetTestModeOutcome ==
  ASSUME NEW c \in Channels, NEW r \in Channel, NEW on \in BOOLEAN, NEW o \in SetTestMode(c, r, on)
  PROVE  Keeps(c, r, o) /\ o.now.mode = r.mode
<1>1. PICK p \in ToPrimed(c, r) : o \in IF p.ok THEN AdiTestMode(p.now, on) ELSE {p}
  BY DEF SetTestMode
<1>2. Keeps(c, r, p) /\ p.now.mode = r.mode
  BY ToPrimedOutcome
<1>3. CASE p.ok
  BY <1>1, <1>2, <1>3, TestOutcome DEF Keeps, Keyable
<1>4. CASE ~p.ok
  BY <1>1, <1>2, <1>4
<1>5. QED
  BY <1>2, <1>3, <1>4 DEF Keeps

-----------------------------------------------------------------------------
(* Steps that change one channel.                                          *)

LEMMA PutEffect ==
  ASSUME radio \in [Channels -> Channel], NEW c \in Channels, NEW now \in Channel, Put(c, now)
  PROVE  /\ radio' \in [Channels -> Channel]
         /\ radio'[c] = now
         /\ \A d \in Channels : d # c => radio'[d] = radio[d]
  BY DEF Put

LEMMA PutSafe ==
  ASSUME radio \in [Channels -> Channel], PinSafe, NEW c \in Channels, NEW now \in Channel,
         Put(c, now), c \in EnabledPorts /\ now.mode = "pin" => Keyable(c, now), UNCHANGED pins
  PROVE  PinSafe'
<1>1. ASSUME NEW d \in EnabledPorts, radio'[d].mode = "pin"
      PROVE  Keyable(d, radio'[d])
  BY <1>1, PutEffect, RadioAssumption DEF PinSafe
<1>2. QED
  BY <1>1 DEF PinSafe, Keyable, HasPaPin

(* Everything about a bracket step that does not depend on which it is. *)
LEMMA BracketFrame ==
  ASSUME IInv, pc \in BracketPcs, UNCHANGED locals,
         NEW now \in Channel, Put(ch, now),
         pc' \in BracketPcs \cup {"idle"}, status' \in {"ok", "err"}, fault' \in BOOLEAN,
         ch \in EnabledPorts /\ now.mode = "pin" => Keyable(ch, now),
         Bracketed', RestoredOnSuccess'
  PROVE  IInv'
<1>1. TypeOK
  BY DEF IInv
<1>2. TypeOK'
  BY <1>1, PutEffect DEF TypeOK, locals
<1>3. PinSafe'
  BY <1>1, PutSafe DEF IInv, TypeOK, locals
<1>4. Located'
  BY DEF IInv, Located, locals, BracketPcs, SweepPcs, ConfigurePcs
<1>5. Swept' /\ Configured'
  BY DEF Swept, Configured, BracketPcs, SweepPcs
<1>6. QED
  BY <1>2, <1>3, <1>4, <1>5 DEF IInv

(* A step that tries something and gives up if it fails: only what success *)
(* leaves has to be shown.                                                 *)
LEMMA BracketAttempt ==
  ASSUME IInv, pc \in BracketPcs, UNCHANGED locals, NEW outcomes, NEW next,
         Attempt(outcomes, next), next \in BracketPcs,
         \A o \in outcomes :
           /\ o.now \in Channel /\ o.ok \in BOOLEAN
           /\ ch \in EnabledPorts /\ o.now.mode = "pin" => Keyable(ch, o.now)
           /\ o.ok /\ Put(ch, o.now) /\ pc' = next => Bracketed'
  PROVE  IInv'
<1>1. PICK o \in outcomes :
        /\ Put(ch, o.now)
        /\ pc' = IF o.ok THEN next ELSE "idle"
        /\ status' = IF o.ok THEN "ok" ELSE "err"
        /\ fault' = (fault \/ ~o.ok)
  BY DEF Attempt
<1>2. /\ o.now \in Channel /\ o.ok \in BOOLEAN
      /\ ch \in EnabledPorts /\ o.now.mode = "pin" => Keyable(ch, o.now)
      /\ o.ok => Bracketed'
  BY <1>1
<1>3. pc' \in BracketPcs \cup {"idle"} /\ status' \in {"ok", "err"} /\ fault' \in BOOLEAN
  BY <1>1, <1>2
<1>4. RestoredOnSuccess'
  BY <1>1 DEF RestoredOnSuccess, BracketPcs
<1>5. Bracketed'
  <2>1. CASE o.ok
    BY <1>2, <2>1
  <2>2. CASE ~o.ok
    BY <1>1, <2>2 DEF Bracketed, BracketPcs
  <2>3. QED
    BY <1>2, <2>1, <2>2
<1>6. QED
  BY <1>1, <1>2, <1>3, <1>4, <1>5, BracketFrame

LEMMA BracketSkip ==
  ASSUME IInv, pc \in BracketPcs, UNCHANGED locals, NEW next, Skip(next), next \in BracketPcs, Bracketed'
  PROVE  IInv'
<1>1. /\ radio' = radio /\ pc' = next /\ status' = status /\ fault' = fault
  BY DEF Skip
<1>2. TypeOK'
  BY <1>1 DEF IInv, TypeOK, locals
<1>3. PinSafe'
  BY <1>1 DEF IInv, PinSafe, Keyable, HasPaPin, locals
<1>4. Located' /\ Swept' /\ Configured' /\ RestoredOnSuccess'
  BY <1>1 DEF IInv, Located, locals, Swept, Configured, RestoredOnSuccess, BracketPcs, SweepPcs, ConfigurePcs
<1>5. QED
  BY <1>2, <1>3, <1>4 DEF IInv

(* What the invariant gives a step of a bracket. *)
LEMMA BracketFacts ==
  ASSUME IInv
  PROVE  /\ ch \in Channels /\ radio \in [Channels -> Channel] /\ radio[ch] \in Channel
         /\ entry \in Channel /\ entry.mode \in Modes /\ entry.state \in States
         /\ radio[ch].ps \in BOOLEAN /\ radio[ch].front \in BOOLEAN
         /\ ch \in EnabledPorts /\ radio[ch].mode = "pin" => Keyable(ch, radio[ch])
<1>1. /\ ch \in Channels /\ radio \in [Channels -> Channel] /\ radio[ch] \in Channel /\ entry \in Channel
  BY DEF IInv, TypeOK
<1>2. QED
  BY <1>1, ChannelFields DEF IInv, PinSafe

LEMMA TakeOverStep == IInv /\ TakeOver => IInv'
<1> SUFFICES ASSUME IInv, TakeOver PROVE IInv'
  OBVIOUS
<1>1. pc = "takeover" /\ pc \in BracketPcs /\ "unprime" \in BracketPcs /\ UNCHANGED locals
  BY DEF TakeOver, BracketPcs
<1>2. Bracketed
  BY DEF IInv
<1>3. CASE entry.mode = "pin"
  <2>1. Attempt(AdiSetMode(radio[ch], "spi"), "unprime")
    BY <1>3 DEF TakeOver
  <2>2. ASSUME NEW o \in AdiSetMode(radio[ch], "spi")
        PROVE  /\ o.now \in Channel /\ o.ok \in BOOLEAN
               /\ ch \in EnabledPorts /\ o.now.mode = "pin" => Keyable(ch, o.now)
               /\ o.ok /\ Put(ch, o.now) /\ pc' = "unprime" => Bracketed'
    <3>1. /\ o.now \in Channel /\ o.ok \in BOOLEAN
          /\ o.now.state = radio[ch].state
          /\ ~o.ok => o.now = radio[ch]
          /\ o.ok => o.now.mode = "spi"
      BY BracketFacts, ModeOutcome DEF Modes
    <3>2. ASSUME o.ok, Put(ch, o.now), pc' = "unprime" PROVE Bracketed'
      <4>1. radio'[ch] = o.now
        BY <3>1, BracketFacts, PutEffect, <3>2
      <4>2. QED
        BY <3>1, <3>2, <4>1, <1>1, <1>2 DEF Bracketed, BracketPcs, locals
    <3>3. QED
      BY <3>1, <3>2, BracketFacts
  <2>3. QED
    BY <1>1, <2>1, <2>2, BracketAttempt
<1>4. CASE entry.mode # "pin"
  <2>1. Skip("unprime") /\ entry.mode = "spi"
    BY <1>4, BracketFacts DEF TakeOver, Modes
  <2>2. Bracketed'
    BY <1>1, <1>2, <2>1 DEF Bracketed, Skip, BracketPcs, locals
  <2>3. QED
    BY <1>1, <2>1, <2>2, BracketSkip
<1>5. QED
  BY <1>3, <1>4

(* A channel that is not in the profile is left alone. *)
LEMMA ToCalibratedTyped ==
  ASSUME NEW c \in Channels, NEW r \in Channel, NEW o \in ToCalibrated(c, r)
  PROVE  o.now \in Channel /\ o.ok \in BOOLEAN
<1>1. CASE c \in EnabledPorts
  BY <1>1, ToCalibratedOutcome
<1>2. CASE c \notin EnabledPorts
  <2>1. o = Done(r)
    BY <1>2 DEF ToCalibrated
  <2>2. QED
    BY <2>1, Outcomes
<1>3. QED
  BY <1>1, <1>2

LEMMA UnprimeStep == IInv /\ Unprime => IInv'
<1> SUFFICES ASSUME IInv, Unprime PROVE IInv'
  OBVIOUS
<1>1. pc = "unprime" /\ pc \in BracketPcs /\ "calibrate" \in BracketPcs /\ UNCHANGED locals
  BY DEF Unprime, BracketPcs
<1>2. Bracketed
  BY DEF IInv
<1>3. CASE entry.state = "rf"
  <2>1. Attempt(ToPrimed(ch, radio[ch]), "calibrate")
    BY <1>3 DEF Unprime
  <2>2. ASSUME NEW o \in ToPrimed(ch, radio[ch])
        PROVE  /\ o.now \in Channel /\ o.ok \in BOOLEAN
               /\ ch \in EnabledPorts /\ o.now.mode = "pin" => Keyable(ch, o.now)
               /\ o.ok /\ Put(ch, o.now) /\ pc' = "calibrate" => Bracketed'
    <3>1. /\ o.now \in Channel /\ o.ok \in BOOLEAN
          /\ Keyable(ch, radio[ch]) => Keyable(ch, o.now)
          /\ o.now.mode = radio[ch].mode
          /\ ch \in EnabledPorts /\ o.ok => Unkeyed(ch, o.now)
          /\ ch \in EnabledPorts /\ o.ok /\ radio[ch].mode = "spi" => o.now.state = "primed"
      BY BracketFacts, ToPrimedOutcome DEF Keeps
    <3>2. ASSUME o.ok, Put(ch, o.now), pc' = "calibrate" PROVE Bracketed'
      <4>1. radio'[ch] = o.now
        BY <3>1, BracketFacts, PutEffect, <3>2
      <4>2. QED
        BY <1>1, <1>2, <1>3, <3>1, <3>2, <4>1, BracketFacts
        DEF Bracketed, BracketPcs, locals, States, Unkeyed, HasPaPin, Keyable
    <3>3. QED
      BY <1>1, <1>2, <1>3, <3>1, <3>2, BracketFacts DEF Bracketed, BracketPcs, Keyable
  <2>3. QED
    BY <1>1, <2>1, <2>2, BracketAttempt
<1>4. CASE ~(entry.state = "rf")
  <2>1. Skip("calibrate")
    BY <1>4 DEF Unprime
  <2>2. Bracketed'
    BY <1>1, <1>2, <1>4, <2>1, BracketFacts
    DEF Bracketed, Skip, BracketPcs, locals, States, Modes, Unkeyed, HasPaPin
  <2>3. QED
    BY <1>1, <2>1, <2>2, BracketSkip
<1>5. QED
  BY <1>3, <1>4

LEMMA CalibrateStep == IInv /\ Calibrate => IInv'
<1> SUFFICES ASSUME IInv, Calibrate PROVE IInv'
  OBVIOUS
<1>1. pc = "calibrate" /\ pc \in BracketPcs /\ "apply" \in BracketPcs /\ UNCHANGED locals
  BY DEF Calibrate, BracketPcs
<1>2. Bracketed
  BY DEF IInv
<1>3. CASE entry.state # "calibrated"
  <2>1. Attempt(ToCalibrated(ch, radio[ch]), "apply")
    BY <1>3 DEF Calibrate
  <2>2. ASSUME NEW o \in ToCalibrated(ch, radio[ch])
        PROVE  /\ o.now \in Channel /\ o.ok \in BOOLEAN
               /\ ch \in EnabledPorts /\ o.now.mode = "pin" => Keyable(ch, o.now)
               /\ o.ok /\ Put(ch, o.now) /\ pc' = "apply" => Bracketed'
    <3>1. /\ o.now \in Channel /\ o.ok \in BOOLEAN
          /\ ch \in EnabledPorts => (radio[ch].mode = "spi" => o.now.mode = "spi")
          /\ ch \in EnabledPorts /\ o.ok =>
               o.now.mode = "spi" /\ o.now.state = "calibrated" /\ radio[ch].state # "standby"
      BY BracketFacts, ToCalibratedOutcome, ToCalibratedTyped
    <3>2. ASSUME o.ok, Put(ch, o.now), pc' = "apply" PROVE Bracketed'
      <4>1. radio'[ch] = o.now
        BY <3>1, BracketFacts, PutEffect, <3>2
      <4>2. QED
        BY <1>1, <1>2, <1>3, <3>1, <3>2, <4>1, BracketFacts
        DEF Bracketed, BracketPcs, locals, States, Unkeyed, HasPaPin, Keyable
    <3>3. QED
      BY <1>1, <1>2, <1>3, <3>1, <3>2, BracketFacts DEF Bracketed, BracketPcs, Keyable
  <2>3. QED
    BY <1>1, <2>1, <2>2, BracketAttempt
<1>4. CASE ~(entry.state # "calibrated")
  <2>1. Skip("apply")
    BY <1>4 DEF Calibrate
  <2>2. Bracketed'
    BY <1>1, <1>2, <1>4, <2>1, BracketFacts
    DEF Bracketed, Skip, BracketPcs, locals, States, Modes, Unkeyed, HasPaPin
  <2>3. QED
    BY <1>1, <2>1, <2>2, BracketSkip
<1>5. QED
  BY <1>3, <1>4

LEMMA ReprimeStep == IInv /\ Reprime => IInv'
<1> SUFFICES ASSUME IInv, Reprime PROVE IInv'
  OBVIOUS
<1>1. pc = "reprime" /\ pc \in BracketPcs /\ "repin" \in BracketPcs /\ UNCHANGED locals
  BY DEF Reprime, BracketPcs
<1>2. Bracketed
  BY DEF IInv
<1>3. CASE entry.mode = "pin" \/ entry.state \in {"primed", "rf"}
  <2>1. Attempt(ToPrimed(ch, radio[ch]), "repin")
    BY <1>3 DEF Reprime
  <2>2. ASSUME NEW o \in ToPrimed(ch, radio[ch])
        PROVE  /\ o.now \in Channel /\ o.ok \in BOOLEAN
               /\ ch \in EnabledPorts /\ o.now.mode = "pin" => Keyable(ch, o.now)
               /\ o.ok /\ Put(ch, o.now) /\ pc' = "repin" => Bracketed'
    <3>1. /\ o.now \in Channel /\ o.ok \in BOOLEAN
          /\ Keyable(ch, radio[ch]) => Keyable(ch, o.now)
          /\ o.now.mode = radio[ch].mode
          /\ ch \in EnabledPorts /\ o.ok => Unkeyed(ch, o.now)
          /\ ch \in EnabledPorts /\ o.ok /\ radio[ch].mode = "spi" => o.now.state = "primed"
      BY BracketFacts, ToPrimedOutcome DEF Keeps
    <3>2. ASSUME o.ok, Put(ch, o.now), pc' = "repin" PROVE Bracketed'
      <4>1. radio'[ch] = o.now
        BY <3>1, BracketFacts, PutEffect, <3>2
      <4>2. QED
        BY <1>1, <1>2, <1>3, <3>1, <3>2, <4>1, BracketFacts
        DEF Bracketed, BracketPcs, locals, States, Unkeyed, HasPaPin, Keyable
    <3>3. QED
      BY <1>1, <1>2, <1>3, <3>1, <3>2, BracketFacts DEF Bracketed, BracketPcs, Keyable
  <2>3. QED
    BY <1>1, <2>1, <2>2, BracketAttempt
<1>4. CASE ~(entry.mode = "pin" \/ entry.state \in {"primed", "rf"})
  <2>1. Skip("repin")
    BY <1>4 DEF Reprime
  <2>2. Bracketed'
    BY <1>1, <1>2, <1>4, <2>1, BracketFacts
    DEF Bracketed, Skip, BracketPcs, locals, States, Modes, Unkeyed, HasPaPin
  <2>3. QED
    BY <1>1, <2>1, <2>2, BracketSkip
<1>5. QED
  BY <1>3, <1>4

LEMMA RepinStep == IInv /\ Repin => IInv'
<1> SUFFICES ASSUME IInv, Repin PROVE IInv'
  OBVIOUS
<1>1. pc = "repin" /\ pc \in BracketPcs /\ "reenable" \in BracketPcs /\ UNCHANGED locals
  BY DEF Repin, BracketPcs
<1>2. Bracketed
  BY DEF IInv
<1>3. CASE entry.mode = "pin"
  <2>1. Attempt(AdiSetMode(radio[ch], "pin"), "reenable")
    BY <1>3 DEF Repin
  <2>2. ASSUME NEW o \in AdiSetMode(radio[ch], "pin")
        PROVE  /\ o.now \in Channel /\ o.ok \in BOOLEAN
               /\ ch \in EnabledPorts /\ o.now.mode = "pin" => Keyable(ch, o.now)
               /\ o.ok /\ Put(ch, o.now) /\ pc' = "reenable" => Bracketed'
    <3>1. /\ o.now \in Channel /\ o.ok \in BOOLEAN
          /\ o.now.state = radio[ch].state /\ o.now.ps = radio[ch].ps /\ o.now.front = radio[ch].front
          /\ o.now.ps \in BOOLEAN /\ o.now.front \in BOOLEAN
          /\ ~o.ok => o.now = radio[ch]
          /\ o.ok => o.now.mode = "pin"
      BY BracketFacts, ModeOutcome DEF Modes
    <3>2. ASSUME o.ok, Put(ch, o.now), pc' = "reenable" PROVE Bracketed'
      <4>1. radio'[ch] = o.now
        BY <3>1, BracketFacts, PutEffect, <3>2
      <4>2. QED
        BY <1>1, <1>2, <1>3, <3>1, <3>2, <4>1, BracketFacts
        DEF Bracketed, BracketPcs, locals, States, Unkeyed, HasPaPin, Keyable
    <3>3. QED
      BY <1>1, <1>2, <1>3, <3>1, <3>2, BracketFacts DEF Bracketed, BracketPcs, Keyable, Unkeyed
  <2>3. QED
    BY <1>1, <2>1, <2>2, BracketAttempt
<1>4. CASE ~(entry.mode = "pin")
  <2>1. Skip("reenable")
    BY <1>4 DEF Repin
  <2>2. Bracketed'
    BY <1>1, <1>2, <1>4, <2>1, BracketFacts
    DEF Bracketed, Skip, BracketPcs, locals, States, Modes, Unkeyed, HasPaPin
  <2>3. QED
    BY <1>1, <2>1, <2>2, BracketSkip
<1>5. QED
  BY <1>3, <1>4

LEMMA ApplyStep == IInv /\ Apply => IInv'
<1> SUFFICES ASSUME IInv, Apply PROVE IInv'
  OBVIOUS
<1>1. /\ pc = "apply" /\ UNCHANGED <<radio, locals>> /\ pc' \in {"reprime", "idle"}
      /\ pc' = "idle" => status' = "err" /\ op = "checked"
      /\ status' \in {"ok", "err"} /\ (fault' = fault \/ fault' = TRUE)
  BY DEF Apply
<1>2. TypeOK'
  BY <1>1 DEF IInv, TypeOK, locals, BracketPcs
<1>3. PinSafe'
  BY <1>1 DEF IInv, PinSafe, Keyable, HasPaPin, locals
<1>4. Bracketed'
  BY <1>1 DEF IInv, Bracketed, BracketPcs, locals
<1>5. Located' /\ Swept' /\ Configured' /\ RestoredOnSuccess'
  BY <1>1 DEF IInv, Located, locals, Swept, Configured, RestoredOnSuccess, BracketPcs, SweepPcs, ConfigurePcs
<1>6. QED
  BY <1>2, <1>3, <1>4, <1>5 DEF IInv

(* The last step: what it leaves is what the call found. *)
LEMMA ReenableStep == IInv /\ Reenable => IInv'
<1> SUFFICES ASSUME IInv, Reenable PROVE IInv'
  OBVIOUS
<1>1. pc = "reenable" /\ pc \in BracketPcs /\ UNCHANGED locals
  BY DEF Reenable, BracketPcs
<1>2. Bracketed /\ (pc \in BracketPcs => op \in Brackets)
  BY DEF IInv, Located
<1>3. CASE entry.state = "rf"
  <2>1. PICK o \in ToRfEnabled(ch, radio[ch]) :
          /\ Put(ch, o.now)
          /\ pc' = "idle"
          /\ status' = IF o.ok THEN "ok" ELSE "err"
          /\ fault' = (fault \/ ~o.ok)
    BY <1>3 DEF Reenable, Attempt
  <2>2. /\ o.now \in Channel /\ o.ok \in BOOLEAN
        /\ Keyable(ch, radio[ch]) => Keyable(ch, o.now)
        /\ o.now.mode = radio[ch].mode
        /\ ch \in EnabledPorts /\ o.ok => Keyed(ch, o.now)
        /\ ch \in EnabledPorts /\ o.ok /\ radio[ch].mode = "spi" => o.now.state = "rf"
    BY BracketFacts, ToRfEnabledOutcome DEF Keeps
  <2>3. radio'[ch] = o.now
    BY <2>1, <2>2, BracketFacts, PutEffect
  <2>4. RestoredOnSuccess'
    BY <1>1, <1>2, <1>3, <2>1, <2>2, <2>3 DEF RestoredOnSuccess, Bracketed, BracketPcs, locals, Keyed, HasPaPin
  <2>5. Bracketed'
    BY <2>1 DEF Bracketed, BracketPcs
  <2>6. fault' \in BOOLEAN
    BY <2>1
  <2>7. QED
    BY <1>1, <2>1, <2>2, <2>4, <2>5, <2>6, BracketFacts, BracketFrame
<1>4. CASE entry.state # "rf"
  <2>1. Skip("idle")
    BY <1>4 DEF Reenable
  <2>2. RestoredOnSuccess'
    <3>1. ASSUME ch \in EnabledPorts, entry.state = "primed"
          PROVE  radio[ch].ps = FALSE /\ (HasPaPin(ch) => radio[ch].front = FALSE)
      BY <1>1, <1>2, <3>1, BracketFacts DEF Bracketed, Unkeyed
    <3>2. ASSUME ch \in EnabledPorts
          PROVE  radio[ch].mode = entry.mode /\ (radio[ch].mode = "spi" => radio[ch].state = entry.state)
      BY <1>1, <1>2, <1>4, <3>2, BracketFacts DEF Bracketed, BracketPcs, States, Modes
    <3>3. QED
      BY <1>1, <1>4, <2>1, <3>1, <3>2 DEF RestoredOnSuccess, Skip, locals, HasPaPin
  <2>3. Bracketed'
    BY <2>1 DEF Bracketed, Skip, BracketPcs
  <2>4. TypeOK'
    BY <1>1, <2>1 DEF IInv, TypeOK, locals, Skip
  <2>5. PinSafe'
    BY <1>1, <2>1 DEF IInv, PinSafe, Skip, Keyable, HasPaPin, locals
  <2>6. Located' /\ Swept' /\ Configured'
    BY <2>1 DEF Located, Skip, Swept, Configured, BracketPcs, SweepPcs, ConfigurePcs
  <2>7. QED
    BY <2>2, <2>3, <2>4, <2>5, <2>6 DEF IInv
<1>5. QED
  BY <1>3, <1>4

LEMMA BracketStepSafe == IInv /\ BracketStep => IInv'
  BY TakeOverStep, UnprimeStep, CalibrateStep, ApplyStep, ReprimeStep, RepinStep, ReenableStep
  DEF BracketStep

-----------------------------------------------------------------------------
(* Steps of a sweep.  They keep a keyable channel keyable, so that a sweep *)
(* which found its channel in PIN mode may always give it back.            *)

(* Where a sweep can be after a step. *)
SweepGoes ==
  /\ pc' \in SweepPcs \cup {"idle", "modes", "tune"}
  /\ pc' = "idle" => op \in Sweeps
  /\ pc' \in {"modes", "tune"} => op \in {"boot", "dpdOff"}
  /\ todo' \subseteq Channels

LEMMA SweepFrame ==
  ASSUME IInv, pc \in SweepPcs, UNCHANGED <<initialized, pins, op, ch, entry>>,
         NEW now \in Channel, Put(ch, now), SweepGoes,
         prevDataSrc' \in Sources, point' \in 0..LastPoint,
         status' \in {"ok", "err"}, fault' \in BOOLEAN,
         Keyable(ch, radio[ch]) => Keyable(ch, now),
         ch \in EnabledPorts /\ now.mode = "pin" => Keyable(ch, now),
         ch \in EnabledPorts /\ pc' \in SweepPcs \ {"best"} => now.mode = "spi"
  PROVE  IInv'
<1>1. /\ radio' \in [Channels -> Channel] /\ radio'[ch] = now
      /\ \A d \in Channels : d # ch => radio'[d] = radio[d]
  BY PutEffect DEF IInv, TypeOK
<1>2. TypeOK'
  BY <1>1 DEF IInv, TypeOK, SweepGoes, SweepPcs, ConfigurePcs
<1>3. PinSafe'
  BY PutSafe DEF IInv, TypeOK
<1>4. op \in Sweeps \cup {"boot", "dpdOff"}
  BY DEF IInv, Located
<1>5. Located'
  BY <1>4 DEF Located, SweepGoes, SweepPcs, BracketPcs, ConfigurePcs, Sweeps, Loads
<1>6. Bracketed'
  BY DEF Bracketed, SweepGoes, SweepPcs, BracketPcs
<1>7. RestoredOnSuccess'
  BY <1>4 DEF RestoredOnSuccess, Sweeps, Brackets
<1>8. Swept'
  BY <1>1 DEF IInv, Swept, Keyable, HasPaPin
<1>9. Configured'
  <2>1. pc' # "prepare"
    BY DEF SweepGoes, SweepPcs
  <2>2. ASSUME op' \in Loads, NEW c \in EnabledPorts PROVE Keyable(c, radio'[c])
    <3>1. Keyable(c, radio[c])
      BY <2>2 DEF IInv, Configured
    <3>2. QED
      BY <1>1, <3>1, RadioAssumption
  <2>3. QED
    BY <2>1, <2>2 DEF Configured, Keyable, HasPaPin
<1>10. QED
  BY <1>2, <1>3, <1>5, <1>6, <1>7, <1>8, <1>9 DEF IInv

(* What the invariant gives a step of a sweep. *)
LEMMA SweepFacts ==
  ASSUME IInv, pc \in SweepPcs
  PROVE  /\ ch \in Channels /\ radio \in [Channels -> Channel] /\ radio[ch] \in Channel
         /\ radio[ch].source \in Sources
         /\ entry \in Channel /\ entry.mode \in Modes
         /\ prevDataSrc \in Sources /\ point \in 0..LastPoint /\ todo \subseteq Channels
         /\ status \in {"ok", "err"} /\ fault \in BOOLEAN
         /\ op \in Sweeps \cup {"boot", "dpdOff"}
         /\ ch \in EnabledPorts /\ pc # "best" => radio[ch].mode = "spi"
         /\ ch \in EnabledPorts /\ entry.mode = "pin" => Keyable(ch, radio[ch])
         /\ ch \in EnabledPorts /\ radio[ch].mode = "pin" => Keyable(ch, radio[ch])
<1>1. /\ ch \in Channels /\ radio \in [Channels -> Channel] /\ radio[ch] \in Channel /\ entry \in Channel
      /\ prevDataSrc \in Sources /\ point \in 0..LastPoint /\ todo \subseteq Channels
      /\ status \in {"ok", "err"} /\ fault \in BOOLEAN
  BY DEF IInv, TypeOK
<1>2. QED
  BY <1>1, ChannelFields DEF IInv, PinSafe, Located, Swept

(* A step of the sweep that may end it. *)
LEMMA SweepStepSafe ==
  ASSUME IInv, pc \in SweepPcs, UNCHANGED <<prevDataSrc, point>>, NEW outcomes, NEW next,
         SweepStep(outcomes, next), next \in SweepPcs \cup {"return"},
         \A o \in outcomes :
           /\ o.now \in Channel /\ o.ok \in BOOLEAN
           /\ Keyable(ch, radio[ch]) => Keyable(ch, o.now)
           /\ ch \in EnabledPorts /\ o.now.mode = "pin" => Keyable(ch, o.now)
           /\ ch \in EnabledPorts /\ next \notin {"best", "return"} /\ o.ok => o.now.mode = "spi"
  PROVE  IInv'
<1>1. PICK o \in outcomes :
        /\ Put(ch, o.now)
        /\ fault' = (fault \/ ~o.ok)
        /\ status' = IF o.ok THEN "ok" ELSE "err"
        /\ IF o.ok /\ next # "return" THEN pc' = next /\ UNCHANGED todo ELSE Return
  BY DEF SweepStep, Put
<1>2. UNCHANGED <<initialized, pins, op, ch, entry>>
  BY DEF SweepStep
<1>3. /\ o.now \in Channel /\ o.ok \in BOOLEAN
      /\ Keyable(ch, radio[ch]) => Keyable(ch, o.now)
      /\ ch \in EnabledPorts /\ o.now.mode = "pin" => Keyable(ch, o.now)
      /\ ch \in EnabledPorts /\ next \notin {"best", "return"} /\ o.ok => o.now.mode = "spi"
  BY <1>1
<1>4. SweepGoes
  BY <1>1, SweepFacts DEF SweepGoes, Return, SweepPcs, Sweeps
<1>5. ch \in EnabledPorts /\ pc' \in SweepPcs \ {"best"} => o.now.mode = "spi"
  BY <1>1, <1>3 DEF Return, SweepPcs
<1>6. /\ prevDataSrc' \in Sources /\ point' \in 0..LastPoint
      /\ status' \in {"ok", "err"} /\ fault' \in BOOLEAN
  BY <1>1, SweepFacts
<1>7. QED
  BY <1>1, <1>2, <1>3, <1>4, <1>5, <1>6, SweepFrame

(* A step of the sweep whose failure is a result. *)
LEMMA TestStepSafe ==
  ASSUME IInv, pc \in SweepPcs, prevDataSrc' \in Sources, NEW outcomes, NEW next, NEW otherwise,
         TestStep(outcomes, next, otherwise),
         next \in SweepPcs \ {"best"}, otherwise \in {NextPoint, "settle"},
         \A o \in outcomes :
           /\ o.now \in Channel /\ o.ok \in BOOLEAN
           /\ Keyable(ch, radio[ch]) => Keyable(ch, o.now)
           /\ ch \in EnabledPorts => o.now.mode = "spi"
  PROVE  IInv'
<1>1. PICK o \in outcomes :
        /\ Put(ch, o.now)
        /\ fault' = (fault \/ ~o.ok)
        /\ IF o.ok THEN pc' = next /\ UNCHANGED point
           ELSE /\ pc' = otherwise
                /\ point' = IF otherwise = "delay" THEN point + 1 ELSE point
  BY DEF TestStep
<1>2. UNCHANGED <<initialized, pins, op, ch, entry, todo, status>>
  BY DEF TestStep
<1>3. /\ o.now \in Channel /\ o.ok \in BOOLEAN
      /\ Keyable(ch, radio[ch]) => Keyable(ch, o.now)
      /\ ch \in EnabledPorts => o.now.mode = "spi"
  BY <1>1
<1>4. SweepGoes
  BY <1>1, <1>2, SweepFacts DEF SweepGoes, SweepPcs, NextPoint
<1>5. point' \in 0..LastPoint
  BY <1>1, SweepFacts, RadioAssumption DEF NextPoint
<1>6. status' \in {"ok", "err"} /\ fault' \in BOOLEAN
  BY <1>1, <1>2, SweepFacts
<1>7. QED
  BY <1>1, <1>2, <1>3, <1>4, <1>5, <1>6, SweepFrame

(* SetSsiDelay changes nothing the model of a channel shows. *)
LEMMA DelayOutcome ==
  ASSUME NEW r \in Channel, NEW o \in SetSsiDelay(r)
  PROVE  o.now = r /\ o.ok \in BOOLEAN
<1>1. o = Done(r) \/ o = Fails(r)
  BY DEF SetSsiDelay
<1>2. QED
  BY <1>1, Outcomes

LEMMA SetDelayStep == IInv /\ SetDelay => IInv'
<1> SUFFICES ASSUME IInv, SetDelay PROVE IInv'
  OBVIOUS
<1>1. pc = "delay" /\ pc \in SweepPcs /\ "prime" \in SweepPcs \cup {"return"}
  BY DEF SetDelay, SweepPcs
<1>2. SweepStep(SetSsiDelay(radio[ch]), "prime") /\ UNCHANGED <<prevDataSrc, point>>
  BY DEF SetDelay
<1>3. ASSUME NEW o \in SetSsiDelay(radio[ch])
      PROVE  /\ o.now = radio[ch] /\ o.ok \in BOOLEAN
             /\ o.now \in Channel /\ (ch \in EnabledPorts => o.now.mode = "spi")
  BY <1>1, SweepFacts, DelayOutcome
<1>4. QED
  BY <1>1, <1>2, <1>3, SweepFacts, SweepStepSafe

LEMMA SetBestStep == IInv /\ SetBest => IInv'
<1> SUFFICES ASSUME IInv, SetBest PROVE IInv'
  OBVIOUS
<1>1. pc = "best" /\ pc \in SweepPcs
  BY DEF SetBest, SweepPcs
<1>2. SweepStep(SetSsiDelay(radio[ch]), "return") /\ UNCHANGED <<prevDataSrc, point>>
  BY DEF SetBest
<1>3. ASSUME NEW o \in SetSsiDelay(radio[ch])
      PROVE  o.now = radio[ch] /\ o.ok \in BOOLEAN /\ o.now \in Channel
  BY <1>1, SweepFacts, DelayOutcome
<1>4. QED
  BY <1>1, <1>2, <1>3, SweepFacts, SweepStepSafe

(* The channel is given back to the mode it had: if that was PIN mode it   *)
(* is still keyable, whatever the sweep went through.                      *)
LEMMA RestoreStep == IInv /\ Restore => IInv'
<1> SUFFICES ASSUME IInv, Restore PROVE IInv'
  OBVIOUS
<1> DEFINE next == IF op = "sweep" THEN "return" ELSE "best"
<1>1. pc = "restore" /\ pc \in SweepPcs /\ next \in SweepPcs \cup {"return"} /\ next \in {"best", "return"}
  BY DEF Restore, SweepPcs
<1>2. SweepStep(SetEnableMode(ch, radio[ch], entry.mode), next) /\ UNCHANGED <<prevDataSrc, point>>
  BY DEF Restore
<1> HIDE DEF next
<1>3. ASSUME NEW o \in SetEnableMode(ch, radio[ch], entry.mode)
      PROVE  /\ o.now \in Channel /\ o.ok \in BOOLEAN
             /\ Keyable(ch, radio[ch]) => Keyable(ch, o.now)
             /\ ch \in EnabledPorts /\ o.now.mode = "pin" => Keyable(ch, o.now)
  <2>1. /\ Keeps(ch, radio[ch], o)
        /\ o.now.mode \in {radio[ch].mode, entry.mode}
    BY <1>1, SweepFacts, EnableModeOutcome
  <2>2. QED
    BY <2>1, <1>1, SweepFacts DEF Keeps
<1>4. QED
  BY <1>1, <1>2, <1>3, SweepStepSafe

LEMMA PrimeForTestStep == IInv /\ PrimeForTest => IInv'
<1> SUFFICES ASSUME IInv, PrimeForTest PROVE IInv'
  OBVIOUS
<1>1. pc = "prime" /\ pc \in SweepPcs /\ "arm" \in SweepPcs \ {"best"}
  BY DEF PrimeForTest, SweepPcs
<1>2. TestStep(ToPrimed(ch, radio[ch]), "arm", NextPoint)
  BY DEF PrimeForTest
<1>3. prevDataSrc' \in Sources
  BY <1>1, SweepFacts DEF PrimeForTest
<1>4. ASSUME NEW o \in ToPrimed(ch, radio[ch])
      PROVE  /\ o.now \in Channel /\ o.ok \in BOOLEAN
             /\ Keyable(ch, radio[ch]) => Keyable(ch, o.now)
             /\ ch \in EnabledPorts => o.now.mode = "spi"
  BY <1>1, SweepFacts, ToPrimedOutcome DEF Keeps
<1>5. QED
  BY <1>1, <1>2, <1>3, <1>4, TestStepSafe

LEMMA EnableForTestStep == IInv /\ EnableForTest => IInv'
<1> SUFFICES ASSUME IInv, EnableForTest PROVE IInv'
  OBVIOUS
<1>1. pc = "enable" /\ pc \in SweepPcs /\ "check" \in SweepPcs \ {"best"}
  BY DEF EnableForTest, SweepPcs
<1>2. TestStep(ToRfEnabled(ch, radio[ch]), "check", NextPoint) /\ UNCHANGED prevDataSrc
  BY DEF EnableForTest
<1>3. ASSUME NEW o \in ToRfEnabled(ch, radio[ch])
      PROVE  /\ o.now \in Channel /\ o.ok \in BOOLEAN
             /\ Keyable(ch, radio[ch]) => Keyable(ch, o.now)
             /\ ch \in EnabledPorts => o.now.mode = "spi"
  BY <1>1, SweepFacts, ToRfEnabledOutcome DEF Keeps
<1>4. QED
  BY <1>1, <1>2, <1>3, SweepFacts, TestStepSafe

(* The test pattern and the test mode do not touch state, mode or pin. *)
LEMMA PatternOutcome ==
  ASSUME NEW c \in Channels, NEW r \in Channel, NEW o, NEW v \in Sources,
         o = Done([r EXCEPT !.source = v]) \/ o = Done(r) \/ o \in AdiTestMode(r, TRUE)
  PROVE  Keeps(c, r, o) /\ o.now.mode = r.mode
<1>1. CASE o \in AdiTestMode(r, TRUE)
  <2>1. TRUE \in BOOLEAN
    OBVIOUS
  <2>2. /\ o.now \in Channel /\ o.ok \in BOOLEAN
        /\ o.now.state = r.state /\ o.now.mode = r.mode /\ o.now.ps = r.ps
        /\ o.now.front = r.front
    BY Zenon, <1>1, <2>1, TestOutcome
  <2>3. QED
    BY <2>2 DEF Keeps, Keyable
<1>2. CASE o = Done([r EXCEPT !.source = v]) \/ o = Done(r)
  <2> DEFINE up == [r EXCEPT !.source = v]
  <2>1. up \in Channel /\ up.state = r.state /\ up.mode = r.mode /\ up.ps = r.ps /\ up.front = r.front
    BY SourceUpdate
  <2>2. o = Done(up) \/ o = Done(r)
    BY <1>2
  <2> HIDE DEF up
  <2>3. QED
    BY <2>1, <2>2, Outcomes DEF Keeps, Keyable
<1>3. QED
  BY <1>1, <1>2

LEMMA ArmStep == IInv /\ Arm => IInv'
<1> SUFFICES ASSUME IInv, Arm PROVE IInv'
  OBVIOUS
<1> DEFINE outcomes == IF ch \in TxChannels THEN {Done([radio[ch] EXCEPT !.source = "pattern"])}
                       ELSE AdiTestMode(radio[ch], TRUE)
<1>1. pc = "arm" /\ pc \in SweepPcs /\ "enable" \in SweepPcs \ {"best"} /\ "pattern" \in Sources
  BY DEF Arm, SweepPcs, Sources
<1>2. TestStep(outcomes, "enable", NextPoint) /\ UNCHANGED prevDataSrc
  BY DEF Arm
<1>3. ASSUME NEW o \in outcomes
      PROVE  /\ o.now \in Channel /\ o.ok \in BOOLEAN
             /\ Keyable(ch, radio[ch]) => Keyable(ch, o.now)
             /\ ch \in EnabledPorts => o.now.mode = "spi"
  <2>1. o = Done([radio[ch] EXCEPT !.source = "pattern"]) \/ o \in AdiTestMode(radio[ch], TRUE)
    BY Zenon
  <2>2. Keeps(ch, radio[ch], o) /\ o.now.mode = radio[ch].mode
    BY Zenon, <1>1, <2>1, SweepFacts, PatternOutcome
  <2>3. QED
    BY <1>1, <2>2, SweepFacts DEF Keeps
<1> HIDE DEF outcomes
<1>4. QED
  BY <1>1, <1>2, <1>3, SweepFacts, TestStepSafe

LEMMA CheckStep == IInv /\ Check => IInv'
<1> SUFFICES ASSUME IInv, Check PROVE IInv'
  OBVIOUS
<1> DEFINE outcomes == IF ch \in TxChannels THEN AdiTestMode(radio[ch], TRUE) ELSE {Done(radio[ch])}
<1>1. pc = "check" /\ pc \in SweepPcs /\ "settle" \in SweepPcs \ {"best"} /\ "pattern" \in Sources
  BY DEF Check, SweepPcs, Sources
<1>2. TestStep(outcomes, "settle", "settle") /\ UNCHANGED prevDataSrc
  BY DEF Check
<1>3. ASSUME NEW o \in outcomes
      PROVE  /\ o.now \in Channel /\ o.ok \in BOOLEAN
             /\ Keyable(ch, radio[ch]) => Keyable(ch, o.now)
             /\ ch \in EnabledPorts => o.now.mode = "spi"
  <2>1. o = Done(radio[ch]) \/ o \in AdiTestMode(radio[ch], TRUE)
    BY Zenon
  <2>2. Keeps(ch, radio[ch], o) /\ o.now.mode = radio[ch].mode
    BY Zenon, <1>1, <2>1, SweepFacts, PatternOutcome
  <2>3. QED
    BY <1>1, <2>2, SweepFacts DEF Keeps
<1> HIDE DEF outcomes
<1>4. QED
  BY <1>1, <1>2, <1>3, SweepFacts, TestStepSafe

LEMMA SettleStep == IInv /\ Settle => IInv'
<1> SUFFICES ASSUME IInv, Settle PROVE IInv'
  OBVIOUS
<1>1. pc = "settle" /\ pc \in SweepPcs /\ UNCHANGED <<initialized, pins, op, ch, entry, prevDataSrc, todo, status>>
  BY DEF Settle, SweepPcs
<1>2. PICK o \in ToPrimed(ch, radio[ch]) :
        /\ Put(ch, IF ch \in TxChannels THEN [o.now EXCEPT !.source = prevDataSrc] ELSE o.now)
        /\ fault' = (fault \/ ~o.ok)
  BY DEF Settle
<1> DEFINE now == IF ch \in TxChannels THEN [o.now EXCEPT !.source = prevDataSrc] ELSE o.now
<1>3. /\ o.now \in Channel /\ o.ok \in BOOLEAN
      /\ Keyable(ch, radio[ch]) => Keyable(ch, o.now)
      /\ ch \in EnabledPorts => o.now.mode = "spi"
  BY <1>1, SweepFacts, ToPrimedOutcome DEF Keeps
<1>4. /\ now \in Channel
      /\ Keyable(ch, o.now) => Keyable(ch, now)
      /\ ch \in EnabledPorts => now.mode = "spi"
  <2> DEFINE up == [o.now EXCEPT !.source = prevDataSrc]
  <2>1. up \in Channel /\ up.state = o.now.state /\ up.mode = o.now.mode /\ up.ps = o.now.ps
          /\ up.front = o.now.front
    BY <1>1, <1>3, SweepFacts, SourceUpdate
  <2>2. now = up \/ now = o.now
    OBVIOUS
  <2> HIDE DEF up, now
  <2>3. QED
    BY <1>3, <2>1, <2>2 DEF Keyable
<1>5. Put(ch, now)
  BY <1>2
<1> HIDE DEF now
<1>6. SweepGoes
  BY <1>1, SweepFacts DEF Settle, SweepGoes, SweepPcs, NextPoint
<1>7. point' \in 0..LastPoint
  BY <1>1, SweepFacts, RadioAssumption DEF Settle
<1>8. fault' \in BOOLEAN /\ prevDataSrc' \in Sources /\ status' \in {"ok", "err"}
  BY <1>1, <1>2, SweepFacts
<1>9. QED
  BY <1>1, <1>3, <1>4, <1>5, <1>6, <1>7, <1>8, SweepFrame

LEMMA NormalStep == IInv /\ Normal => IInv'
<1> SUFFICES ASSUME IInv, Normal PROVE IInv'
  OBVIOUS
<1>1. PICK off \in SUBSET Channels :
        radio' = [c \in Channels |-> IF c \in off THEN [radio[c] EXCEPT !.testing = FALSE] ELSE radio[c]]
  <2>1. PICK off \in { {}, {c \in Channels \ TxChannels : Number[c] = Number[ch]},
                       {c \in Channels : Number[c] = Number[ch]} } :
          radio' = [c \in Channels |-> IF c \in off THEN [radio[c] EXCEPT !.testing = FALSE] ELSE radio[c]]
    BY Zenon DEF Normal
  <2>2. off \subseteq Channels
    BY <2>1
  <2>3. QED
    BY <2>1, <2>2
<1>2. /\ pc = "normal" /\ pc \in SweepPcs /\ UNCHANGED <<initialized, pins, op, ch, entry, prevDataSrc, point>>
      /\ \/ pc' = "restore" /\ UNCHANGED <<todo, status, fault>>
         \/ Return /\ status' = "err" /\ fault' = TRUE
  BY DEF Normal, SweepPcs
<1>3. ASSUME NEW c \in Channels
      PROVE  /\ radio'[c] \in Channel
             /\ radio'[c].state = radio[c].state /\ radio'[c].mode = radio[c].mode
             /\ radio'[c].ps = radio[c].ps /\ radio'[c].front = radio[c].front
  <2> DEFINE up == [radio[c] EXCEPT !.testing = FALSE]
  <2>1. radio[c] \in Channel
    BY DEF IInv, TypeOK
  <2>2. up \in Channel /\ up.state = radio[c].state /\ up.mode = radio[c].mode
          /\ up.ps = radio[c].ps /\ up.front = radio[c].front
    BY <2>1, TestingUpdate
  <2>3. radio'[c] = up \/ radio'[c] = radio[c]
    BY Zenon, <1>1
  <2> HIDE DEF up
  <2>4. QED
    BY <2>1, <2>2, <2>3
<1>4. radio' \in [Channels -> Channel]
  <2>1. radio' = [c \in Channels |-> radio'[c]]
    BY Zenon, <1>1
  <2>2. QED
    BY Zenon, <2>1, <1>3
<1>5. SweepGoes
  BY <1>2, SweepFacts DEF SweepGoes, Return, SweepPcs, Sweeps
<1>6. TypeOK'
  BY <1>2, <1>4, <1>5 DEF IInv, TypeOK, SweepGoes, SweepPcs, ConfigurePcs
<1>7. \A c \in Channels : Keyable(c, radio[c]) => Keyable(c, radio'[c])
  BY <1>3 DEF Keyable
<1>8. PinSafe'
  <2>1. \A c \in EnabledPorts : radio'[c].mode = "pin" => Keyable(c, radio'[c])
    BY <1>3, <1>7, RadioAssumption DEF IInv, PinSafe
  <2>2. QED
    BY <1>2, <2>1 DEF PinSafe, Keyable, HasPaPin
<1>9. op \in Sweeps \cup {"boot", "dpdOff"}
  BY <1>2, SweepFacts
<1>10. Located' /\ Bracketed' /\ RestoredOnSuccess'
  BY <1>2, <1>5, <1>9
  DEF Located, Bracketed, RestoredOnSuccess, SweepGoes, SweepPcs, BracketPcs, ConfigurePcs, Sweeps, Loads, Brackets
<1>11. Swept'
  <2>1. ch \in EnabledPorts =>
          /\ pc' \in SweepPcs \ {"best"} => radio'[ch].mode = "spi"
          /\ entry.mode = "pin" => Keyable(ch, radio'[ch])
    BY <1>2, <1>3, <1>7, SweepFacts
  <2>2. QED
    BY <1>2, <2>1 DEF Swept, Keyable, HasPaPin
<1>12. Configured'
  <2>1. pc' # "prepare"
    BY <1>5 DEF SweepGoes, SweepPcs
  <2>2. op \in Loads => \A c \in EnabledPorts : Keyable(c, radio'[c])
    BY <1>2, <1>7, RadioAssumption DEF IInv, Configured
  <2>3. QED
    BY <1>2, <2>1, <2>2 DEF Configured, Keyable, HasPaPin
<1>13. QED
  BY <1>6, <1>8, <1>10, <1>11, <1>12 DEF IInv

LEMMA SweepRunSafe == IInv /\ SweepRun => IInv'
  BY SetDelayStep, PrimeForTestStep, ArmStep, EnableForTestStep, CheckStep, SettleStep,
     NormalStep, RestoreStep, SetBestStep DEF SweepRun

-----------------------------------------------------------------------------
(* Calls of one step, and the transceiver.                                 *)

(* When no call is under way only types and the pins remain to be shown. *)
LEMMA AtRest ==
  ASSUME TypeOK', PinSafe', pc' = "idle", op' \notin Brackets \/ status' = "err"
  PROVE  IInv'
<1>1. Located' /\ Bracketed' /\ Swept' /\ Configured' /\ RestoredOnSuccess'
  BY DEF Located, Bracketed, Swept, Configured, RestoredOnSuccess, BracketPcs, SweepPcs, ConfigurePcs
<1>2. QED
  BY <1>1 DEF IInv

LEMMA NoSweepTyped == NoSweep => prevDataSrc' \in Sources /\ point' \in 0..LastPoint
  BY RadioAssumption DEF NoSweep, Sources

LEMMA ResetTyped == ASSUME NEW c PROVE Reset(c) \in Channel /\ Reset(c).mode = "spi"
  BY DEF Reset, Channel, States, Modes, Sources

LEMMA CallSafe ==
  ASSUME IInv, NEW call \in Ops \ Brackets, NEW c \in Channels, NEW outcomes, Call(call, c, outcomes),
         \A o \in outcomes :
           /\ o.now \in Channel /\ o.ok \in BOOLEAN
           /\ c \in EnabledPorts /\ o.now.mode = "pin" => Keyable(c, o.now)
  PROVE  IInv'
<1>1. PICK o \in outcomes :
        /\ Put(c, o.now)
        /\ status' = IF o.ok THEN "ok" ELSE "err"
        /\ fault' = ~o.ok
  BY DEF Call
<1>2. /\ pc = "idle" /\ op' = call /\ ch' = c /\ entry' \in Channel
      /\ prevDataSrc' \in Sources /\ point' \in 0..LastPoint
      /\ UNCHANGED <<initialized, pins, pc, todo>>
  BY NoSweepTyped, ResetTyped DEF Call
<1>3. /\ o.now \in Channel /\ o.ok \in BOOLEAN
      /\ c \in EnabledPorts /\ o.now.mode = "pin" => Keyable(c, o.now)
  BY <1>1
<1>4. radio \in [Channels -> Channel] /\ PinSafe
  BY DEF IInv, TypeOK
<1>5. TypeOK'
  BY <1>1, <1>2, <1>3, <1>4, PutEffect DEF IInv, TypeOK
<1>6. PinSafe'
  BY <1>1, <1>2, <1>3, <1>4, PutSafe
<1>7. QED
  BY <1>2, <1>5, <1>6, AtRest

(* What the invariant gives any call on a channel. *)
LEMMA ChannelFacts ==
  ASSUME IInv, NEW c \in Channels
  PROVE  /\ radio \in [Channels -> Channel] /\ radio[c] \in Channel /\ radio[c].mode \in Modes
         /\ radio[c].state \in States
         /\ c \in EnabledPorts /\ radio[c].mode = "pin" => Keyable(c, radio[c])
<1>1. radio \in [Channels -> Channel] /\ radio[c] \in Channel
  BY DEF IInv, TypeOK
<1>2. QED
  BY <1>1, ChannelFields DEF IInv, PinSafe

LEMMA OneStepCalls ==
  ASSUME IInv, NEW c \in Channels,
         CallToPrimed(c) \/ CallToCalibrated(c) \/ CallToRfEnabled(c) \/ CallSetTestMode(c)
  PROVE  IInv'
<1>1. CASE CallToPrimed(c)
  <2>1. ASSUME NEW o \in ToPrimed(c, radio[c])
        PROVE  /\ o.now \in Channel /\ o.ok \in BOOLEAN
               /\ c \in EnabledPorts /\ o.now.mode = "pin" => Keyable(c, o.now)
    BY ChannelFacts, ToPrimedOutcome DEF Keeps
  <2>2. "toPrimed" \in Ops \ Brackets /\ Call("toPrimed", c, ToPrimed(c, radio[c]))
    BY <1>1 DEF CallToPrimed, Ops, Brackets
  <2>3. QED
    BY <2>1, <2>2, CallSafe
<1>2. CASE CallToCalibrated(c)
  <2>1. ASSUME NEW o \in ToCalibrated(c, radio[c])
        PROVE  /\ o.now \in Channel /\ o.ok \in BOOLEAN
               /\ c \in EnabledPorts /\ o.now.mode = "pin" => Keyable(c, o.now)
    <3>1. CASE c \in EnabledPorts
      BY <3>1, ChannelFacts, ToCalibratedOutcome DEF Modes
    <3>2. CASE c \notin EnabledPorts
      BY <3>2, ChannelFacts, ToCalibratedTyped
    <3>3. QED
      BY <3>1, <3>2
  <2>2. "toCalibrated" \in Ops \ Brackets /\ Call("toCalibrated", c, ToCalibrated(c, radio[c]))
    BY <1>2 DEF CallToCalibrated, Ops, Brackets
  <2>3. QED
    BY <2>1, <2>2, CallSafe
<1>3. CASE CallToRfEnabled(c)
  <2>1. ASSUME NEW o \in ToRfEnabled(c, radio[c])
        PROVE  /\ o.now \in Channel /\ o.ok \in BOOLEAN
               /\ c \in EnabledPorts /\ o.now.mode = "pin" => Keyable(c, o.now)
    BY ChannelFacts, ToRfEnabledOutcome DEF Keeps
  <2>2. "toRfEnabled" \in Ops \ Brackets /\ Call("toRfEnabled", c, ToRfEnabled(c, radio[c]))
    BY <1>3 DEF CallToRfEnabled, Ops, Brackets
  <2>3. QED
    BY <2>1, <2>2, CallSafe
<1>4. CASE CallSetTestMode(c)
  <2>1. PICK on \in BOOLEAN : Call("testMode", c, SetTestMode(c, radio[c], on))
    BY <1>4 DEF CallSetTestMode
  <2>2. ASSUME NEW o \in SetTestMode(c, radio[c], on)
        PROVE  /\ o.now \in Channel /\ o.ok \in BOOLEAN
               /\ c \in EnabledPorts /\ o.now.mode = "pin" => Keyable(c, o.now)
    BY ChannelFacts, SetTestModeOutcome DEF Keeps
  <2>3. "testMode" \in Ops \ Brackets
    BY DEF Ops, Brackets
  <2>4. QED
    BY <2>1, <2>2, <2>3, CallSafe
<1>5. QED
  BY <1>1, <1>2, <1>3, <1>4

LEMMA SetTxDataSrcStep ==
  ASSUME IInv, NEW c \in Channels, SetTxDataSrc(c)
  PROVE  IInv'
<1>1. PICK s \in Sources : Put(c, [radio[c] EXCEPT !.source = s])
  BY DEF SetTxDataSrc
<1> DEFINE up == [radio[c] EXCEPT !.source = s]
<1>2. /\ up \in Channel /\ up.state = radio[c].state /\ up.mode = radio[c].mode
      /\ up.ps = radio[c].ps /\ up.front = radio[c].front
  BY ChannelFacts, SourceUpdate
<1>3. Put(c, up)
  BY <1>1
<1> HIDE DEF up
<1>4. /\ pc = "idle" /\ op' = "none" /\ ch' = c /\ entry' \in Channel /\ status' = "ok" /\ fault' = FALSE
      /\ prevDataSrc' \in Sources /\ point' \in 0..LastPoint
      /\ UNCHANGED <<initialized, pins, pc, todo>>
  BY NoSweepTyped, ResetTyped DEF SetTxDataSrc
<1>5. c \in EnabledPorts /\ up.mode = "pin" => Keyable(c, up)
  BY <1>2, ChannelFacts DEF Keyable
<1>6. TypeOK'
  BY <1>2, <1>3, <1>4, PutEffect DEF IInv, TypeOK, Ops
<1>7. PinSafe'
  BY <1>2, <1>3, <1>4, <1>5, PutSafe DEF IInv, TypeOK
<1>8. QED
  BY <1>4, <1>6, <1>7, AtRest DEF Brackets

LEMMA BracketBegins ==
  ASSUME IInv, NEW c \in Channels, Bracket(c)
  PROVE  IInv'
<1>1. PICK call \in Brackets : Begin(call, c, "takeover")
  BY DEF Bracket
<1>2. /\ op' = call /\ ch' = c /\ entry' = radio[c]
      /\ \/ pc' = "takeover" /\ status' = "ok" /\ fault' = FALSE
         \/ pc' = "idle" /\ status' = "err" /\ fault' = TRUE
      /\ prevDataSrc' \in Sources /\ point' \in 0..LastPoint
      /\ UNCHANGED <<radio, initialized, pins, todo>>
  BY <1>1, NoSweepTyped DEF Begin
<1>3. TypeOK'
  BY <1>2, ChannelFacts DEF IInv, TypeOK, Ops, BracketPcs
<1>4. PinSafe'
  BY <1>2 DEF IInv, PinSafe, Keyable, HasPaPin
<1>5. CASE pc' = "idle"
  BY <1>2, <1>3, <1>4, <1>5, AtRest
<1>6. CASE pc' = "takeover"
  <2>1. Located' /\ Swept' /\ Configured' /\ RestoredOnSuccess'
    BY <1>2, <1>6 DEF Located, Swept, Configured, RestoredOnSuccess, BracketPcs, SweepPcs, ConfigurePcs
  <2>2. c \in EnabledPorts /\ radio[c].mode = "pin" => radio[c].state \in {"primed", "rf"}
    BY ChannelFacts DEF Keyable
  <2>3. Bracketed'
    BY <1>2, <1>6, <2>2 DEF Bracketed, BracketPcs
  <2>4. QED
    BY <1>3, <1>4, <2>1, <2>3 DEF IInv
<1>7. QED
  BY <1>2, <1>5, <1>6

(* How a sweep is entered, by a call or by ConfigureProfile. *)
LEMMA SweepEntered ==
  ASSUME IInv, NEW c \in Channels, NEW now \in Channel, Put(c, now),
         TypeOK', op' \in Sweeps \cup {"boot", "dpdOff"}, pc' = "delay",
         ch' = c, entry' = radio[c],
         Keyable(c, radio[c]) => Keyable(c, now),
         c \in EnabledPorts => now.mode = "spi",
         op' \in Loads => \A d \in EnabledPorts : Keyable(d, radio[d]), UNCHANGED pins
  PROVE  IInv'
<1>1. /\ radio'[c] = now /\ \A d \in Channels : d # c => radio'[d] = radio[d]
  BY ChannelFacts, PutEffect
<1>2. PinSafe'
  BY ChannelFacts, PutSafe DEF IInv
<1>3. Located' /\ Bracketed' /\ RestoredOnSuccess'
  BY DEF Located, Bracketed, RestoredOnSuccess, BracketPcs, SweepPcs, ConfigurePcs
<1>4. Swept'
  <2>1. c \in EnabledPorts => radio'[c].mode = "spi" /\ (radio[c].mode = "pin" => Keyable(c, radio'[c]))
    BY <1>1, ChannelFacts
  <2>2. QED
    BY <2>1 DEF Swept, Keyable, HasPaPin
<1>5. Configured'
  <2>1. op' \in Loads => \A d \in EnabledPorts : Keyable(d, radio'[d])
    BY <1>1, RadioAssumption
  <2>2. QED
    BY <2>1 DEF Configured, Keyable, HasPaPin
<1>6. QED
  BY <1>2, <1>3, <1>4, <1>5 DEF IInv

LEMMA SweepBegins ==
  ASSUME IInv, NEW c \in Channels, Sweep(c)
  PROVE  IInv'
<1>1. PICK call \in Sweeps :
        /\ op' = call /\ ch' = c /\ entry' = radio[c]
        /\ IF call = "calibrate" /\ c \notin EnabledPorts
           THEN pc' = "idle" /\ status' = "ok" /\ fault' = FALSE /\ UNCHANGED radio
           ELSE \E o \in {Fails(radio[c])} \cup SetEnableMode(c, radio[c], "spi") :
                  /\ Put(c, o.now)
                  /\ pc' = IF o.ok THEN "delay" ELSE "idle"
                  /\ status' = IF o.ok THEN "ok" ELSE "err"
                  /\ fault' = ~o.ok
        /\ NoSweep
        /\ UNCHANGED <<initialized, pins, todo>>
  BY DEF Sweep
<1>2. op' \notin Brackets /\ op' \in Ops /\ op' \notin Loads
  BY <1>1 DEF Sweeps, Brackets, Ops, Loads
<1>3. prevDataSrc' \in Sources /\ point' \in 0..LastPoint
  BY <1>1, NoSweepTyped
<1>4. CASE call = "calibrate" /\ c \notin EnabledPorts
  <2>1. TypeOK'
    BY <1>1, <1>2, <1>3, <1>4, ChannelFacts DEF IInv, TypeOK
  <2>2. PinSafe'
    BY <1>1, <1>4 DEF IInv, PinSafe, Keyable, HasPaPin
  <2>3. QED
    BY <1>1, <1>2, <1>4, <2>1, <2>2, AtRest
<1>5. CASE ~(call = "calibrate" /\ c \notin EnabledPorts)
  <2>1. PICK o \in {Fails(radio[c])} \cup SetEnableMode(c, radio[c], "spi") :
          /\ Put(c, o.now)
          /\ pc' = IF o.ok THEN "delay" ELSE "idle"
          /\ status' = IF o.ok THEN "ok" ELSE "err"
          /\ fault' = ~o.ok
    BY <1>1, <1>5
  <2>2. /\ o.now \in Channel /\ o.ok \in BOOLEAN
        /\ Keyable(c, radio[c]) => Keyable(c, o.now)
        /\ o.now.mode = "pin" => radio[c].mode = "pin"
        /\ c \in EnabledPorts /\ o.ok => o.now.mode = "spi"
    <3>1. CASE o = Fails(radio[c])
      BY <3>1, ChannelFacts, Outcomes
    <3>2. CASE o \in SetEnableMode(c, radio[c], "spi")
      BY <3>2, ChannelFacts, EnableModeOutcome DEF Keeps, Modes
    <3>3. QED
      BY <3>1, <3>2
  <2>3. TypeOK'
    BY <1>1, <1>2, <1>3, <2>1, <2>2, ChannelFacts, PutEffect DEF IInv, TypeOK, SweepPcs
  <2>4. CASE o.ok
    BY <1>1, <1>2, <2>1, <2>2, <2>3, <2>4, SweepEntered
  <2>5. CASE ~o.ok
    <3>1. PinSafe'
      BY <1>1, <2>1, <2>2, ChannelFacts, PutSafe DEF IInv
    <3>2. QED
      BY <1>2, <2>1, <2>3, <2>5, <3>1, AtRest
  <2>6. QED
    BY <2>2, <2>4, <2>5
<1>6. QED
  BY <1>4, <1>5

(* The pin moves a channel between the two states that make it keyable. *)
LEMMA PinFollowStep ==
  ASSUME IInv, NEW c \in Channels, PinFollow(c)
  PROVE  IInv'
<1>1. PICK s \in {"primed", "rf"} : Put(c, [radio[c] EXCEPT !.state = s])
  BY DEF PinFollow
<1>2. /\ c \in EnabledPorts /\ radio[c].mode = "pin" /\ radio[c].state \in {"primed", "rf"}
      /\ UNCHANGED <<locals, pc, status, fault, pins>>
  BY DEF PinFollow, locals
<1> DEFINE up == [radio[c] EXCEPT !.state = s]
<1>3. /\ up \in Channel /\ up.state = s /\ up.mode = radio[c].mode
      /\ up.ps = radio[c].ps /\ up.front = radio[c].front
  <2>1. s \in States
    BY DEF States
  <2>2. QED
    BY <2>1, ChannelFacts, StateUpdate
<1>4. Put(c, up)
  BY <1>1
<1> HIDE DEF up
<1>5. Keyable(c, radio[c]) /\ Keyable(c, up)
  BY <1>2, <1>3, ChannelFacts DEF Keyable
<1>6. /\ radio' \in [Channels -> Channel] /\ radio'[c] = up
      /\ \A d \in Channels : d # c => radio'[d] = radio[d]
  BY <1>3, <1>4, ChannelFacts, PutEffect
<1>7. TypeOK'
  BY <1>2, <1>6 DEF IInv, TypeOK, locals
<1>8. PinSafe'
  BY <1>2, <1>3, <1>4, <1>5, ChannelFacts, PutSafe DEF IInv
<1>9. Located' /\ UNCHANGED <<pins, op, ch, entry, pc, status, todo>>
  BY <1>2 DEF IInv, Located, locals
<1>10. Bracketed'
  <2>1. CASE ch # c
    BY <1>6, <1>9, <2>1, BracketFacts DEF IInv, Bracketed, Unkeyed, HasPaPin
  <2>2. CASE ch = c
    <3>1. pc \notin {"unprime", "calibrate", "apply", "reprime", "repin"}
      BY <1>2, <2>2 DEF IInv, Bracketed
    <3>2. pc \in {"takeover", "reenable"} => entry.mode = "pin" /\ entry.state \in {"primed", "rf"}
      BY <1>2, <2>2 DEF IInv, Bracketed, BracketPcs
    <3>3. QED
      BY <1>2, <1>3, <1>6, <1>9, <2>2, <3>1, <3>2 DEF IInv, Bracketed, Unkeyed, HasPaPin, BracketPcs
  <2>3. QED
    BY <2>1, <2>2
<1>11. Swept'
  BY <1>3, <1>5, <1>6, <1>9 DEF IInv, Swept, TypeOK, Keyable, HasPaPin
<1>12. \A d \in EnabledPorts : Keyable(d, radio[d]) => Keyable(d, radio'[d])
  BY <1>5, <1>6, RadioAssumption
<1>13. Configured'
  BY <1>9, <1>12 DEF IInv, Configured, Keyable, HasPaPin
<1>14. RestoredOnSuccess'
  BY <1>2, <1>3, <1>6, <1>9 DEF IInv, TypeOK, RestoredOnSuccess, HasPaPin
<1>15. QED
  BY <1>7, <1>8, <1>9, <1>10, <1>11, <1>13, <1>14 DEF IInv

-----------------------------------------------------------------------------
(* Loading a profile.                                                      *)

LEMMA SetTxDpdEnableStep == IInv /\ SetTxDpdEnable => IInv'
<1> SUFFICES ASSUME IInv, SetTxDpdEnable PROVE IInv'
  OBVIOUS
<1>1. /\ op' \in {"dpdOn", "dpdOff"} /\ pc' = "load" /\ status' = "ok" /\ fault' = FALSE
      /\ entry' \in Channel /\ prevDataSrc' \in Sources /\ point' \in 0..LastPoint
      /\ UNCHANGED <<radio, initialized, pins, ch, todo>>
  BY NoSweepTyped, ResetTyped DEF SetTxDpdEnable
<1>2. TypeOK'
  BY <1>1 DEF IInv, TypeOK, Ops, Loads, ConfigurePcs
<1>3. PinSafe'
  BY <1>1 DEF IInv, PinSafe, Keyable, HasPaPin
<1>4. Located' /\ Bracketed' /\ Swept' /\ Configured' /\ RestoredOnSuccess'
  BY <1>1
  DEF Located, Bracketed, Swept, Configured, RestoredOnSuccess, BracketPcs, SweepPcs, ConfigurePcs, Loads
<1>5. QED
  BY <1>2, <1>3, <1>4 DEF IInv

LEMMA LoadedOutcome ==
  ASSUME IInv, NEW c \in Channels, NEW state \in States
  PROVE  Loaded(c, state) \in Channel /\ Loaded(c, state).mode = "spi"
<1>1. radio[c].ps \in BOOLEAN /\ radio[c].source \in Sources
  BY ChannelFacts, ChannelFields
<1>2. QED
  BY <1>1 DEF Loaded, Channel, States, Modes

(* Nor when start-up has come as far as its pins. *)
LEMMA StartUpRest ==
  ASSUME TypeOK', PinSafe', pc' = "pins", op' = "boot"
  PROVE  IInv'
<1>1. Located' /\ Bracketed' /\ Swept' /\ Configured' /\ RestoredOnSuccess'
  BY DEF Located, Bracketed, Swept, Configured, RestoredOnSuccess, BracketPcs, SweepPcs, ConfigurePcs, Loads
<1>2. QED
  BY <1>1 DEF IInv

LEMMA LoadStep == IInv /\ Load => IInv'
<1> SUFFICES ASSUME IInv, Load PROVE IInv'
  OBVIOUS
<1>1. PICK state \in States : radio' = [c \in Channels |-> Loaded(c, state)]
  BY DEF Load, States
<1>2. /\ pc = "load" /\ UNCHANGED <<initialized, op, ch, entry, prevDataSrc, point>>
      /\ \/ pc' = AfterLoad /\ status' = "err" /\ fault' = TRUE /\ UNCHANGED todo
         \/ /\ pc' = IF op = "dpdOn" THEN "idle" ELSE "prepare"
            /\ todo' = IF op = "dpdOn" THEN todo ELSE Channels
            /\ UNCHANGED <<status, fault>>
      /\ pins' \in [Channels -> Pins]
  BY DEF Load, ResetPins, Pins
<1>3. op \in Loads
  BY <1>2 DEF IInv, Located, ConfigurePcs
<1>4. radio' \in [Channels -> Channel] /\ \A c \in Channels : radio'[c].mode = "spi"
  BY <1>1, LoadedOutcome
<1>5. TypeOK'
  BY <1>2, <1>4 DEF IInv, TypeOK, ConfigurePcs, AfterLoad
<1>6. PinSafe'
  BY <1>4, RadioAssumption DEF PinSafe
<1>7. CASE pc' = "idle"
  BY <1>2, <1>3, <1>5, <1>6, <1>7, AtRest DEF Loads, Brackets
<1>8. CASE pc' = "prepare"
  <2>1. todo' = Channels
    BY <1>2, <1>8 DEF AfterLoad
  <2>2. Located' /\ Bracketed' /\ Swept' /\ RestoredOnSuccess'
    BY <1>2, <1>3, <1>8
    DEF Located, Bracketed, Swept, RestoredOnSuccess, BracketPcs, SweepPcs, ConfigurePcs, Loads, AfterLoad
  <2>3. Configured'
    BY <1>8, <2>1, RadioAssumption DEF Configured, SweepPcs
  <2>4. QED
    BY <1>5, <1>6, <2>2, <2>3 DEF IInv
<1>9. CASE pc' = "pins"
  BY <1>2, <1>3, <1>5, <1>6, <1>9, StartUpRest DEF Loads, AfterLoad
<1>10. QED
  BY <1>2, <1>7, <1>8, <1>9 DEF AfterLoad

(* A stage goes on to the next channel, or to the next stage, or returns. *)
LEMMA StageSafe ==
  ASSUME IInv, pc \in {"prepare", "tune", "modes"}, NEW c \in Channels, NEW outcomes, NEW next,
         Stage(c, outcomes, next), initialized' \in BOOLEAN,
         next = IF pc = "prepare" THEN "tune" ELSE IF pc = "tune" THEN "modes" ELSE AfterLoad,
         UNCHANGED pins,
         \A o \in outcomes :
           /\ o.now \in Channel /\ o.ok \in BOOLEAN
           /\ Keyable(c, radio[c]) => Keyable(c, o.now)
           /\ c \in EnabledPorts /\ o.now.mode = "pin" => Keyable(c, o.now)
           /\ c \in EnabledPorts /\ pc = "prepare" /\ o.ok => Keyable(c, o.now)
  PROVE  IInv'
<1>1. PICK o \in outcomes :
        /\ Put(c, o.now)
        /\ pc' = IF ~o.ok THEN AfterLoad ELSE IF todo = {c} THEN next ELSE pc
        /\ todo' = IF ~o.ok THEN {} ELSE IF todo = {c} /\ next # AfterLoad THEN Channels ELSE todo \ {c}
        /\ status' = IF o.ok THEN "ok" ELSE "err"
        /\ fault' = (fault \/ ~o.ok)
  BY DEF Stage
<1>2. UNCHANGED <<op, ch, entry, prevDataSrc, point>> /\ c \in todo
  BY DEF Stage
<1>3. /\ o.now \in Channel /\ o.ok \in BOOLEAN
      /\ Keyable(c, radio[c]) => Keyable(c, o.now)
      /\ c \in EnabledPorts /\ o.now.mode = "pin" => Keyable(c, o.now)
      /\ c \in EnabledPorts /\ pc = "prepare" /\ o.ok => Keyable(c, o.now)
  BY <1>1
<1>4. /\ radio' \in [Channels -> Channel] /\ radio'[c] = o.now
      /\ \A d \in Channels : d # c => radio'[d] = radio[d]
  BY <1>1, <1>3, ChannelFacts, PutEffect
<1>5. op \in {"boot", "dpdOff"} /\ op \in Loads
  BY DEF IInv, Located, ConfigurePcs, Loads
<1>6. pc' \in {"idle", "prepare", "tune", "modes", "pins"} /\ todo' \subseteq Channels
  BY <1>1 DEF IInv, TypeOK, AfterLoad
<1>7. TypeOK'
  <2>1. status' \in {"ok", "err"} /\ fault' \in BOOLEAN
    BY <1>1, <1>3
  <2>2. QED
    BY <1>2, <1>4, <1>6, <2>1 DEF IInv, TypeOK, ConfigurePcs
<1>8. PinSafe'
  BY <1>1, <1>3, ChannelFacts, PutSafe DEF IInv
<1>9. Located' /\ Bracketed' /\ Swept' /\ RestoredOnSuccess'
  BY <1>2, <1>5, <1>6
  DEF IInv, Located, Bracketed, Swept, RestoredOnSuccess, BracketPcs, SweepPcs, ConfigurePcs, Loads, Brackets
<1>10. Configured'
  <2>1. ASSUME NEW d \in EnabledPorts, pc' \in {"tune", "modes"} \/ (pc' = "prepare" /\ d \notin todo')
        PROVE  Keyable(d, radio'[d])
    <3>1. o.ok
      BY <1>1, <2>1 DEF AfterLoad
    <3>2. CASE d = c
      <4>1. CASE pc = "prepare"
        BY <1>3, <1>4, <3>1, <3>2, <4>1, <2>1
      <4>2. CASE pc # "prepare"
        <5>1. Keyable(d, radio[d])
          BY <1>5, <2>1, <4>2 DEF IInv, Configured
        <5>2. QED
          BY <1>3, <1>4, <3>2, <5>1
      <4>3. QED
        BY <4>1, <4>2
    <3>3. CASE d # c
      <4>1. CASE pc = "prepare"
        <5>1. d \notin todo
          BY <1>1, <2>1, <3>1, <3>3, <4>1 DEF AfterLoad
        <5>2. Keyable(d, radio[d])
          BY <2>1, <4>1, <5>1 DEF IInv, Configured
        <5>3. QED
          BY <1>4, <2>1, <3>3, <5>2, RadioAssumption
      <4>2. CASE pc # "prepare"
        <5>1. Keyable(d, radio[d])
          BY <1>5, <2>1, <4>2 DEF IInv, Configured
        <5>2. QED
          BY <1>4, <2>1, <3>3, <5>1, RadioAssumption
      <4>3. QED
        BY <4>1, <4>2
    <3>4. QED
      BY <3>2, <3>3
  <2>2. pc' \notin SweepPcs
    BY <1>6 DEF SweepPcs
  <2>3. QED
    BY <2>1, <2>2 DEF Configured, Keyable, HasPaPin
<1>11. QED
  BY <1>7, <1>8, <1>9, <1>10 DEF IInv

LEMMA PrepareStep ==
  ASSUME IInv, NEW c \in Channels, Prepare(c)
  PROVE  IInv'
<1>1. pc = "prepare" /\ Stage(c, ToPrimed(c, radio[c]), "tune") /\ UNCHANGED <<initialized, pins>>
  BY DEF Prepare
<1>2. ASSUME NEW o \in ToPrimed(c, radio[c])
      PROVE  /\ o.now \in Channel /\ o.ok \in BOOLEAN
             /\ Keyable(c, radio[c]) => Keyable(c, o.now)
             /\ c \in EnabledPorts /\ o.now.mode = "pin" => Keyable(c, o.now)
             /\ c \in EnabledPorts /\ pc = "prepare" /\ o.ok => Keyable(c, o.now)
  <2>1. /\ Keeps(c, radio[c], o) /\ o.now.mode = radio[c].mode
        /\ c \in EnabledPorts /\ o.ok => Unkeyed(c, o.now)
        /\ c \in EnabledPorts /\ o.ok /\ radio[c].mode = "spi" => o.now.state = "primed"
    BY ChannelFacts, ToPrimedOutcome
  <2>2. QED
    BY <2>1, ChannelFacts DEF Keeps, Keyable, Unkeyed, Modes
<1>3. initialized' \in BOOLEAN
  BY <1>1 DEF IInv, TypeOK
<1>4. QED
  BY <1>1, <1>2, <1>3, StageSafe

LEMMA SetModesStep ==
  ASSUME IInv, NEW c \in Channels, SetModes(c)
  PROVE  IInv'
<1> DEFINE mode == IF c \in PinChannels THEN "pin" ELSE "spi"
<1>1. pc = "modes" /\ Stage(c, SetEnableMode(c, radio[c], mode), AfterLoad) /\ UNCHANGED pins
  BY DEF SetModes
<1>2. initialized' \in BOOLEAN
  BY DEF SetModes, IInv, TypeOK
<1>3. mode \in Modes
  BY DEF Modes
<1> HIDE DEF mode
<1>4. c \in EnabledPorts => Keyable(c, radio[c])
  BY <1>1 DEF IInv, Configured, Located, ConfigurePcs
<1>5. ASSUME NEW o \in SetEnableMode(c, radio[c], mode)
      PROVE  /\ o.now \in Channel /\ o.ok \in BOOLEAN
             /\ Keyable(c, radio[c]) => Keyable(c, o.now)
             /\ c \in EnabledPorts => Keyable(c, o.now)
  BY <1>3, <1>4, ChannelFacts, EnableModeOutcome DEF Keeps
<1>6. QED
  BY <1>1, <1>2, <1>5, StageSafe

LEMMA TuneStep ==
  ASSUME IInv, NEW c \in Channels, Tune(c)
  PROVE  IInv'
<1>1. pc = "tune" /\ c \in todo /\ UNCHANGED <<initialized, pins>>
  BY DEF Tune
<1>2. op \in Loads /\ initialized' \in BOOLEAN /\ c \in Channels /\ todo \subseteq Channels
  BY <1>1 DEF IInv, TypeOK, Located, ConfigurePcs
<1>3. CASE c \notin EnabledPorts
  <2>1. Stage(c, {Done(radio[c])}, "modes")
    BY <1>3 DEF Tune
  <2>2. ASSUME NEW o \in {Done(radio[c])}
        PROVE  /\ o.now \in Channel /\ o.ok \in BOOLEAN
               /\ Keyable(c, radio[c]) => Keyable(c, o.now)
    BY ChannelFacts, Outcomes
  <2> DEFINE outcomes == {Done(radio[c])}
  <2>3. Stage(c, outcomes, "modes") /\ \A o \in outcomes :
          /\ o.now \in Channel /\ o.ok \in BOOLEAN
          /\ Keyable(c, radio[c]) => Keyable(c, o.now)
    BY <2>1, <2>2
  <2> HIDE DEF outcomes
  <2>4. QED
    BY <1>1, <1>2, <1>3, <2>3, StageSafe
<1>4. CASE c \in EnabledPorts
  <2>1. PICK o \in {Fails(radio[c])} \cup AdiSetMode(radio[c], "spi") :
          /\ Put(c, o.now)
          /\ fault' = (fault \/ ~o.ok)
          /\ IF o.ok THEN pc' = "delay" /\ todo' = todo \ {c}
             ELSE /\ pc' = IF todo = {c} THEN "modes" ELSE "tune"
                  /\ todo' = IF todo = {c} THEN Channels ELSE todo \ {c}
    BY <1>4 DEF Tune
  <2>2. ch' = c /\ entry' = radio[c] /\ point' = 0 /\ UNCHANGED <<op, prevDataSrc, status>>
    BY <1>4 DEF Tune
  <2>3. /\ o.now \in Channel /\ o.ok \in BOOLEAN
        /\ Keyable(c, radio[c]) => Keyable(c, o.now)
        /\ o.ok => o.now.mode = "spi"
    <3>1. CASE o = Fails(radio[c])
      BY <3>1, ChannelFacts, Outcomes
    <3>2. CASE o \in AdiSetMode(radio[c], "spi")
      BY <3>2, ChannelFacts, ModeOutcome DEF Keyable, Modes
    <3>3. QED
      BY <3>1, <3>2
  <2>4. \A d \in EnabledPorts : Keyable(d, radio[d])
    BY <1>1, <1>2 DEF IInv, Configured
  <2>5. /\ radio' \in [Channels -> Channel] /\ radio'[c] = o.now
        /\ \A d \in Channels : d # c => radio'[d] = radio[d]
    BY <2>1, <2>3, ChannelFacts, PutEffect
  <2>6. /\ pc' \in {"delay", "modes", "tune"} /\ todo' \subseteq Channels /\ fault' \in BOOLEAN
        /\ point' \in 0..LastPoint
    BY <1>2, <2>1, <2>2, <2>3, RadioAssumption
  <2>7. TypeOK'
    BY <1>1, <2>2, <2>5, <2>6, ChannelFacts DEF IInv, TypeOK, SweepPcs, ConfigurePcs
  <2>8. \A d \in EnabledPorts : Keyable(d, radio'[d])
    BY <2>3, <2>4, <2>5, RadioAssumption
  <2>9. CASE o.ok
    <3>1. op \in {"boot", "dpdOff"}
      BY <1>1 DEF IInv, Located, ConfigurePcs
    <3>2. QED
      BY <1>1, <2>1, <2>2, <2>3, <2>4, <2>7, <2>9, <3>1, SweepEntered
  <2>10. CASE ~o.ok
    <3>1. pc' \in {"modes", "tune"}
      BY <2>1, <2>10
    <3>2. PinSafe'
      BY <1>1, <2>8 DEF PinSafe, Keyable, HasPaPin
    <3>3. Located' /\ Bracketed' /\ Swept' /\ RestoredOnSuccess'
      BY <1>1, <1>2, <2>2, <3>1
      DEF IInv, Located, Bracketed, Swept, RestoredOnSuccess, BracketPcs, SweepPcs, ConfigurePcs
    <3>4. Configured'
      BY <1>1, <2>8, <3>1 DEF Configured, Keyable, HasPaPin
    <3>5. QED
      BY <2>7, <3>2, <3>3, <3>4 DEF IInv
  <2>11. QED
    BY <2>3, <2>9, <2>10
<1>5. QED
  BY <1>3, <1>4

(* Start-up makes the pins outputs and takes some of them low, whatever    *)
(* the calls before have left of their channels.                           *)
LEMMA ConfigurePinsStep == IInv /\ ConfigurePins => IInv'
<1> SUFFICES ASSUME IInv, ConfigurePins PROVE IInv'
  OBVIOUS
<1>1. PICK out \in SUBSET {c \in Channels : HasPaPin(c)}, low \in SUBSET TakenLow :
        /\ radio' = [c \in Channels |-> IF c \in low THEN [radio[c] EXCEPT !.front = FALSE] ELSE radio[c]]
        /\ pins' = [c \in Channels |->
             IF c \in low /\ radio[c].mode = "pin" /\ radio[c].ps
             THEN "parked" ELSE IF c \in out /\ pins[c] = "input" THEN "output" ELSE pins[c]]
  BY Zenon DEF ConfigurePins
<1>2. /\ pc = "pins" /\ pc' = "idle"
      /\ UNCHANGED <<initialized, op, ch, entry, prevDataSrc, point, todo, status, fault>>
  BY DEF ConfigurePins
<1>3. op \in {"boot", "dpdOff"}
  BY <1>2 DEF IInv, Located, ConfigurePcs
<1>4. ASSUME NEW c \in Channels
      PROVE  /\ radio'[c] \in Channel
             /\ radio'[c].state = radio[c].state /\ radio'[c].mode = radio[c].mode
             /\ radio'[c].ps = radio[c].ps
             /\ radio'[c].front = radio[c].front \/ c \in low
  <2> DEFINE down == [radio[c] EXCEPT !.front = FALSE]
  <2>1. /\ down \in Channel /\ down.state = radio[c].state /\ down.mode = radio[c].mode
        /\ down.ps = radio[c].ps
    BY ChannelFacts, FrontUpdate
  <2>2. radio'[c] = IF c \in low THEN down ELSE radio[c]
    BY Zenon, <1>1
  <2> HIDE DEF down
  <2>3. QED
    BY <2>1, <2>2, ChannelFacts
<1>5. radio' \in [Channels -> Channel]
  <2>1. radio' = [c \in Channels |-> radio'[c]]
    BY Zenon, <1>1
  <2>2. QED
    BY Zenon, <2>1, <1>4
<1>6. pins' \in [Channels -> Pins] /\ pins \in [Channels -> Pins]
  BY <1>1 DEF IInv, TypeOK, Pins
<1>7. TypeOK'
  BY <1>2, <1>5, <1>6 DEF IInv, TypeOK
<1>8. PinSafe'
  <2>1. ASSUME NEW c \in EnabledPorts, radio'[c].mode = "pin"
        PROVE  /\ radio'[c].state \in {"primed", "rf"}
               /\ radio'[c].ps /\ HasPaPin(c) /\ pins'[c] # "parked" => radio'[c].front
    <3>1. c \in Channels /\ Keyable(c, radio[c]) /\ radio[c].mode = "pin"
      BY <1>4, <2>1, RadioAssumption DEF IInv, PinSafe
    <3>2. ASSUME radio[c].ps, HasPaPin(c), pins'[c] # "parked"
          PROVE  c \notin low /\ pins[c] # "parked"
      <4>1. pins'[c] = IF c \in low
                       THEN "parked" ELSE IF c \in out /\ pins[c] = "input" THEN "output" ELSE pins[c]
        BY <1>1, <3>1, <3>2
      <4>2. c \notin low
        BY <3>2, <4>1
      <4>3. pins[c] # "parked"
        BY <3>2, <4>1, <4>2
      <4>4. QED
        BY <4>2, <4>3
    <3>3. radio[c].ps /\ HasPaPin(c) /\ pins[c] # "parked" => radio[c].front
      BY <3>1 DEF Keyable
    <3>4. radio[c].state \in {"primed", "rf"}
      BY <3>1 DEF Keyable
    <3>5. QED
      BY <1>4, <3>1, <3>2, <3>3, <3>4
  <2>2. QED
    BY <2>1 DEF PinSafe, Keyable, HasPaPin
<1>9. QED
  BY <1>2, <1>3, <1>7, <1>8, AtRest DEF Brackets

-----------------------------------------------------------------------------
LEMMA InitSafe == Init => IInv
<1> SUFFICES ASSUME Init PROVE IInv
  OBVIOUS
<1>1. \A c \in Channels : Reset(c) \in Channel /\ Reset(c).mode = "spi"
  BY ResetTyped
<1>2. TypeOK
  <2>1. radio \in [Channels -> Channel] /\ ch \in Channels /\ entry \in Channel
    BY <1>1 DEF Init
  <2>2. /\ op \in Ops /\ prevDataSrc \in Sources /\ pc \in ConfigurePcs
        /\ todo \subseteq Channels /\ status \in {"ok", "err"}
    BY DEF Init, Ops, Loads, ConfigurePcs, Sources
  <2>3. point \in 0..LastPoint
    BY RadioAssumption DEF Init
  <2>4. initialized \in BOOLEAN /\ fault \in BOOLEAN /\ pins \in [Channels -> Pins]
    BY DEF Init, Pins
  <2>5. QED
    BY <2>1, <2>2, <2>3, <2>4 DEF TypeOK
<1>3. PinSafe
  BY <1>1, RadioAssumption DEF Init, PinSafe
<1>4. Located /\ Bracketed /\ Swept /\ Configured /\ RestoredOnSuccess
  BY DEF Init, Located, Bracketed, Swept, Configured, RestoredOnSuccess, BracketPcs, SweepPcs,
         ConfigurePcs, Loads
<1>5. QED
  BY <1>2, <1>3, <1>4 DEF IInv

LEMMA StutterSafe == IInv /\ UNCHANGED vars => IInv'
  BY DEF IInv, vars, TypeOK, Located, PinSafe, Bracketed, Swept, Configured, RestoredOnSuccess,
         Keyable, Unkeyed, HasPaPin

LEMMA StepSafe == IInv /\ [Next]_vars => IInv'
<1> SUFFICES ASSUME IInv, [Next]_vars PROVE IInv'
  OBVIOUS
<1>1. ASSUME NEW c \in Channels, Command(c) PROVE IInv'
  BY <1>1, OneStepCalls, SetTxDataSrcStep, BracketBegins, SweepBegins DEF Command
<1>2. ASSUME NEW c \in Channels, Configure(c) PROVE IInv'
  BY <1>2, PrepareStep, TuneStep, SetModesStep DEF Configure
<1>3. QED
  BY <1>1, <1>2, StutterSafe, SetTxDpdEnableStep, LoadStep, ConfigurePinsStep, BracketStepSafe,
     SweepRunSafe, PinFollowStep
  DEF Next

(* The inductive invariant holds in every reachable state of every         *)
(* instance: whatever calls the command task makes, whichever of their     *)
(* library calls fail, and whenever the transceiver follows its pins.      *)
THEOREM RadioInvariant == Spec => []IInv
  BY InitSafe, StepSafe, PTL DEF Spec

(* Calls are where they can be and a sweep stays within its delay settings *)
(* (adrv9001.c:1941-1969).                                                 *)
THEOREM TypeCorrect == Spec => []TypeOK
<1>1. IInv => TypeOK
  BY DEF IInv
<1>2. QED
  BY <1>1, RadioInvariant, PTL

(* A setting for CALIBRATED is applied in CALIBRATED and under SPI control *)
(* (adrv9001.c:605-625, 1440-1475).                                        *)
THEOREM AppliedCalibrated == Spec => []ApplyOnlyCalibrated
<1>1. IInv => ApplyOnlyCalibrated
  BY DEF IInv, Bracketed, ApplyOnlyCalibrated
<1>2. QED
  BY <1>1, RadioInvariant, PTL

(* A channel handed to its enable pin is PRIMED or RF_ENABLED, where the   *)
(* pin means something (adrv9001.c:629-633, 1979).                         *)
THEOREM PinMeansSomething == Spec => []PinNeverCalibrated
<1>1. IInv => PinNeverCalibrated
  BY DEF IInv, PinSafe, Keyable, PinNeverCalibrated
<1>2. QED
  BY <1>1, RadioInvariant, PTL

(* A channel keyed by its pin has its amplifier on, as long as the pin of  *)
(* the amplifier is the output start-up made of it (adrv9001.c:1651-1655,  *)
(* 1706-1710).                                                             *)
THEOREM PinKeysFrontEnd == Spec => []KeyedWithFrontEnd
<1>1. IInv => KeyedWithFrontEnd
  BY DEF IInv, PinSafe, Keyable, KeyedWithFrontEnd, Powered
<1>2. QED
  BY <1>1, RadioInvariant, PTL

(* A call that took a channel to CALIBRATED and reports success has put    *)
(* back what it found (adrv9001.c:623-641, 1477-1494).                     *)
THEOREM SuccessRestores == Spec => []RestoredOnSuccess
<1>1. IInv => RestoredOnSuccess
  BY DEF IInv
<1>2. QED
  BY <1>1, RadioInvariant, PTL

-----------------------------------------------------------------------------
(* Sweeps.  Tidy says, per place in the sweep, where the data source it    *)
(* will put back is kept, which test modes may be on, and when the channel *)
(* has its mode again.                                                     *)

AtRestSource == {"delay", "prime", "normal", "restore", "best", "idle"}

Tidy ==
  op \in Sweeps /\ ch \in EnabledPorts /\ ~fault =>
    /\ pc \in AtRestSource \/ ch \notin TxChannels => radio[ch].source = entry.source
    /\ pc \notin AtRestSource /\ ch \in TxChannels => prevDataSrc = entry.source
    /\ pc \in {"restore", "best", "idle"} =>
         \A c \in Channels : Number[c] = Number[ch] => ~radio[c].testing
    /\ pc \in {"best", "idle"} => radio[ch].mode = entry.mode

-----------------------------------------------------------------------------
(* Keying a channel leaves its mode and its SSI alone.                     *)

SameSsi(r, q) == q.mode = r.mode /\ q.source = r.source /\ q.testing = r.testing

LEMMA StateKeepsSsi ==
  ASSUME NEW r \in Channel, NEW v \in States
  PROVE  SameSsi(r, [r EXCEPT !.state = v])
  BY Zenon DEF Channel, SameSsi

LEMMA PsKeepsSsi ==
  ASSUME NEW r \in Channel, NEW v \in BOOLEAN
  PROVE  SameSsi(r, [r EXCEPT !.ps = v])
  BY Zenon DEF Channel, SameSsi

LEMMA FrontKeepsSsi ==
  ASSUME NEW r \in Channel, NEW v \in BOOLEAN
  PROVE  SameSsi(r, [r EXCEPT !.front = v])
  BY Zenon DEF Channel, SameSsi

LEMMA TestingKeepsSource ==
  ASSUME NEW r \in Channel, NEW v \in BOOLEAN
  PROVE  LET q == [r EXCEPT !.testing = v]
         IN  q.mode = r.mode /\ q.source = r.source /\ q.testing = v
  BY Zenon DEF Channel

LEMMA SourceKeepsTesting ==
  ASSUME NEW r \in Channel, NEW v \in Sources
  PROVE  LET q == [r EXCEPT !.source = v]
         IN  q.mode = r.mode /\ q.source = v /\ q.testing = r.testing
  BY Zenon DEF Channel

LEMMA ModeKeepsSource ==
  ASSUME NEW r \in Channel, NEW v \in Modes
  PROVE  LET q == [r EXCEPT !.mode = v]
         IN  q.mode = v /\ q.source = r.source /\ q.testing = r.testing
  BY Zenon DEF Channel

LEMMA LitKeepsSsi ==
  ASSUME NEW c \in Channels, NEW r \in Channel, NEW lit \in StateCallback(c, r)
  PROVE  lit \in Channel /\ SameSsi(r, lit)
<1> DEFINE up == [r EXCEPT !.front = TRUE]
<1>1. lit = r \/ lit = up
  BY Zenon DEF StateCallback
<1>2. up \in Channel /\ SameSsi(r, up)
  BY FrontUpdate, FrontKeepsSsi
<1> HIDE DEF up
<1> QED
  BY <1>1, <1>2 DEF SameSsi

LEMMA PaKeepsSsi ==
  ASSUME NEW c \in Channels, NEW r \in Channel, NEW on \in BOOLEAN, NEW o \in SetPaEnable(c, r, on)
  PROVE  SameSsi(r, o.now)
<1> DEFINE up == [r EXCEPT !.front = on]
<1>1. o = Done(up) \/ o = Done(r) \/ o = Fails(r)
  BY Zenon DEF SetPaEnable
<1>2. SameSsi(r, up)
  BY FrontKeepsSsi
<1> HIDE DEF up
<1> QED
  BY <1>1, <1>2, Outcomes DEF SameSsi

LEMMA MoveKeepsSsi ==
  ASSUME NEW r \in Channel, NEW from, NEW to \in States, NEW o \in AdiMove(r, from, to)
  PROVE  SameSsi(r, o.now)
<1> DEFINE up == [r EXCEPT !.state = to]
<1>1. o = Done(up) \/ o = Fails(r)
  BY Zenon DEF AdiMove
<1>2. SameSsi(r, up)
  BY StateKeepsSsi
<1> HIDE DEF up
<1> QED
  BY <1>1, <1>2, Outcomes DEF SameSsi

LEMMA SwitchKeepsSsi ==
  ASSUME NEW c \in Channels, NEW r \in Channel, NEW from, NEW to \in {"primed", "rf"},
         NEW on \in BOOLEAN, NEW o \in Switch(c, r, from, to, on)
  PROVE  SameSsi(r, o.now)
<1>1. PICK m \in IF r.mode = "spi" THEN AdiMove(r, from, to) ELSE {Done(r)} :
        o \in IF m.ok THEN { IF p.ok THEN Done([p.now EXCEPT !.ps = on]) ELSE p :
                               p \in SetPaEnable(c, m.now, on) }
              ELSE {m}
  BY DEF Switch
<1>2. m.now \in Channel /\ SameSsi(r, m.now)
  <2>1. to \in States
    BY DEF States
  <2>2. CASE m \in AdiMove(r, from, to)
    BY <2>1, <2>2, MoveOutcome, MoveKeepsSsi
  <2>3. CASE m = Done(r)
    BY <2>3, Outcomes DEF SameSsi
  <2> QED
    BY <1>1, <2>2, <2>3
<1>3. CASE o = m
  BY <1>2, <1>3
<1>4. CASE \E p \in SetPaEnable(c, m.now, on) : o = IF p.ok THEN Done([p.now EXCEPT !.ps = on]) ELSE p
  <2>1. PICK p \in SetPaEnable(c, m.now, on) : o = IF p.ok THEN Done([p.now EXCEPT !.ps = on]) ELSE p
    BY <1>4
  <2> DEFINE up == [p.now EXCEPT !.ps = on]
  <2>2. p.now \in Channel /\ SameSsi(m.now, p.now)
    BY <1>2, PaOutcome, PaKeepsSsi
  <2>3. SameSsi(p.now, up)
    BY <2>2, PsKeepsSsi
  <2>4. o = Done(up) \/ o = p
    BY <2>1
  <2> HIDE DEF up
  <2> QED
    BY <1>2, <2>2, <2>3, <2>4, Outcomes, ZenonT(30) DEF SameSsi
<1> QED
  BY <1>1, <1>3, <1>4

LEMMA ToPrimedKeepsSsi ==
  ASSUME NEW c \in Channels, NEW r \in Channel, NEW o \in ToPrimed(c, r)
  PROVE  SameSsi(r, o.now)
<1>1. CASE \E lit \in StateCallback(c, r) :
               o \in Switch(c, lit, {"calibrated", "primed", "rf"}, "primed", FALSE)
  <2>1. PICK lit \in StateCallback(c, r) : o \in Switch(c, lit, {"calibrated", "primed", "rf"}, "primed", FALSE)
    BY <1>1
  <2>2. lit \in Channel /\ SameSsi(r, lit)
    BY LitKeepsSsi
  <2>3. "primed" \in {"primed", "rf"} /\ FALSE \in BOOLEAN
    OBVIOUS
  <2>4. SameSsi(lit, o.now)
    BY Zenon, <2>1, <2>2, <2>3, SwitchKeepsSsi
  <2> QED
    BY <2>2, <2>4 DEF SameSsi
<1>2. CASE o = Done(r) \/ o = Fails(r)
  BY <1>2, Outcomes DEF SameSsi
<1> QED
  BY <1>1, <1>2 DEF ToPrimed

LEMMA ToRfEnabledKeepsSsi ==
  ASSUME NEW c \in Channels, NEW r \in Channel, NEW o \in ToRfEnabled(c, r)
  PROVE  SameSsi(r, o.now)
<1>1. CASE \E lit \in StateCallback(c, r) : o \in Switch(c, lit, {"primed", "rf"}, "rf", TRUE)
  <2>1. PICK lit \in StateCallback(c, r) : o \in Switch(c, lit, {"primed", "rf"}, "rf", TRUE)
    BY <1>1
  <2>2. lit \in Channel /\ SameSsi(r, lit)
    BY LitKeepsSsi
  <2>3. "rf" \in {"primed", "rf"} /\ TRUE \in BOOLEAN
    OBVIOUS
  <2>4. SameSsi(lit, o.now)
    BY Zenon, <2>1, <2>2, <2>3, SwitchKeepsSsi
  <2> QED
    BY <2>2, <2>4 DEF SameSsi
<1>2. CASE o = Done(r) \/ o = Fails(r)
  BY <1>2, Outcomes DEF SameSsi
<1> QED
  BY <1>1, <1>2 DEF ToRfEnabled

(* What setting the mode and the test mode leave. *)
LEMMA ModeKeepsSsi ==
  ASSUME NEW c \in EnabledPorts, NEW r \in Channel, NEW v \in Modes, NEW o \in SetEnableMode(c, r, v)
  PROVE  /\ o.now.source = r.source /\ o.now.testing = r.testing
         /\ o.ok => o.now.mode = v
<1> DEFINE up == [r EXCEPT !.mode = v]
<1>1. o = Done(up) \/ o = Fails(r)
  BY Zenon DEF SetEnableMode, AdiSetMode
<1>2. up.mode = v /\ up.source = r.source /\ up.testing = r.testing
  BY ModeKeepsSource
<1> HIDE DEF up
<1> QED
  BY <1>1, <1>2, Outcomes

LEMMA TestKeepsSource ==
  ASSUME NEW r \in Channel, NEW o \in AdiTestMode(r, TRUE)
  PROVE  o.now.source = r.source
<1> DEFINE up == [r EXCEPT !.testing = TRUE]
<1>1. o = Done(up) \/ o = Fails(r)
  BY Zenon DEF AdiTestMode
<1>2. up.source = r.source
  BY TestingKeepsSource
<1> HIDE DEF up
<1> QED
  BY <1>1, <1>2, Outcomes

-----------------------------------------------------------------------------
(* The steps of a sweep.                                                   *)

(* What there is to show of a step that goes on with the same sweep. *)
TidySame(pcNow) ==
  /\ pcNow \in AtRestSource \/ ch \notin TxChannels => radio'[ch].source = entry.source
  /\ pcNow \notin AtRestSource /\ ch \in TxChannels => prevDataSrc' = entry.source
  /\ pcNow \in {"restore", "best", "idle"} =>
       \A c \in Channels : Number[c] = Number[ch] => ~radio'[c].testing
  /\ pcNow \in {"best", "idle"} => radio'[ch].mode = entry.mode

LEMMA SweepTidy ==
  ASSUME UNCHANGED <<op, ch, entry>>,
         op \in Sweeps /\ ch \in EnabledPorts /\ ~fault' => TidySame(pc')
  PROVE  Tidy'
  BY DEF Tidy, TidySame

(* A step of a sweep that has not failed, and what it has to go on. *)
LEMMA StepTidy ==
  ASSUME IInv, Tidy, pc \in SweepPcs, NEW outcomes, NEW next, NEW o \in outcomes,
         Put(ch, o.now), o.now \in Channel, fault' = (fault \/ ~o.ok), ~fault',
         op \in Sweeps, ch \in EnabledPorts
  PROVE  /\ o.ok /\ ~fault
         /\ radio'[ch] = o.now
         /\ \A d \in Channels : d # ch => radio'[d] = radio[d]
         /\ radio[ch] \in Channel /\ ch \in Channels
         /\ pc \in AtRestSource \/ ch \notin TxChannels => radio[ch].source = entry.source
         /\ pc \notin AtRestSource /\ ch \in TxChannels => prevDataSrc = entry.source
         /\ pc \in {"restore", "best", "idle"} =>
              \A c \in Channels : Number[c] = Number[ch] => ~radio[c].testing
         /\ pc \in {"best", "idle"} => radio[ch].mode = entry.mode
<1>1. radio \in [Channels -> Channel] /\ ch \in Channels /\ fault \in BOOLEAN
  BY DEF IInv, TypeOK
<1>2. o.ok /\ ~fault
  BY Zenon
<1>3. radio'[ch] = o.now /\ \A d \in Channels : d # ch => radio'[d] = radio[d]
  BY <1>1, PutEffect
<1> QED
  BY <1>1, <1>2, <1>3 DEF Tidy

LEMMA SetDelayTidy == IInv /\ Tidy /\ SetDelay => Tidy'
<1> SUFFICES ASSUME IInv, Tidy, SetDelay, op \in Sweeps, ch \in EnabledPorts, ~fault'
             PROVE  TidySame(pc')
  BY SweepTidy DEF SetDelay, SweepStep
<1>1. pc = "delay" /\ pc \in SweepPcs /\ UNCHANGED <<op, ch, entry>>
  BY DEF SetDelay, SweepStep, SweepPcs
<1>2. PICK o \in SetSsiDelay(radio[ch]) :
        /\ Put(ch, o.now) /\ fault' = (fault \/ ~o.ok)
        /\ IF o.ok /\ "prime" # "return" THEN pc' = "prime" /\ UNCHANGED todo ELSE Return
  BY Zenon DEF SetDelay, SweepStep, Put
<1>3. radio[ch] \in Channel /\ o.now = radio[ch]
  BY DelayOutcome DEF IInv, TypeOK
<1>4. /\ o.ok /\ radio'[ch] = radio[ch] /\ radio[ch].source = entry.source
  BY <1>1, <1>2, <1>3, StepTidy DEF AtRestSource
<1>5. pc' = "prime"
  BY <1>2, <1>4
<1> QED
  BY <1>4, <1>5 DEF TidySame, AtRestSource

LEMMA SetBestTidy == IInv /\ Tidy /\ SetBest => Tidy'
<1> SUFFICES ASSUME IInv, Tidy, SetBest, op \in Sweeps, ch \in EnabledPorts, ~fault'
             PROVE  TidySame(pc')
  BY SweepTidy DEF SetBest, SweepStep
<1>1. pc = "best" /\ pc \in SweepPcs /\ UNCHANGED <<op, ch, entry>>
  BY DEF SetBest, SweepStep, SweepPcs
<1>2. PICK o \in SetSsiDelay(radio[ch]) :
        Put(ch, o.now) /\ fault' = (fault \/ ~o.ok) /\ Return
  BY DEF SetBest, SweepStep, Put
<1>3. radio[ch] \in Channel /\ o.now = radio[ch]
  BY DelayOutcome DEF IInv, TypeOK
<1>4. /\ radio[ch].source = entry.source /\ radio[ch].mode = entry.mode
      /\ \A c \in Channels : Number[c] = Number[ch] => ~radio[c].testing
      /\ radio'[ch] = radio[ch] /\ \A d \in Channels : d # ch => radio'[d] = radio[d]
  BY <1>1, <1>2, <1>3, StepTidy DEF AtRestSource
<1>5. pc' = "idle"
  BY <1>2 DEF Return
<1> QED
  BY <1>4, <1>5 DEF TidySame, AtRestSource

LEMMA RestoreTidy == IInv /\ Tidy /\ Restore => Tidy'
<1> SUFFICES ASSUME IInv, Tidy, Restore, op \in Sweeps, ch \in EnabledPorts, ~fault'
             PROVE  TidySame(pc')
  BY SweepTidy DEF Restore, SweepStep
<1>1. pc = "restore" /\ pc \in SweepPcs /\ UNCHANGED <<op, ch, entry>>
  BY DEF Restore, SweepStep, SweepPcs
<1> DEFINE next == IF op = "sweep" THEN "return" ELSE "best"
<1>2. PICK o \in SetEnableMode(ch, radio[ch], entry.mode) :
        /\ Put(ch, o.now) /\ fault' = (fault \/ ~o.ok)
        /\ IF o.ok /\ next # "return" THEN pc' = next /\ UNCHANGED todo ELSE Return
  BY DEF Restore, SweepStep, Put
<1>3. /\ radio[ch] \in Channel /\ ch \in Channels /\ o.now \in Channel
      /\ o.now.source = radio[ch].source /\ o.now.testing = radio[ch].testing
      /\ o.ok => o.now.mode = entry.mode
  BY <1>1, SweepFacts, EnableModeOutcome, ModeKeepsSsi DEF Keeps
<1>4. /\ o.ok /\ radio[ch].source = entry.source
      /\ \A c \in Channels : Number[c] = Number[ch] => ~radio[c].testing
      /\ radio'[ch] = o.now /\ \A d \in Channels : d # ch => radio'[d] = radio[d]
  BY <1>1, <1>2, <1>3, StepTidy DEF AtRestSource
<1>5. pc' \in {"best", "idle"}
  BY <1>2, <1>4 DEF Return
<1>6. \A c \in Channels : Number[c] = Number[ch] => ~radio'[c].testing
  BY <1>3, <1>4
<1> QED
  BY <1>3, <1>4, <1>5, <1>6 DEF TidySame, AtRestSource

(* A test that goes on to a place where only the source matters. *)
LEMMA TestTidy ==
  ASSUME IInv, Tidy, pc \in SweepPcs, NEW outcomes, NEW next, NEW otherwise,
         TestStep(outcomes, next, otherwise), next \notin AtRestSource, op \in Sweeps,
         ch \in EnabledPorts, ~fault',
         \A o \in outcomes : /\ o.now \in Channel
                             /\ ch \notin TxChannels => o.now.source = radio[ch].source,
         ch \in TxChannels => prevDataSrc' = entry.source
  PROVE  TidySame(pc')
<1>1. PICK o \in outcomes :
        /\ Put(ch, o.now) /\ fault' = (fault \/ ~o.ok)
        /\ IF o.ok THEN pc' = next /\ UNCHANGED point
           ELSE /\ pc' = otherwise
                /\ point' = IF otherwise = "delay" THEN point + 1 ELSE point
  BY DEF TestStep
<1>2. /\ o.ok /\ radio'[ch] = o.now
      /\ ch \notin TxChannels => radio[ch].source = entry.source
  BY <1>1, StepTidy
<1>3. pc' = next
  BY <1>1, <1>2
<1> QED
  BY <1>2, <1>3 DEF TidySame, AtRestSource

LEMMA PrimeForTestTidy == IInv /\ Tidy /\ PrimeForTest => Tidy'
<1> SUFFICES ASSUME IInv, Tidy, PrimeForTest, op \in Sweeps, ch \in EnabledPorts, ~fault'
             PROVE  TidySame(pc')
  BY SweepTidy DEF PrimeForTest, TestStep
<1>1. pc = "prime" /\ pc \in SweepPcs /\ "arm" \notin AtRestSource
  BY DEF PrimeForTest, SweepPcs, AtRestSource
<1>2. TestStep(ToPrimed(ch, radio[ch]), "arm", NextPoint)
  BY DEF PrimeForTest
<1>3. \A o \in ToPrimed(ch, radio[ch]) : o.now \in Channel /\ o.now.source = radio[ch].source
  BY <1>1, SweepFacts, ToPrimedOutcome, ToPrimedKeepsSsi DEF Keeps, SameSsi
<1>4. ~fault
  BY Zenon, <1>2 DEF TestStep
<1>5. ch \in TxChannels => prevDataSrc' = entry.source
  BY <1>1, <1>4 DEF PrimeForTest, Tidy, AtRestSource
<1> QED
  BY <1>1, <1>2, <1>3, <1>5, TestTidy

LEMMA EnableForTestTidy == IInv /\ Tidy /\ EnableForTest => Tidy'
<1> SUFFICES ASSUME IInv, Tidy, EnableForTest, op \in Sweeps, ch \in EnabledPorts, ~fault'
             PROVE  TidySame(pc')
  BY SweepTidy DEF EnableForTest, TestStep
<1>1. pc = "enable" /\ pc \in SweepPcs /\ "check" \notin AtRestSource
  BY DEF EnableForTest, SweepPcs, AtRestSource
<1>2. TestStep(ToRfEnabled(ch, radio[ch]), "check", NextPoint)
  BY DEF EnableForTest
<1>3. \A o \in ToRfEnabled(ch, radio[ch]) : o.now \in Channel /\ o.now.source = radio[ch].source
  BY <1>1, SweepFacts, ToRfEnabledOutcome, ToRfEnabledKeepsSsi DEF Keeps, SameSsi
<1>4. ~fault
  BY Zenon, <1>2 DEF TestStep
<1>5. ch \in TxChannels => prevDataSrc' = entry.source
  BY <1>1, <1>4 DEF EnableForTest, Tidy, AtRestSource
<1> QED
  BY <1>1, <1>2, <1>3, <1>5, TestTidy

LEMMA ArmTidy == IInv /\ Tidy /\ Arm => Tidy'
<1> SUFFICES ASSUME IInv, Tidy, Arm, op \in Sweeps, ch \in EnabledPorts, ~fault'
             PROVE  TidySame(pc')
  BY SweepTidy DEF Arm, TestStep
<1> DEFINE outcomes == IF ch \in TxChannels THEN {Done([radio[ch] EXCEPT !.source = "pattern"])}
                       ELSE AdiTestMode(radio[ch], TRUE)
<1>1. pc = "arm" /\ pc \in SweepPcs /\ "enable" \notin AtRestSource /\ "pattern" \in Sources
  BY DEF Arm, SweepPcs, AtRestSource, Sources
<1>2. TestStep(outcomes, "enable", NextPoint)
  BY DEF Arm
<1>3. ASSUME NEW o \in outcomes
      PROVE  o.now \in Channel /\ (ch \notin TxChannels => o.now.source = radio[ch].source)
  <2>1. o = Done([radio[ch] EXCEPT !.source = "pattern"]) \/ o \in AdiTestMode(radio[ch], TRUE)
    BY Zenon
  <2>2. o.now \in Channel
    BY Zenon, <1>1, <2>1, SweepFacts, PatternOutcome DEF Keeps
  <2>3. ch \notin TxChannels => o.now.source = radio[ch].source
    BY Zenon, <1>1, SweepFacts, TestKeepsSource
  <2> QED
    BY <2>2, <2>3
<1> HIDE DEF outcomes
<1>4. ~fault
  BY Zenon, <1>2 DEF TestStep
<1>5. ch \in TxChannels => prevDataSrc' = entry.source
  BY <1>1, <1>4 DEF Arm, Tidy, AtRestSource
<1> QED
  BY <1>1, <1>2, <1>3, <1>5, TestTidy

LEMMA CheckTidy == IInv /\ Tidy /\ Check => Tidy'
<1> SUFFICES ASSUME IInv, Tidy, Check, op \in Sweeps, ch \in EnabledPorts, ~fault'
             PROVE  TidySame(pc')
  BY SweepTidy DEF Check, TestStep
<1> DEFINE outcomes == IF ch \in TxChannels THEN AdiTestMode(radio[ch], TRUE) ELSE {Done(radio[ch])}
<1>1. pc = "check" /\ pc \in SweepPcs /\ "settle" \notin AtRestSource /\ "pattern" \in Sources
  BY DEF Check, SweepPcs, AtRestSource, Sources
<1>2. TestStep(outcomes, "settle", "settle")
  BY DEF Check
<1>3. ASSUME NEW o \in outcomes
      PROVE  o.now \in Channel /\ o.now.source = radio[ch].source
  <2>1. o = Done(radio[ch]) \/ o \in AdiTestMode(radio[ch], TRUE)
    BY Zenon
  <2>2. o.now \in Channel
    BY Zenon, <1>1, <2>1, SweepFacts, PatternOutcome DEF Keeps
  <2>3. o.now.source = radio[ch].source
    BY Zenon, <1>1, <2>1, SweepFacts, Outcomes, TestKeepsSource
  <2> QED
    BY <2>2, <2>3
<1> HIDE DEF outcomes
<1>4. ~fault
  BY Zenon, <1>2 DEF TestStep
<1>5. ch \in TxChannels => prevDataSrc' = entry.source
  BY <1>1, <1>4 DEF Check, Tidy, AtRestSource
<1> QED
  BY <1>1, <1>2, <1>3, <1>5, TestTidy

LEMMA SettleTidy == IInv /\ Tidy /\ Settle => Tidy'
<1> SUFFICES ASSUME IInv, Tidy, Settle, op \in Sweeps, ch \in EnabledPorts, ~fault'
             PROVE  TidySame(pc')
  BY SweepTidy DEF Settle
<1>1. pc = "settle" /\ pc \in SweepPcs /\ pc \notin AtRestSource
  BY DEF Settle, SweepPcs, AtRestSource
<1>2. PICK o \in ToPrimed(ch, radio[ch]) :
        /\ Put(ch, IF ch \in TxChannels THEN [o.now EXCEPT !.source = prevDataSrc] ELSE o.now)
        /\ fault' = (fault \/ ~o.ok)
  BY DEF Settle
<1> DEFINE up == [o.now EXCEPT !.source = prevDataSrc]
           now == IF ch \in TxChannels THEN up ELSE o.now
<1>3. /\ o.now \in Channel /\ o.now.source = radio[ch].source /\ ch \in Channels
      /\ radio \in [Channels -> Channel] /\ prevDataSrc \in Sources
  BY <1>1, SweepFacts, ToPrimedOutcome, ToPrimedKeepsSsi DEF Keeps, SameSsi
<1>4. up \in Channel /\ up.source = prevDataSrc
  BY <1>3, SourceUpdate
<1>5. Put(ch, now)
  BY <1>2
<1>6. ch \in TxChannels => now = up
  OBVIOUS
<1>7. ch \notin TxChannels => now = o.now
  OBVIOUS
<1> HIDE DEF up, now
<1>8. radio'[ch] = now
  BY <1>3, <1>4, <1>5, <1>6, <1>7, PutEffect
<1>9. ~fault
  BY Zenon, <1>2
<1>10. /\ ch \notin TxChannels => radio[ch].source = entry.source
       /\ ch \in TxChannels => prevDataSrc = entry.source
  BY <1>1, <1>9 DEF Tidy
<1>11. radio'[ch].source = entry.source
  BY <1>3, <1>4, <1>6, <1>7, <1>8, <1>10
<1>12. pc' \in {"delay", "normal"}
  BY DEF Settle, NextPoint
<1> QED
  BY <1>11, <1>12 DEF TidySame, AtRestSource

LEMMA NormalTidy == IInv /\ Tidy /\ Normal => Tidy'
<1> SUFFICES ASSUME IInv, Tidy, Normal, op \in Sweeps, ch \in EnabledPorts, ~fault'
             PROVE  TidySame(pc')
  BY SweepTidy DEF Normal
<1> DEFINE numbered == {c \in Channels : Number[c] = Number[ch]}
<1>1. PICK off \in { {}, {c \in Channels \ TxChannels : Number[c] = Number[ch]}, numbered } :
        /\ radio' = [c \in Channels |-> IF c \in off THEN [radio[c] EXCEPT !.testing = FALSE] ELSE radio[c]]
        /\ \/ off = numbered /\ pc' = "restore" /\ UNCHANGED <<todo, status, fault>>
           \/ Return /\ status' = "err" /\ fault' = TRUE
  BY Zenon DEF Normal
<1>2. off = numbered /\ pc' = "restore" /\ fault' = fault
  BY Zenon, <1>1
<1>3. pc = "normal" /\ pc \in SweepPcs
  BY DEF Normal, SweepPcs
<1>4. ch \in Channels /\ radio \in [Channels -> Channel]
  BY <1>3, SweepFacts
<1>5. ASSUME NEW c \in Channels
      PROVE  /\ radio'[c].source = radio[c].source
             /\ Number[c] = Number[ch] => ~radio'[c].testing
  <2> DEFINE up == [radio[c] EXCEPT !.testing = FALSE]
  <2>1. up.source = radio[c].source /\ up.testing = FALSE
    BY <1>4, TestingKeepsSource
  <2>2. (radio'[c] = up) \/ (radio'[c] = radio[c] /\ c \notin off)
    BY Zenon, <1>1
  <2> HIDE DEF up
  <2> QED
    BY <1>2, <2>1, <2>2
<1>6. radio'[ch].source = entry.source
  BY <1>2, <1>3, <1>4, <1>5 DEF Tidy, AtRestSource
<1>7. \A c \in Channels : Number[c] = Number[ch] => ~radio'[c].testing
  BY <1>5
<1> QED
  BY <1>2, <1>6, <1>7 DEF TidySame, AtRestSource

-----------------------------------------------------------------------------
(* The steps around a sweep.                                               *)

LEMMA SweepBeginsTidy ==
  ASSUME IInv, NEW c \in Channels, Sweep(c)
  PROVE  Tidy'
<1>1. PICK call \in Sweeps :
        /\ op' = call /\ ch' = c /\ entry' = radio[c]
        /\ \/ call = "calibrate" /\ c \notin EnabledPorts
           \/ \E o \in {Fails(radio[c])} \cup SetEnableMode(c, radio[c], "spi") :
                  /\ Put(c, o.now)
                  /\ pc' = IF o.ok THEN "delay" ELSE "idle"
                  /\ fault' = ~o.ok
  BY DEF Sweep
<1>2. CASE ch' \notin EnabledPorts \/ fault'
  BY <1>2 DEF Tidy
<1>3. CASE c \in EnabledPorts /\ ~fault'
  <2>1. PICK o \in {Fails(radio[c])} \cup SetEnableMode(c, radio[c], "spi") :
          /\ Put(c, o.now) /\ pc' = (IF o.ok THEN "delay" ELSE "idle") /\ fault' = ~o.ok
    BY <1>1, <1>3
  <2>2. o.ok
    BY Zenon, <1>3, <2>1
  <2>3. o \in SetEnableMode(c, radio[c], "spi") /\ radio[c] \in Channel
    BY <2>1, <2>2, ChannelFacts, Outcomes
  <2>4. o.now \in Channel /\ o.now.source = radio[c].source
    BY <1>3, <2>3, EnableModeOutcome, ModeKeepsSsi DEF Keeps, Modes
  <2>5. radio'[c] = o.now
    BY <2>1, <2>4, ChannelFacts, PutEffect
  <2>6. pc' = "delay"
    BY <2>1, <2>2
  <2>7. ch' = c /\ entry' = radio[c]
    BY <1>1
  <2> QED
    BY <2>4, <2>5, <2>6, <2>7 DEF Tidy, AtRestSource
<1> QED
  BY <1>1, <1>2, <1>3

LEMMA PinFollowTidy ==
  ASSUME IInv, Tidy, NEW c \in Channels, PinFollow(c)
  PROVE  Tidy'
<1>1. PICK s \in {"primed", "rf"} : Put(c, [radio[c] EXCEPT !.state = s])
  BY DEF PinFollow
<1>2. UNCHANGED <<op, ch, entry, prevDataSrc, pc, fault>>
  BY DEF PinFollow, locals
<1> DEFINE up == [radio[c] EXCEPT !.state = s]
<1>3. up \in Channel /\ SameSsi(radio[c], up)
  <2>1. s \in States
    BY DEF States
  <2> QED
    BY <2>1, ChannelFacts, StateUpdate, StateKeepsSsi
<1>4. Put(c, up)
  BY <1>1
<1> HIDE DEF up
<1>5. \A d \in Channels : SameSsi(radio[d], radio'[d])
  BY <1>3, <1>4, ChannelFacts, PutEffect DEF SameSsi
<1>6. ch \in Channels
  BY DEF IInv, TypeOK
<1> QED
  BY <1>2, <1>5, <1>6 DEF Tidy, SameSsi, AtRestSource

(* Nothing else leaves a sweep as the call that is, or was last, made. *)
LEMMA OtherTidy ==
  ASSUME op' \notin Sweeps
  PROVE  Tidy'
  BY DEF Tidy

LEMMA BracketStepTidy == IInv /\ BracketStep => Tidy'
<1> SUFFICES ASSUME IInv, BracketStep PROVE op' \notin Sweeps
  BY OtherTidy
<1>1. pc \in BracketPcs /\ op' = op
  BY DEF BracketStep, TakeOver, Unprime, Calibrate, Apply, Reprime, Repin, Reenable, BracketPcs, locals
<1> QED
  BY <1>1 DEF IInv, Located, Brackets, Sweeps

LEMMA ConfigureTidy ==
  ASSUME IInv, NEW c \in Channels, Load \/ ConfigurePins \/ Configure(c)
  PROVE  Tidy'
<1>1. pc \in ConfigurePcs /\ op' = op
  BY DEF Load, ConfigurePins, Configure, Prepare, Tune, SetModes, Stage, ConfigurePcs
<1> QED
  BY <1>1, OtherTidy DEF IInv, Located, Loads, Sweeps

LEMMA SweepRunTidy == IInv /\ Tidy /\ SweepRun => Tidy'
  BY SetDelayTidy, PrimeForTestTidy, ArmTidy, EnableForTestTidy, CheckTidy, SettleTidy,
     NormalTidy, RestoreTidy, SetBestTidy DEF SweepRun

LEMMA CommandTidy ==
  ASSUME IInv, NEW c \in Channels, Command(c)
  PROVE  Tidy'
<1>1. CASE Sweep(c)
  BY <1>1, SweepBeginsTidy
<1>2. CASE Bracket(c)
  <2>1. op' \in Brackets
    BY <1>2 DEF Bracket, Begin
  <2> QED
    BY <2>1, OtherTidy DEF Brackets, Sweeps
<1>3. CASE \/ CallToPrimed(c) \/ CallToCalibrated(c) \/ CallToRfEnabled(c) \/ CallSetTestMode(c)
           \/ SetTxDataSrc(c)
  <2>1. op' \in {"toPrimed", "toCalibrated", "toRfEnabled", "testMode", "none"}
    BY <1>3 DEF CallToPrimed, CallToCalibrated, CallToRfEnabled, CallSetTestMode, SetTxDataSrc, Call
  <2> QED
    BY <2>1, OtherTidy DEF Sweeps
<1> QED
  BY <1>1, <1>2, <1>3 DEF Command

LEMMA StaysTidy == IInv /\ Tidy /\ [Next]_vars => Tidy'
<1> SUFFICES ASSUME IInv, Tidy, [Next]_vars PROVE Tidy'
  OBVIOUS
<1>1. CASE SetTxDpdEnable
  BY <1>1, OtherTidy DEF SetTxDpdEnable, Sweeps
<1>2. CASE Load \/ ConfigurePins
  <2>1. ch \in Channels
    BY DEF IInv, TypeOK
  <2> QED
    BY <1>2, <2>1, ConfigureTidy
<1>3. CASE UNCHANGED vars
  BY <1>3 DEF Tidy, vars, AtRestSource
<1>4. CASE \E c \in Channels : PinFollow(c) \/ Command(c) \/ Configure(c)
  BY <1>4, PinFollowTidy, CommandTidy, ConfigureTidy
<1>5. CASE BracketStep \/ SweepRun
  BY <1>5, BracketStepTidy, SweepRunTidy
<1> QED
  BY <1>1, <1>2, <1>3, <1>4, <1>5 DEF Next

(* A sweep or calibration in which nothing failed leaves no test behind,   *)
(* in the transceiver or on the transmit data path, and the mode is the    *)
(* one it found, whatever the pins do meanwhile (adrv9001.c:1888-1922,     *)
(* 1971-1980).                                                             *)
THEOREM SweepLeavesNoTrace == Spec => []SweepCleansUp
<1>1. Init => IInv /\ Tidy
  <2>1. Init => Tidy
    BY DEF Init, Tidy, Sweeps
  <2> QED
    BY <2>1, InitSafe
<1>2. IInv /\ Tidy /\ [Next]_vars => (IInv /\ Tidy)'
  BY StepSafe, StaysTidy
<1>3. IInv /\ Tidy => SweepCleansUp
  BY DEF IInv, TypeOK, Tidy, SweepCleansUp, AtRestSource
<1> QED
  BY <1>1, <1>2, <1>3, PTL DEF Spec

-----------------------------------------------------------------------------
(* The choice of a delay from the results of a sweep: SsiCal, whose names  *)
(* are used here with  in front.                                       *)
(*                                                                         *)
(* While the table is scored in place a point still tells passes from      *)
(* failures, so a score is that of the passes to the left and to the right *)
(* of its point (CalTable).  Of the points of one run the middle scores    *)
(* highest (MiddleIsBest), and of two middles that of the longer run       *)
(* (LongerIsBetter): the first of the highest scores is the middle of the  *)
(* first of the longest runs (FirstOfHighest).                             *)

(* The passes to the right of x, and to its left, up to the first gap. *)
RightOf(P, x, n) ==
  /\ n \in 0 .. Columns - 1 - x
  /\ \A z \in Data : x < z /\ z <= x + n => z \in P
  /\ x + n + 1 \in Data => x + n + 1 \notin P
LeftOf(P, x, n) ==
  /\ n \in 0 .. x
  /\ \A z \in Data : x - n <= z /\ z < x => z \in P
  /\ x - n - 1 \in Data => x - n - 1 \notin P

(* What a point is worth that sees l passes to its left, r to its right.   *)
Amount(l, r) == 1 + Gain(l) + Gain(r)

Worth(P, x, s) ==
  \E l, r \in 0 .. 7 : RightOf(P, x, r) /\ LeftOf(P, x, l) /\ s = Amount(l, r)

LEMMA LeastNumber ==
  ASSUME NEW T, T \subseteq Nat, T # {}
  PROVE  \E n \in T : \A m \in T : n <= m
<1> DEFINE R == {ss \in Nat \X Nat : ss[1] < ss[2]}
<1>1. IsWellFoundedOn(R, Nat)
  BY NatLessThanWellFounded DEF OpToRel
<1>2. PICK n \in T : \A m \in T : ~ (<<m, n>> \in R)
  <2> HIDE DEF R
  <2> QED
    BY <1>1, WFMin
<1>3. \A m \in T : ~ (m < n)
  BY <1>2
<1> QED
  BY <1>3

LEMMA ModRange ==
  ASSUME NEW m \in Int, NEW n \in Nat \ {0}
  PROVE  m % n \in 0 .. n - 1 /\ m \div n \in Int /\ m = (m \div n) * n + (m % n)
  OBVIOUS

LEMMA DivMod ==
  ASSUME NEW q \in Int, NEW n \in Nat \ {0}, NEW r \in 0 .. n - 1
  PROVE  (q * n + r) \div n = q /\ (q * n + r) % n = r
  OBVIOUS

LEMMA Gains ==
  /\ Gain(0) = 0   /\ Gain(1) = 128 /\ Gain(2) = 192 /\ Gain(3) = 224
  /\ Gain(4) = 240 /\ Gain(5) = 248 /\ Gain(6) = 252 /\ Gain(7) = 254
  BY DEF Gain

LEMMA GainTable ==
  \A n \in 0 .. 7 :
    \/ n = 0 /\ Gain(n) = 0
    \/ n = 1 /\ Gain(n) = 128
    \/ n = 2 /\ Gain(n) = 192
    \/ n = 3 /\ Gain(n) = 224
    \/ n = 4 /\ Gain(n) = 240
    \/ n = 5 /\ Gain(n) = 248
    \/ n = 6 /\ Gain(n) = 252
    \/ n = 7 /\ Gain(n) = 254
<1>1. \A n \in 0 .. 7 :
         n = 0 \/ n = 1 \/ n = 2 \/ n = 3 \/ n = 4 \/ n = 5 \/ n = 6 \/ n = 7
  OBVIOUS
<1> QED
  BY <1>1, Gains

LEMMA AmountGrows ==
  ASSUME NEW l \in 0 .. 7, NEW r \in 0 .. 7
  PROVE  /\ Amount(l, r) \in 1 .. 511 /\ Amount(l, r) = Amount(r, l)
         /\ Amount(l, r) = 1 + Gain(r) + Gain(l)
         /\ \A g \in 0 .. 7, j \in 0 .. 7 : g <= l /\ j <= r => Amount(g, j) <= Amount(l, r)
  BY GainTable, SMTT(60) DEF Amount

(* A point in the middle is worth more than any other of its run. *)
LEMMA MiddleIsBest ==
  ASSUME NEW l \in 0 .. 7, NEW r \in 0 .. 7, l + r <= 7,
         NEW h \in 0 .. 7, NEW k \in 0 .. 7, k - h \in {0, 1}, h + k = l + r
  PROVE  \/ l = h /\ r = k
         \/ l = k /\ r = h /\ h < k
         \/ Amount(l, r) < Amount(h, k)
  BY GainTable, SMTT(60) DEF Amount

(* The middle of a longer run is worth more. *)
LEMMA LongerIsBetter ==
  ASSUME NEW h \in 0 .. 7, NEW k \in 0 .. 7, k - h \in {0, 1}, h + k <= 7,
         NEW g \in 0 .. 7, NEW j \in 0 .. 7, j - g \in {0, 1}, g + j <= 7,
         Amount(g, j) <= Amount(h, k)
  PROVE  g + j <= h + k
  BY GainTable, SMTT(60) DEF Amount

LEMMA RightIs ==
  ASSUME NEW row \in [Data -> Nat], NEW x \in Data
  PROVE  RightOf({z \in Data : row[z] > 0}, x, ToRight(row, x))
<1> DEFINE P == {z \in Data : row[z] > 0}
           T == {n \in 0 .. Columns - 1 - x : x + n + 1 \in Data => x + n + 1 \notin P}
<1>1. Columns \in Nat /\ x \in Nat /\ x <= Columns - 1
  BY CalAssumption DEF Data
<1>2. T # {} /\ T \subseteq Nat
  <2>1. Columns - 1 - x \in 0 .. Columns - 1 - x /\ x + (Columns - 1 - x) + 1 \notin Data
    BY <1>1 DEF Data
  <2>2. T \subseteq Nat
    BY <1>1
  <2>3. Columns - 1 - x \in T
    BY <2>1, Zenon
  <2> QED
    BY <2>2, <2>3, Zenon
<1>3. PICK n \in T : \A m \in T : n <= m
  <2> HIDE DEF T
  <2> QED
    BY <1>2, LeastNumber
<1>4. \A z \in Data : x < z /\ z <= x + n => z \in P
  <2> SUFFICES ASSUME NEW z \in Data, x < z, z <= x + n, z \notin P PROVE FALSE
    OBVIOUS
  <2>1. z - x - 1 \in T
    BY <1>1, <1>3 DEF Data
  <2>2. n <= z - x - 1
    BY <1>3, <2>1
  <2> QED
    BY <1>1, <1>3, <2>2 DEF Data
<1>5. /\ \A z \in Data : x < z /\ z <= x + n => row[z] > 0
      /\ x + n + 1 \in Data => row[x + n + 1] = 0
  BY <1>3, <1>4
<1>6. /\ ToRight(row, x) \in 0 .. Columns - 1 - x
      /\ \A z \in Data : x < z /\ z <= x + ToRight(row, x) => row[z] > 0
      /\ x + ToRight(row, x) + 1 \in Data => row[x + ToRight(row, x) + 1] = 0
  BY <1>3, <1>5 DEF ToRight, Data, Data
<1> QED
  BY <1>6 DEF RightOf

LEMMA LeftIs ==
  ASSUME NEW row \in [Data -> Nat], NEW x \in Data
  PROVE  LeftOf({z \in Data : row[z] > 0}, x, ToLeft(row, x))
<1> DEFINE P == {z \in Data : row[z] > 0}
           T == {n \in 0 .. x : x - n - 1 \in Data => x - n - 1 \notin P}
<1>1. Columns \in Nat /\ x \in Nat /\ x <= Columns - 1
  BY CalAssumption DEF Data
<1>2. T # {} /\ T \subseteq Nat
  <2>1. x \in T
    BY <1>1 DEF Data
  <2>2. T \subseteq Nat
    BY <1>1
  <2> QED
    BY <2>1, <2>2, Zenon
<1>3. PICK n \in T : \A m \in T : n <= m
  <2> HIDE DEF T
  <2> QED
    BY <1>2, LeastNumber
<1>4. \A z \in Data : x - n <= z /\ z < x => z \in P
  <2> SUFFICES ASSUME NEW z \in Data, x - n <= z, z < x, z \notin P PROVE FALSE
    OBVIOUS
  <2>1. x - z - 1 \in T
    BY <1>1, <1>3 DEF Data
  <2>2. n <= x - z - 1
    BY <1>3, <2>1
  <2> QED
    BY <1>1, <1>3, <2>2 DEF Data
<1>5. /\ \A z \in Data : x - n <= z /\ z < x => row[z] > 0
      /\ x - n - 1 \in Data => row[x - n - 1] = 0
  BY <1>3, <1>4
<1>6. /\ ToLeft(row, x) \in 0 .. x
      /\ \A z \in Data : x - ToLeft(row, x) <= z /\ z < x => row[z] > 0
      /\ x - ToLeft(row, x) - 1 \in Data => row[x - ToLeft(row, x) - 1] = 0
  BY <1>3, <1>5 DEF ToLeft, Data, Data
<1> QED
  BY <1>6 DEF LeftOf

LEMMA Scores ==
  ASSUME NEW row \in [Data -> 0 .. 511], NEW x \in Data, row[x] = 1
  PROVE  /\ Worth({z \in Data : row[z] > 0}, x, Score(row, x))
         /\ Score(row, x) \in 1 .. 511
<1> DEFINE P == {z \in Data : row[z] > 0}
<1>1. RightOf(P, x, ToRight(row, x)) /\ LeftOf(P, x, ToLeft(row, x))
  BY RightIs, LeftIs
<1>2. PICK l, r : l = ToLeft(row, x) /\ r = ToRight(row, x)
  OBVIOUS
<1>3. RightOf(P, x, r) /\ LeftOf(P, x, l)
  BY <1>1, <1>2
<1>4. r \in 0 .. 7 /\ l \in 0 .. 7
  BY <1>3, CalAssumption DEF RightOf, LeftOf, Data
<1>5. Amount(l, r) \in 1 .. 511 /\ Amount(l, r) = 1 + Gain(r) + Gain(l)
  BY <1>4, AmountGrows, ZenonT(60)
<1>6. PICK s : s = Score(row, x)
  OBVIOUS
<1>7. s = 1 + Gain(r) + Gain(l)
  BY <1>2, <1>6 DEF Score
<1>8. s \in 1 .. 511 /\ s = Amount(l, r)
  BY <1>5, <1>7
<1> HIDE DEF P
<1>9. Worth(P, x, s)
  BY <1>3, <1>4, <1>8 DEF Worth
<1> QED
  BY <1>6, <1>8, <1>9 DEF P

(* From every point of a run one sees its two ends. *)
LEMMA RunEnds ==
  ASSUME NEW P \in SUBSET Data, NEW x \in P,
         NEW l \in Nat, NEW r \in Nat, RightOf(P, x, r), LeftOf(P, x, l),
         NEW m \in x - l .. x + r,
         NEW g \in Nat, NEW j \in Nat, RightOf(P, m, j), LeftOf(P, m, g)
  PROVE  m - g = x - l /\ m + j = x + r
<1>1. /\ Columns \in Nat /\ x \in Nat /\ x <= Columns - 1 /\ m \in Int
      /\ Data = 0 .. Columns - 1
      /\ l <= x /\ x + r <= Columns - 1
  BY CalAssumption DEF Data, RightOf, LeftOf
<1>2. \A z \in Data : x - l <= z /\ z <= x + r => z \in P
  BY <1>1 DEF RightOf, LeftOf
<1>3. g <= m /\ m + j <= Columns - 1
  BY <1>1 DEF RightOf, LeftOf
<1>4. m \in P
  BY <1>1, <1>2
<1>5. \A z \in Data : m - g <= z /\ z <= m + j => z \in P
  BY <1>1, <1>4 DEF RightOf, LeftOf
<1>6. m + j = x + r
  <2>1. CASE m + j < x + r
    BY <1>1, <1>2, <1>3, <2>1 DEF RightOf
  <2>2. CASE m + j > x + r
    BY <1>1, <1>3, <1>5, <2>2 DEF RightOf
  <2> QED
    BY <1>1, <2>1, <2>2
<1>7. m - g = x - l
  <2>1. CASE m - g > x - l
    BY <1>1, <1>2, <1>3, <2>1 DEF LeftOf
  <2>2. CASE m - g < x - l
    BY <1>1, <1>3, <1>5, <2>2 DEF LeftOf
  <2> QED
    BY <1>1, <2>1, <2>2
<1> QED
  BY <1>6, <1>7

(* Every point of a run sees at least as far as its ends. *)
LEMMA RunInside ==
  ASSUME NEW P \in SUBSET Data, NEW a \in Data, NEW b \in Data,
         \A z \in a .. b : z \in P, NEW m \in a .. b,
         NEW g \in Nat, NEW j \in Nat, RightOf(P, m, j), LeftOf(P, m, g)
  PROVE  m - a <= g /\ b - m <= j
<1>1. /\ Columns \in Nat /\ a \in Nat /\ b \in Nat /\ b <= Columns - 1 /\ m \in Nat
      /\ Data = 0 .. Columns - 1
  BY CalAssumption DEF Data
<1>2. m - a <= g
  <2>1. CASE m - a > g
    <3>1. m - g - 1 \in Data /\ m - g - 1 \in a .. b
      BY <1>1, <2>1
    <3> QED
      BY <3>1 DEF LeftOf
  <2> QED
    BY <1>1, <2>1
<1>3. b - m <= j
  <2>1. CASE b - m > j
    <3>1. m + j + 1 \in Data /\ m + j + 1 \in a .. b
      BY <1>1, <2>1
    <3> QED
      BY <3>1 DEF RightOf
  <2> QED
    BY <1>1, <2>1
<1> QED
  BY <1>2, <1>3

-----------------------------------------------------------------------------
(* The place of a point in the order in which the points are visited.      *)

Place(y, x) == y * Columns + x

LEMMA Places ==
  ASSUME NEW y \in Clk, NEW x \in Data
  PROVE  Place(y, x) \in 0 .. Points - 1 /\ Place(y, x) \div Columns = y /\ Place(y, x) % Columns = x
<1>1. /\ Columns \in Nat \ {0} /\ Rows \in Nat \ {0} /\ y \in Nat /\ x \in 0 .. Columns - 1
      /\ Rows - 1 - y \in Nat
  BY CalAssumption DEF Clk, Data
<1>2. Place(y, x) \div Columns = y /\ Place(y, x) % Columns = x
  BY <1>1, DivMod DEF Place
<1>3. (Rows - 1 - y) * Columns \in Nat /\ y * Columns \in Nat
  BY <1>1
<1>4. Rows * Columns = (Rows - 1 - y) * Columns + y * Columns + Columns
  BY <1>1
<1>5. Place(y, x) \in 0 .. Points - 1
  <2> DEFINE u == (Rows - 1 - y) * Columns
             v == y * Columns
             w == Rows * Columns
  <2>1. u \in Nat /\ v \in Nat /\ w = u + v + Columns
    BY <1>3, <1>4
  <2>2. Points = w /\ Place(y, x) = v + x
    BY DEF Points, Place
  <2> HIDE DEF u, v, w
  <2> QED
    BY <1>1, <2>1, <2>2
<1> QED
  BY <1>2, <1>5

LEMMA PointAt ==
  ASSUME NEW n \in Nat, n < Points
  PROVE  n \div Columns \in Clk /\ n % Columns \in Data /\ n = Place(n \div Columns, n % Columns)
<1> DEFINE d == n \div Columns
           r == n % Columns
<1>1. Columns \in Nat \ {0} /\ Rows \in Nat \ {0}
  BY CalAssumption
<1>2. r \in 0 .. Columns - 1 /\ d \in Int /\ n = d * Columns + r
  BY <1>1, ModRange
<1> HIDE DEF d, r
<1>3. d >= 0
  <2>1. CASE d <= 0 - 1
    <3>1. (0 - 1 - d) * Columns \in Nat
      BY <1>1, <1>2, <2>1
    <3>2. (0 - 1 - d) * Columns = 0 - Columns - d * Columns
      BY <1>1, <1>2
    <3> QED
      BY <1>1, <1>2, <3>1, <3>2
  <2> QED
    BY <1>2, <2>1
<1>4. d <= Rows - 1
  <2>1. CASE d >= Rows
    <3>1. (d - Rows) * Columns \in Nat
      BY <1>1, <1>2, <2>1
    <3>2. (d - Rows) * Columns = d * Columns - Rows * Columns
      BY <1>1, <1>2
    <3> QED
      BY <1>1, <1>2, <3>1, <3>2 DEF Points
  <2> QED
    BY <1>1, <1>2, <2>1
<1> QED
  BY <1>1, <1>2, <1>3, <1>4 DEF d, r, Place, Clk, Data

-----------------------------------------------------------------------------
(* What the table holds: nothing where nothing passed, the bare one where  *)
(* the scoring has not been, the score everywhere else.                    *)

CalTable ==
  \A y \in Clk : \A x \in Data :
    /\ x \notin passes[y] => results[y][x] = 0
    /\ x \in passes[y] =>
         /\ results[y][x] > 0
         /\ Place(y, x) >= visited => results[y][x] = 1
         /\ Place(y, x) < visited => Worth(passes[y], x, results[y][x])

CalControl == calStatus = "none" <=> visited <= Points

CalInv == CalTypeOK /\ CalTable /\ CalControl /\ MiddleOfLongest

LEMMA CalTypes ==
  ASSUME CalTypeOK
  PROVE  /\ passes \in [Clk -> SUBSET Data]
         /\ results \in [Clk -> [Data -> 0 .. 511]]
         /\ visited \in 0 .. Points + 1 /\ Points \in Nat \ {0}
         /\ calStatus \in {"none", "Success", "SsiSweepErr"}
<1>1. Points \in Nat \ {0}
  BY CalAssumption DEF Points
<1> QED
  BY <1>1 DEF CalTypeOK, Clk, Data

LEMMA CalInvInit ==
  ASSUME CalInit PROVE CalInv
<1>1. Points \in Nat \ {0} /\ 0 \in Clk /\ 0 \in Data
  BY CalAssumption DEF Points, Clk, Data
<1>2. /\ passes \in [Clk -> SUBSET Data]
      /\ results = [y \in Clk |-> [x \in Data |-> IF x \in passes[y] THEN 1 ELSE 0]]
      /\ visited = 0 /\ calStatus = "none" /\ ClkIdx = 0 /\ DataIdx = 0
  BY DEF CalInit, Clk, Data
<1>3. \A y \in Clk : \A x \in Data :
        results[y][x] = IF x \in passes[y] THEN 1 ELSE 0
  BY <1>2
<1>4. results \in [Clk -> [Data -> 0 .. 511]]
  BY <1>2
<1>5. CalTypeOK
  BY <1>1, <1>2, <1>4 DEF CalTypeOK, Clk, Data
<1>6. CalTable
  <2> SUFFICES ASSUME NEW y \in Clk, NEW x \in Data
               PROVE  /\ x \notin passes[y] => results[y][x] = 0
                      /\ x \in passes[y] =>
                           /\ results[y][x] > 0
                           /\ Place(y, x) >= visited => results[y][x] = 1
                           /\ Place(y, x) < visited => Worth(passes[y], x, results[y][x])
    BY DEF CalTable
  <2>1. Place(y, x) >= 0
    BY Places, <1>1
  <2>2. Place(y, x) \in Int
    BY Places, <1>1
  <2>3. ~(Place(y, x) < visited)
    BY <1>2, <2>1, <2>2
  <2> QED
    BY <1>3, <2>3
<1> QED
  BY <1>1, <1>2, <1>5, <1>6 DEF CalInv, CalControl, MiddleOfLongest

LEMMA Replaced ==
  ASSUME NEW D, NEW S, NEW f \in [D -> S], NEW d \in D, NEW v \in S
  PROVE  [f EXCEPT ![d] = v] \in [D -> S]
  OBVIOUS

LEMMA CalVisit ==
  ASSUME CalInv, Visit PROVE CalInv'
<1> DEFINE b == visited \div Columns
           c == visited % Columns
<1>1. /\ passes \in [Clk -> SUBSET Data]
      /\ results \in [Clk -> [Data -> 0 .. 511]]
      /\ visited \in Nat /\ Points \in Nat \ {0} /\ visited < Points /\ visited' = visited + 1
      /\ UNCHANGED <<passes, calStatus, ClkIdx, DataIdx>>
      /\ results' = [results EXCEPT ![b][c] = IF @ > 0 THEN Score(results[b], c) ELSE @]
  BY CalTypes DEF CalInv, Visit
<1>2. b \in Clk /\ c \in Data /\ visited = Place(b, c)
  BY <1>1, PointAt
<1> HIDE DEF b, c
<1>3. \A y \in Clk : \A x \in Data : Place(y, x) \in Nat /\ (Place(y, x) = visited => y = b /\ x = c)
  BY <1>1, <1>2, Places
<1>4. PICK row \in [Data -> 0 .. 511] : row = results[b]
  BY <1>1, <1>2
<1>5. passes[b] = {z \in Data : row[z] > 0}
  <2>1. \A z \in Data : z \in passes[b] <=> row[z] > 0
    BY <1>2, <1>4 DEF CalInv, CalTable
  <2> QED
    BY <1>1, <1>2, <2>1
<1>6. PICK v : v = IF row[c] > 0 THEN Score(row, c) ELSE row[c]
  OBVIOUS
<1>7. results' = [results EXCEPT ![b] = [row EXCEPT ![c] = v]]
  BY <1>1, <1>2, <1>4, <1>6
<1> DEFINE Fit == /\ v \in 0 .. 511
                  /\ c \in passes[b] => v > 0 /\ Worth(passes[b], c, v)
                  /\ c \notin passes[b] => v = 0
<1>8. ASSUME c \in passes[b] PROVE Fit
  <2>1. row[c] = 1
    <3>1. Place(b, c) >= visited
      BY <1>1, <1>2
    <3> QED
      BY <1>2, <1>4, <1>8, <3>1 DEF CalInv, CalTable
  <2>2. v = Score(row, c)
    BY <1>6, <2>1
  <2>3. Worth(passes[b], c, v) /\ v \in 1 .. 511
    BY <1>2, <1>5, <2>1, <2>2, Scores, SMTT(90)
  <2>4. v \in 0 .. 511 /\ v > 0
    BY <2>3
  <2> QED
    BY <2>3, <2>4, <1>8
<1>9. ASSUME c \notin passes[b] PROVE Fit
  <2>1. row[c] = 0
    BY <1>2, <1>4, <1>9 DEF CalInv, CalTable
  <2>2. v = 0
    BY <1>6, <2>1
  <2> QED
    BY <2>2, <1>9
<1>10. Fit
  BY <1>8, <1>9
<1>11. results' \in [Clk -> [Data -> 0 .. 511]]
  <2> DEFINE scored == [row EXCEPT ![c] = v]
  <2>1. v \in 0 .. 511
    BY <1>10
  <2>2. scored \in [Data -> 0 .. 511]
    BY <1>4, <2>1
  <2>3. results' = [results EXCEPT ![b] = scored]
    BY <1>7
  <2> HIDE DEF scored
  <2>4. results \in [Clk -> [Data -> 0 .. 511]] /\ b \in Clk
    BY <1>1, <1>2
  <2>5. [results EXCEPT ![b] = scored] \in [Clk -> [Data -> 0 .. 511]]
    BY <2>2, <2>4, Replaced
  <2> QED
    BY <2>3, <2>5
<1>12. \A y \in Clk : \A x \in Data :
         results'[y][x] = IF y = b /\ x = c THEN v ELSE results[y][x]
  BY <1>1, <1>2, <1>4, <1>7
<1>13. CalTable'
  <2> SUFFICES ASSUME NEW y \in Clk, NEW x \in Data
               PROVE  /\ x \notin passes[y] => results'[y][x] = 0
                      /\ x \in passes[y] =>
                           /\ results'[y][x] > 0
                           /\ Place(y, x) >= visited' => results'[y][x] = 1
                           /\ Place(y, x) < visited' => Worth(passes[y], x, results'[y][x])
    BY <1>1 DEF CalTable
  <2>1. CASE y = b /\ x = c
    <3>1. results'[y][x] = v /\ Place(y, x) < visited' /\ ~(Place(y, x) >= visited')
      BY <1>1, <1>2, <1>12, <2>1
    <3> QED
      BY <1>10, <2>1, <3>1
  <2>2. CASE ~(y = b /\ x = c)
    <3>1. results'[y][x] = results[y][x]
      BY <1>12, <2>2
    <3>2. Place(y, x) # visited /\ Place(y, x) \in Nat
      BY <1>3, <2>2
    <3>3. Place(y, x) >= visited' => Place(y, x) >= visited
      BY <1>1, <3>2
    <3>4. Place(y, x) < visited' => Place(y, x) < visited
      <4>1. visited \in Nat /\ visited' = visited + 1
        BY <1>1
      <4> QED
        BY <3>2, <4>1
    <3>5. /\ x \notin passes[y] => results[y][x] = 0
          /\ x \in passes[y] =>
               /\ results[y][x] > 0
               /\ Place(y, x) >= visited => results[y][x] = 1
               /\ Place(y, x) < visited => Worth(passes[y], x, results[y][x])
      BY DEF CalInv, CalTable
    <3> QED
      BY <3>1, <3>3, <3>4, <3>5
  <2> QED
    BY <2>1, <2>2
<1>14. CalTypeOK'
  <2>1. visited' \in 0 .. Points + 1 /\ Points' = Points
    BY <1>1 DEF Points
  <2> QED
    BY <1>1, <1>11, <2>1 DEF CalInv, CalTypeOK, Clk, Data
<1>15. CalControl' /\ MiddleOfLongest'
  <2>1. Points' = Points
    BY DEF Points
  <2>2. calStatus = "none" /\ calStatus' = "none"
    BY <1>1 DEF CalInv, CalControl
  <2>3. visited' <= Points
    BY <1>1
  <2> QED
    BY <2>1, <2>2, <2>3 DEF CalControl, MiddleOfLongest
<1> QED
  BY <1>13, <1>14, <1>15 DEF CalInv

LEMMA Weigh ==
  ASSUME NEW p \in 1 .. 511, NEW q \in 1 .. 511, NEW s, NEW t \in Nat, s = p, t >= q
  PROVE  /\ t <= s => q <= p /\ ~(p < q)
         /\ t < s => q # p
  OBVIOUS

(* All points have their scores: what the middle of a run is worth. *)
LEMMA MiddleOfRun ==
  ASSUME CalInv, visited = Points,
         NEW y \in Clk, NEW a \in Data, NEW b \in Data, Run(y, a, b)
  PROVE  \E m \in Data, h, k \in 0 .. 7 :
           /\ m = a + h /\ h = (b - a) \div 2 /\ k = (b - a) - h /\ k - h \in {0, 1} /\ h + k <= 7
           /\ m \in passes[y]
           /\ results[y][m] \in Nat
           /\ results[y][m] >= Amount(h, k)
<1>1. /\ passes \in [Clk -> SUBSET Data]
      /\ results \in [Clk -> [Data -> 0 .. 511]]
  BY CalTypes DEF CalInv
<1>2. /\ a <= b /\ \A z \in a .. b : z \in passes[y]
      /\ Data = 0 .. Columns - 1 /\ Columns \in 1 .. 8
  BY CalAssumption DEF Run, Data
<1>3. PICK d \in 0 .. 7 : d = b - a
  BY <1>2
<1>4. PICK h \in 0 .. 3, k \in 0 .. 4 : h = d \div 2 /\ k = d - h /\ k - h \in {0, 1}
  OBVIOUS
<1>5. PICK m \in a .. b : m = a + h
  <2>1. a \in Nat /\ b \in Nat /\ a <= b
    BY <1>2
  <2>2. a + h \in a .. b
    BY <1>3, <1>4, <2>1
  <2> QED
    BY <2>2
<1>6. m \in Data /\ m \in passes[y]
  BY <1>2
<1>7. Worth(passes[y], m, results[y][m])
  <2>1. Place(y, m) < visited
    BY <1>6, Places DEF Points
  <2> QED
    BY <1>6, <2>1 DEF CalInv, CalTable
<1>8. PICK g \in 0 .. 7, j \in 0 .. 7 :
        /\ RightOf(passes[y], m, j) /\ LeftOf(passes[y], m, g)
        /\ results[y][m] = Amount(g, j)
  BY <1>7 DEF Worth
<1>9. m - a <= g /\ b - m <= j
  <2>1. passes[y] \in SUBSET Data /\ g \in Nat /\ j \in Nat
    BY <1>1
  <2> QED
    BY <1>2, <1>8, <2>1, RunInside
<1>10. h <= g /\ k <= j
  <2>1. a \in Nat /\ b \in Nat /\ m \in Nat
    BY <1>2
  <2> QED
    BY <1>3, <1>4, <1>5, <1>9, <2>1
<1>11. Amount(g, j) \in 1 .. 511 /\ Amount(h, k) <= Amount(g, j)
  <2>1. g \in 0 .. 7 /\ j \in 0 .. 7 /\ h \in 0 .. 7 /\ k \in 0 .. 7
    BY <1>4
  <2>2. /\ Amount(g, j) \in 1 .. 511
        /\ \A p \in 0 .. 7, q \in 0 .. 7 : p <= g /\ q <= j => Amount(p, q) <= Amount(g, j)
    BY AmountGrows, ZenonT(30)
  <2> QED
    BY <1>10, <2>1, <2>2, ZenonT(30)
<1>12. results[y][m] >= Amount(h, k) /\ results[y][m] \in Nat
  BY <1>8, <1>11
<1> QED
  BY <1>3, <1>4, <1>5, <1>6, <1>12

(* The first point of the highest score is the middle of the longest run. *)
LEMMA FirstOfHighest ==
  ASSUME CalInv, visited = Points,
         NEW y \in Clk, NEW x \in Data, results[y][x] > 0,
         \A v \in Clk, u \in Data :
           /\ results[v][u] <= results[y][x]
           /\ Before(v, u, y, x) => results[v][u] < results[y][x]
  PROVE  \E first, last \in Data :
           /\ Run(y, first, last) /\ x = (first + last) \div 2
           /\ \A v \in Clk, a \in Data, b \in Data :
                Run(v, a, b) =>
                  /\ b - a <= last - first
                  /\ Before(v, a, y, first) => b - a < last - first
<1>1. /\ passes \in [Clk -> SUBSET Data]
      /\ results \in [Clk -> [Data -> 0 .. 511]]
      /\ Data = 0 .. Columns - 1 /\ Columns \in 1 .. 8 /\ Clk \subseteq Nat
  <2>1. /\ passes \in [Clk -> SUBSET Data]
        /\ results \in [Clk -> [Data -> 0 .. 511]]
    BY CalTypes DEF CalInv
  <2>2. Data = 0 .. Columns - 1 /\ Columns \in 1 .. 8 /\ Clk \subseteq Nat
    BY CalAssumption DEF Data, Clk
  <2> QED
    BY <2>1, <2>2
<1>2. x \in passes[y]
  BY DEF CalInv, CalTable
<1>3. Worth(passes[y], x, results[y][x])
  <2>1. Place(y, x) < visited
    BY <1>1, Places, SMTT(90) DEF Points
  <2> QED
    BY <1>2, <2>1 DEF CalInv, CalTable
<1>4. PICK l \in 0 .. 7, r \in 0 .. 7 :
        /\ RightOf(passes[y], x, r) /\ LeftOf(passes[y], x, l)
        /\ results[y][x] = Amount(l, r)
  BY <1>3 DEF Worth
<1>5. /\ x \in Nat /\ l <= x /\ x + r <= Columns - 1 /\ l + r <= 7
      /\ \A z \in Data : x - l <= z /\ z <= x + r => z \in passes[y]
  BY <1>1, <1>2, <1>4 DEF RightOf, LeftOf
<1>6. PICK first \in Data, last \in Data : first = x - l /\ last = x + r
  BY <1>1, <1>5
<1>7. Run(y, first, last)
  BY <1>1, <1>5, <1>6 DEF Run
<1>8. PICK m \in Data, h \in 0 .. 7, k \in 0 .. 7 :
        /\ m = first + h /\ h = (last - first) \div 2 /\ k = (last - first) - h /\ k - h \in {0, 1} /\ h + k <= 7
        /\ m \in passes[y]
        /\ results[y][m] \in Nat
        /\ results[y][m] >= Amount(h, k)
  BY <1>7, MiddleOfRun
<1>9. h + k = l + r
  BY <1>1, <1>5, <1>6, <1>8
<1>10. Amount(l, r) \in 1 .. 511 /\ Amount(h, k) \in 1 .. 511 /\ Amount(k, h) = Amount(h, k)
  BY AmountGrows, ZenonT(30)
<1>11. l = h /\ r = k
  <2>1. \/ l = h /\ r = k
        \/ l = k /\ r = h /\ h < k
        \/ Amount(l, r) < Amount(h, k)
    BY <1>5, <1>8, <1>9, MiddleIsBest
  <2>2. CASE Amount(l, r) < Amount(h, k)
    <3>1. results[y][m] <= results[y][x]
      OBVIOUS
    <3> QED
      BY <1>4, <1>8, <1>10, <2>2, <3>1, Weigh, ZenonT(30)
  <2>3. CASE l = k /\ r = h /\ h < k
    <3>1. m < x
      <4>1. m = x - l + h
        BY <1>6, <1>8
      <4>2. l = k /\ h < k /\ x \in Nat
        BY <1>5, <2>3
      <4> QED
        BY <4>1, <4>2
    <3>2. results[y][m] < results[y][x]
      BY <3>1 DEF Before
    <3>3. Amount(l, r) = Amount(h, k)
      BY <1>10, <2>3, Zenon
    <3> QED
      BY <1>4, <1>8, <1>10, <3>2, <3>3, Weigh, ZenonT(30)
  <2> QED
    BY <2>1, <2>2, <2>3
<1>12. m = x
  <2>1. m = x - h + h /\ x \in Nat
    BY <1>5, <1>6, <1>8, <1>11
  <2> QED
    BY <2>1
<1>13. x = (first + last) \div 2
  BY <1>1, <1>5, <1>6, <1>8, <1>11
<1>14. ASSUME NEW v \in Clk, NEW a \in Data, NEW b \in Data, Run(v, a, b)
       PROVE  /\ b - a <= last - first
              /\ Before(v, a, y, first) => b - a < last - first
  <2>1. PICK n \in Data, g \in 0 .. 7, j \in 0 .. 7 :
          /\ n = a + g /\ g = (b - a) \div 2 /\ j = (b - a) - g /\ j - g \in {0, 1} /\ g + j <= 7
          /\ n \in passes[v]
          /\ results[v][n] \in Nat
          /\ results[v][n] >= Amount(g, j)
    BY <1>14, MiddleOfRun
  <2>2. Amount(g, j) \in 1 .. 511
    BY AmountGrows
  <2>3. results[v][n] <= results[y][x]
    OBVIOUS
  <2>4. Amount(g, j) <= Amount(h, k)
    BY <1>4, <1>10, <1>11, <2>1, <2>2, <2>3, Weigh, ZenonT(30)
  <2>5. g + j <= h + k
    BY <1>8, <2>1, <2>4, LongerIsBetter
  <2>6. a \in Nat /\ b \in Nat /\ b - a = g + j /\ last - first = h + k /\ first \in Nat /\ last \in Nat
    BY <1>1, <1>8, <2>1
  <2>7. ASSUME Before(v, a, y, first), b - a = last - first PROVE FALSE
    <3>1. g = h /\ j = k
      BY <1>8, <2>1, <2>7
    <3>2. Before(v, n, y, x)
      BY <1>1, <1>8, <1>12, <2>1, <2>6, <2>7, <3>1 DEF Before
    <3>3. results[v][n] < results[y][x]
      BY <3>2
    <3> QED
      BY <1>4, <1>10, <1>11, <2>1, <3>1, <3>3, Weigh, ZenonT(30)
  <2> QED
    BY <2>5, <2>6, <2>7
<1> QED
  BY <1>7, <1>13, <1>14

LEMMA CalChoose ==
  ASSUME CalInv, Choose PROVE CalInv'
<1>1. /\ passes \in [Clk -> SUBSET Data]
      /\ results \in [Clk -> [Data -> 0 .. 511]]
      /\ Points \in Nat \ {0}
      /\ visited = Points /\ visited' = Points + 1
      /\ UNCHANGED <<passes, results>>
      /\ Clk = 0 .. Rows - 1 /\ Data = 0 .. Columns - 1
  <2>1. /\ passes \in [Clk -> SUBSET Data]
        /\ results \in [Clk -> [Data -> 0 .. 511]]
        /\ Points \in Nat \ {0}
    BY CalTypes DEF CalInv
  <2>2. /\ visited = Points /\ visited' = Points + 1
        /\ UNCHANGED <<passes, results>>
    BY DEF Choose
  <2>3. /\ Clk = 0 .. Rows - 1 /\ Data = 0 .. Columns - 1
    BY DEF Clk, Data
  <2> QED
    BY <2>1, <2>2, <2>3
<1>2. \A y \in Clk : \A x \in Data : x \in passes[y] <=> results[y][x] # 0
  <2> SUFFICES ASSUME NEW y \in Clk, NEW x \in Data
               PROVE  x \in passes[y] <=> results[y][x] # 0
    OBVIOUS
  <2>1. /\ x \notin passes[y] => results[y][x] = 0
        /\ x \in passes[y] => results[y][x] > 0
    BY DEF CalInv, CalTable
  <2> QED
    BY <2>1
<1>3. CalTable'
  <2>1. visited' \in Nat /\ visited \in Nat
    BY <1>1
  <2>2. \A y \in Clk : \A x \in Data : Place(y, x) < visited /\ Place(y, x) < visited' /\ ~(Place(y, x) >= visited')
    BY <1>1, Places
  <2> SUFFICES ASSUME NEW y \in Clk, NEW x \in Data
               PROVE  /\ x \notin passes[y] => results[y][x] = 0
                      /\ x \in passes[y] =>
                           /\ results[y][x] > 0
                           /\ Place(y, x) >= visited' => results[y][x] = 1
                           /\ Place(y, x) < visited' => Worth(passes[y], x, results[y][x])
    BY <1>1 DEF CalTable
  <2> QED
    BY <2>2 DEF CalInv, CalTable
<1>6. /\ calStatus' \in {"Success", "SsiSweepErr"} => CalControl'
      /\ calStatus' \in {"Success", "SsiSweepErr"} /\ ClkIdx' \in Clk /\ DataIdx' \in Data => CalTypeOK'
      /\ ClkIdx \in Clk /\ DataIdx \in Data
  <2>1. Points' = Points
    BY DEF Points
  <2>2. ~(Points + 1 <= Points) /\ Points + 1 \in 0 .. Points + 1
    BY <1>1
  <2>3. calStatus' \in {"Success", "SsiSweepErr"} => CalControl'
    BY <1>1, <2>1, <2>2 DEF CalControl
  <2>4. calStatus' \in {"Success", "SsiSweepErr"} /\ ClkIdx' \in Clk /\ DataIdx' \in Data => CalTypeOK'
    BY <1>1, <2>1, <2>2 DEF CalTypeOK, Clk, Data
  <2> QED
    BY <1>1, <2>3, <2>4 DEF CalInv, CalTypeOK
<1>4. CASE \A y \in Clk, x \in Data : results[y][x] = 0
  <2>1. calStatus' = "SsiSweepErr" /\ UNCHANGED <<ClkIdx, DataIdx>>
    BY <1>1, <1>4 DEF Choose
  <2>2. \A y \in Clk : passes[y] = {}
    BY <1>1, <1>2, <1>4
  <2>3. MiddleOfLongest'
    BY <1>1, <2>1, <2>2 DEF MiddleOfLongest
  <2> QED
    BY <1>1, <1>3, <1>6, <2>1, <2>3 DEF CalInv
<1>5. CASE ~ \A y \in Clk, x \in Data : results[y][x] = 0
  <2>1. calStatus' = "Success"
    BY <1>1, <1>5 DEF Choose
  <2>2. PICK y \in Clk, x \in Data :
          /\ ClkIdx' = y /\ DataIdx' = x
          /\ \A v \in Clk, u \in Data :
               /\ results[v][u] <= results[y][x]
               /\ Before(v, u, y, x) => results[v][u] < results[y][x]
    BY <1>1, <1>5 DEF Choose
  <2>3. results[y][x] > 0
    <3>1. PICK v \in Clk, u \in Data : results[v][u] # 0
      BY <1>5
    <3>2. results[v][u] \in 0 .. 511 /\ results[y][x] \in 0 .. 511
      <4>1. results[v] \in [Data -> 0 .. 511] /\ results[y] \in [Data -> 0 .. 511]
        BY <1>1, ZenonT(30)
      <4> QED
        BY <4>1, ZenonT(30)
    <3>3. results[v][u] <= results[y][x]
      BY <2>2
    <3>4. \A i \in 0 .. 511, j \in 0 .. 511 : i # 0 /\ i <= j => j > 0
      OBVIOUS
    <3> QED
      BY <3>1, <3>2, <3>3, <3>4, Zenon
  <2>4. ~ \A v \in Clk : passes[v] = {}
    BY <1>2, <2>3
  <2>5. PICK first \in Data, last \in Data :
           /\ Run(y, first, last) /\ x = (first + last) \div 2
           /\ \A v \in Clk, a \in Data, b \in Data :
                Run(v, a, b) =>
                  /\ b - a <= last - first
                  /\ Before(v, a, y, first) => b - a < last - first
    BY <1>1, <2>2, <2>3, FirstOfHighest
  <2>6. \A v, a, b : Run(v, a, b)' <=> Run(v, a, b)
    BY <1>1 DEF Run
  <2>7. ChosenWell'
    BY <1>1, <2>2, <2>5, <2>6 DEF ChosenWell, Before
  <2>8. MiddleOfLongest'
    BY <1>1, <2>1, <2>4, <2>7 DEF MiddleOfLongest
  <2> QED
    BY <1>1, <1>3, <1>6, <2>1, <2>2, <2>8 DEF CalInv
<1> QED
  BY <1>4, <1>5

LEMMA CalInductive == CalSpec => []CalInv
<1>1. CalInit => CalInv
  BY CalInvInit
<1>2. CalInv /\ [CalNext]_calVars => CalInv'
  <2> SUFFICES ASSUME CalInv, [CalNext]_calVars PROVE CalInv'
    OBVIOUS
  <2>1. CASE Visit
    BY <2>1, CalVisit
  <2>2. CASE Choose
    BY <2>2, CalChoose
  <2>3. CASE UNCHANGED calVars
    BY <2>3 DEF CalInv, CalTable, CalControl, calVars, CalTypeOK, Points,
         MiddleOfLongest, ChosenWell, Run, Before
  <2> QED
    BY <2>1, <2>2, <2>3 DEF CalNext
<1> QED
  BY <1>1, <1>2, PTL DEF CalSpec

(* For tables of any number of clock delays and up to eight data delays    *)
(* the scores keep to their type and every index to its range.             *)
THEOREM DelayTypeCorrect == CalSpec => []CalTypeOK
<1>1. CalInv => CalTypeOK
  BY DEF CalInv
<1> QED
  BY <1>1, CalInductive, PTL

(* The delay Adrv9001_FindBestSsiDelay chooses is the middle of the        *)
(* longest run of passes, the first of several, for tables of any number   *)
(* of rows: the scores that are added up in place tell runs apart.         *)
THEOREM DelayInMiddle == CalSpec => []MiddleOfLongest
<1>1. CalInv => MiddleOfLongest
  BY DEF CalInv
<1> QED
  BY <1>1, CalInductive, PTL
=============================================================================
