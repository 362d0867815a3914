-------------------------------- MODULE SsiRx --------------------------------
(***************************************************************************)
(* The receive half of the sample interface, clock by clock: deserialised  *)
(* chunks of HalfBits bits are packed into windows of a sample's width,    *)
(* and a sample is cut out of two windows where the strobe stands.  Where  *)
(* a sample starts within a window depends on when the deserialiser was    *)
(* released, so every phase must work.                                     *)
(*                                                                         *)
(* A bit is a record of the sample it belongs to and its place there; the  *)
(* device numbers its samples modulo Numbers and sends its strobe with the *)
(* first bit.  I and Q travel together.                                    *)
(*                                                                         *)
(* Numbers that go up by one are the ramp of the test mode.  The monitor   *)
(* of the ramp predicts every sample from the one before and tells         *)
(* software, which reads its flag when it tries a delay, whether enough of *)
(* them in a row came true.                                                *)
(***************************************************************************)
EXTENDS Integers, Sequences

CONSTANTS
  HalfBits,        (* bits per clock: half a sample (8)                    *)
  Numbers,         (* the device's sample numbers are 0 .. Numbers - 1     *)
  SyncStages,      (* flip-flops that hold the enable after it has fallen  *)
  CountMax,        (* where the counter stops; as a register: for ever     *)
  Counts,          (* what is written to the registers                     *)
  Top,             (* predictions in a row that raise the flag (255)       *)
  Zero, None       (* a bit of nothing, no number                          *)

ASSUME RxAssumption ==
  /\ HalfBits \in Nat \ {0} /\ Numbers \in Nat \ {0, 1, 2} /\ SyncStages \in Nat \ {0}
  /\ CountMax \in Nat \ {0} /\ Counts \subseteq 0 .. CountMax
  /\ Top \in Nat \ {0}

Width  == 2 * HalfBits
Place  == 0 .. Width - 1
Number == 0 .. Numbers - 1
Bits   == [of : Number, at : Place] \cup {Zero}

ASSUME MarksAssumption == None \notin Number /\ Zero \notin [of : Number, at : Place]

Lead == 4            (* samples that are junk after a release *)
Settling == 6        (* clocks from a bit's arrival to its delivery, at most *)
Span == Top + 2      (* predictions in a row after which the flag is up   *)
Lag == 2             (* samples by which it is late to fall, at most      *)
Steady == Settling + 2

Silence(n) == [i \in 1 .. n |-> Zero]

(* Sample s as it is sent, the first bit first. *)
Whole(s) == [i \in 1 .. Width |-> [of |-> s, at |-> i - 1]]

VARIABLES
  enable, hold,            (* the enable, and how long it outlasts itself  *)
  ssiEnableCnt, disableCnt,                                   (* registers *)
  cnt, rst,                (* cnt, serdes_rst                              *)
  sending, phase, half,    (* the device: where its samples start within a *)
                           (* chunk pair, and which chunk it sends next    *)
  dout, packed, prev, packedValid, aligned, alignedValid,     (* the logic *)
  rampIn, rampValid, predicted, rampDetected, rampCount, rampOut, (* monitor *)
  calm,                    (* clocks since the device last changed         *)
  before, run, late        (* the sample before, how many have continued   *)
                           (* the ramp, and how many samples ago Top had   *)
                           (* (history)                                    *)

device   == <<sending, phase, half>>
monitor  == <<rampIn, rampValid, predicted, rampDetected, rampCount, rampOut>>
logic    == <<hold, cnt, rst, dout, packed, prev, packedValid, aligned, alignedValid, monitor>>
settings == <<enable, ssiEnableCnt, disableCnt>>
history  == <<calm, before, run, late>>
vars     == <<settings, logic, device, history>>

Enabled == enable \/ hold > 0

Init ==
  /\ enable = FALSE /\ hold = 0 /\ cnt = 0 /\ rst = FALSE
  /\ ssiEnableCnt \in Counts /\ disableCnt \in Counts
  /\ sending = FALSE /\ phase = 0 /\ half = 0
  /\ dout = Silence(HalfBits) /\ packed = Silence(Width) /\ prev = packed
  /\ packedValid = FALSE /\ aligned = packed /\ alignedValid = FALSE
  /\ rampIn = None /\ rampValid = FALSE /\ predicted = None
  /\ rampDetected = FALSE /\ rampCount = 0 /\ rampOut = FALSE
  /\ calm = 0 /\ before = None /\ run = 0 /\ late = Lag + 1

-----------------------------------------------------------------------------
(* Software and the device, which changes no more often than Settling.     *)

Enable  == /\ ~enable /\ enable' = TRUE
           /\ UNCHANGED <<ssiEnableCnt, disableCnt, logic, device, history>>
Disable == /\ enable /\ enable' = FALSE
           /\ UNCHANGED <<ssiEnableCnt, disableCnt, logic, device, history>>

Send == /\ calm >= Settling /\ ~sending /\ sending' = TRUE /\ phase' \in Place /\ calm' = 0
        /\ UNCHANGED <<settings, logic, half, before, run, late>>
Stop == /\ calm >= Settling /\ sending /\ sending' = FALSE /\ calm' = 0
        /\ UNCHANGED <<settings, logic, phase, half, before, run, late>>

-----------------------------------------------------------------------------
(* The clock.  Mutated definitions, each placed before the one it          *)
(* replaces, are named <definition>_<what is wrong>; nothing uses them.    *)

(* The bit that the device sends n bits after the start of chunk 0. *)
Bit(n) ==
  IF sending THEN [of |-> ((n + phase) \div Width) % Numbers, at |-> (n + phase) % Width]
  ELSE Zero

Chunk == [i \in 1 .. HalfBits |-> Bit(half * HalfBits + i - 1)]

(* A deserialiser in reset delivers nothing. *)
Deserialise ==
  /\ dout' = IF rst THEN Silence(HalfBits) ELSE Chunk
  /\ half' = (half + 1) % (2 * Numbers)

Pack ==
  /\ packed' = SubSeq(packed, HalfBits + 1, Width) \o dout
  /\ prev' = IF packedValid THEN packed ELSE prev
  /\ packedValid' = (Enabled /\ ~packedValid)

(* Where the strobe stands in the window; without one, as if at its end. *)
Strobe ==
  LET at == {i \in 1 .. Width : packed[i] # Zero /\ packed[i].at = 0}
  IN  IF at = {} THEN Width ELSE CHOOSE i \in at : \A j \in at : i <= j

Align_OneEarly ==
  /\ aligned' = IF ~packedValid THEN aligned
                ELSE SubSeq(prev, Strobe + 1, Width) \o SubSeq(packed, 1, Strobe)
  /\ alignedValid' = packedValid

(* A sample begins at the strobe's place in the window before, and ends    *)
(* just before it in this one.                                             *)
Align ==
  /\ aligned' = IF ~packedValid THEN aligned
                ELSE SubSeq(prev, Strobe, Width) \o SubSeq(packed, 1, Strobe - 1)
  /\ alignedValid' = packedValid

Count_NeverStops ==
  /\ cnt' = IF ~Enabled THEN 0 ELSE IF packedValid THEN cnt + 1 ELSE cnt
  /\ rst' = ~(cnt > ssiEnableCnt /\ cnt <= disableCnt)
  /\ phase' \in IF rst /\ ~rst' THEN Place ELSE {phase}

(* ce, the clock enable of the counter, is raised and lowered with         *)
(* packed_valid.  A released deserialiser may start at any bit.            *)
Count ==
  /\ cnt' = IF ~Enabled THEN 0 ELSE IF cnt < CountMax /\ packedValid THEN cnt + 1 ELSE cnt
  /\ rst' = ~(cnt > ssiEnableCnt /\ cnt <= disableCnt)
  /\ phase' \in IF rst /\ ~rst' THEN Place ELSE {phase}

(* A sample that is not whole is no number, and continues no ramp. *)
IsWhole(w) == \E s \in Number : w = Whole(s)
Value(w)   == IF IsWhole(w) THEN w[1].of ELSE None
Ramp(v)    == IF v = None THEN None ELSE (v + 1) % Numbers

Continues(v, w) == w # None /\ Ramp(v) = w

Monitor_ComparesEarly ==
  LET prediction == IF alignedValid THEN Ramp(rampIn) ELSE predicted
  IN  /\ rampIn' = IF alignedValid THEN Value(aligned) ELSE rampIn
      /\ rampValid' = alignedValid
      /\ predicted' = prediction
      /\ rampDetected' = IF alignedValid THEN rampIn # None /\ prediction = rampIn ELSE rampDetected
      /\ rampCount' = IF ~rampDetected THEN 0
                      ELSE IF rampValid /\ rampCount < Top THEN rampCount + 1 ELSE rampCount
      /\ rampOut' = (rampCount = Top)

(* The prediction is a blocking assignment: the comparison sees the new    *)
(* prediction and the old sample.  A prediction that failed clears the     *)
(* count, whether or not a sample is there.                                *)
Monitor ==
  LET prediction == IF alignedValid THEN Ramp(rampIn) ELSE predicted
  IN  /\ rampIn' = IF alignedValid THEN Value(aligned) ELSE rampIn
      /\ rampValid' = alignedValid
      /\ predicted' = prediction
      /\ rampDetected' = IF rampValid THEN rampIn # None /\ prediction = rampIn ELSE rampDetected
      /\ rampCount' = IF ~rampDetected THEN 0
                      ELSE IF rampValid /\ rampCount < Top THEN rampCount + 1 ELSE rampCount
      /\ rampOut' = (rampCount = Top)

AtMost(limit, n) == IF n > limit THEN limit ELSE n

Observe ==
  /\ calm' = AtMost(Steady, calm + 1)
  /\ IF alignedValid
     THEN /\ before' = Value(aligned)
          /\ run' = IF Continues(before, before') THEN AtMost(Span, run + 1) ELSE 0
          /\ late' = IF run' >= Top THEN 0 ELSE AtMost(Lag + 1, late + 1)
     ELSE UNCHANGED <<before, run, late>>

Clock ==
  /\ hold' = IF enable THEN SyncStages ELSE IF hold > 0 THEN hold - 1 ELSE 0
  /\ Deserialise /\ Pack /\ Align /\ Count /\ Monitor /\ Observe
  /\ UNCHANGED <<settings, sending>>

Next == Clock \/ Enable \/ Disable \/ Send \/ Stop

Spec == Init /\ [][Next]_vars

-----------------------------------------------------------------------------
(* Types. *)
TypeOK ==
  /\ enable \in BOOLEAN /\ hold \in 0 .. SyncStages
  /\ ssiEnableCnt \in Counts /\ disableCnt \in Counts
  /\ cnt \in 0 .. CountMax /\ rst \in BOOLEAN
  /\ sending \in BOOLEAN /\ phase \in Place /\ half \in 0 .. 2 * Numbers - 1
  /\ dout \in [1 .. HalfBits -> Bits]
  /\ packed \in [1 .. Width -> Bits] /\ prev \in [1 .. Width -> Bits]
  /\ aligned \in [1 .. Width -> Bits]
  /\ packedValid \in BOOLEAN /\ alignedValid \in BOOLEAN
  /\ rampIn \in Number \cup {None} /\ rampValid \in BOOLEAN
  /\ predicted \in Number \cup {None}
  /\ rampDetected \in BOOLEAN /\ rampCount \in 0 .. Top /\ rampOut \in BOOLEAN
  /\ calm \in 0 .. Steady /\ before \in Number \cup {None}
  /\ run \in 0 .. Span /\ late \in 0 .. Lag + 1

InTime(n) ==
  sending /\ calm >= Settling + 2 * n /\ ssiEnableCnt + Lead + n < cnt /\ cnt <= disableCnt

(* Four samples after the deserialiser was released, and in time after     *)
(* the device began, every sample is delivered whole and once, wherever    *)
(* the strobe stands (adrv9001_rx.v:259-380).                              *)
DeliversEach ==
  alignedValid => /\ InTime(0) => IsWhole(aligned)
                  /\ InTime(1) => Continues(before, Value(aligned))

(* The flag tells whether a ramp arrives: it says that Top samples in a    *)
(* row came as predicted, no more than Lag samples ago, and so nothing of  *)
(* an earlier try; and it is there once that many have                     *)
(* (adrv9001_rx.v:382-420).                                                *)
FlagTellsRamp ==
  /\ rampOut => late <= Lag
  /\ run = Span => rampOut
=============================================================================
