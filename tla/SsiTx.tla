-------------------------------- MODULE SsiTx --------------------------------
(***************************************************************************)
(* The transmit half of the sample interface, clock by clock: samples are  *)
(* taken from a stream every other clock, go through a pipeline that       *)
(* splits each in two halves, the first with the strobe, and leave through *)
(* a serialiser.  A counter of samples since the enable decides when the   *)
(* serialiser runs and when the transmitter's enable pin is high.          *)
(*                                                                         *)
(* I and Q, and the bits of a half, travel together: one value stands for  *)
(* them.  Between two clocks the stream may offer a sample and software    *)
(* may write the registers.                                                *)
(***************************************************************************)
EXTENDS Integers, Sequences

CONSTANTS
  SyncStages,      (* flip-flops that hold the enable after it has fallen  *)
  CountMax,        (* where the counter stops; as a register: for ever     *)
  MaxWords,        (* bound: words started per enable                      *)
  Pattern, Junk, None

ASSUME TxAssumption ==
  /\ SyncStages \in Nat \ {0} /\ CountMax \in Nat \ {0} /\ MaxWords \in Nat
  /\ None \notin (0 .. MaxWords) \cup {Pattern, Junk}

Samples == 0 .. MaxWords          (* the samples of the stream, in order   *)
Words   == Samples \cup {Pattern, Junk}
Sources == {"axis", "pattern"}
Half    == [strobe : BOOLEAN, of : Words]

VARIABLES
  enable, hold,            (* the enable, and how long it outlasts itself  *)
  ssiEnableCnt, disableCnt, dataSrc,                          (* registers *)
  ready, cnt, rst, pin,    (* iq_ready, cnt, serdes_rst, enable_out        *)
  valid, next,             (* the stream: is sample number next on offer?  *)
  early,                   (* and was it at the last clock (history)       *)
  inPacked, packed, packedValid, unpacked, serdesIn,       (* the pipeline *)
  first,                   (* the device: the first half of a word, or None *)
  due, got                 (* words started and words received since the   *)
                           (* last enable (history)                        *)

settings == <<enable, ssiEnableCnt, disableCnt, dataSrc>>
logic    == <<hold, ready, cnt, rst, pin, inPacked, packed, packedValid, unpacked, serdesIn>>
stream   == <<valid, next, early>>
device   == <<first, due, got>>
vars     == <<settings, logic, stream, device>>

(* dest_arst: raised with the enable, and lowered SyncStages clocks after. *)
Enabled == enable \/ hold > 0

Init ==
  /\ enable = FALSE /\ hold = 0 /\ dataSrc = "axis"
  /\ ssiEnableCnt \in 0 .. CountMax /\ disableCnt \in 0 .. CountMax
  /\ ready = FALSE /\ cnt = 0 /\ rst = FALSE /\ pin = FALSE
  /\ valid = FALSE /\ next = 0 /\ early = FALSE
  /\ inPacked = Junk /\ packed = Junk /\ packedValid = FALSE
  /\ unpacked = [strobe |-> FALSE, of |-> Junk] /\ serdesIn = unpacked
  /\ first = None /\ due = <<>> /\ got = <<>>

-----------------------------------------------------------------------------
(* Software, and the stream.                                               *)

Enable ==
  /\ ~enable /\ enable' = TRUE
  /\ UNCHANGED <<ssiEnableCnt, disableCnt, dataSrc, logic, stream, device>>

Disable ==
  /\ enable /\ enable' = FALSE
  /\ UNCHANGED <<ssiEnableCnt, disableCnt, dataSrc, logic, stream, device>>

SetDataSrc ==
  /\ dataSrc' \in Sources
  /\ UNCHANGED <<enable, ssiEnableCnt, disableCnt, logic, stream, device>>

(* A sample stays on offer until it is taken.  It may come in the very     *)
(* clock that takes it.                                                    *)
Offer ==
  /\ ~valid /\ next < MaxWords
  /\ valid' = TRUE
  /\ UNCHANGED <<settings, logic, next, early, device>>

-----------------------------------------------------------------------------
(* The clock.  Mutated definitions, each placed before the one it          *)
(* replaces, are named <definition>_<what is wrong>; nothing uses them.    *)

OnBus == IF valid THEN next ELSE Junk

(* ce, the clock enable of the counter, is raised and lowered with ready.  *)
Pace == ready' = (Enabled /\ ~ready)

Pack_AnyClock ==
  /\ inPacked' = OnBus
  /\ packed' = IF dataSrc = "axis" THEN inPacked ELSE Pattern
  /\ packedValid' = ready

Pack ==
  /\ inPacked' = OnBus
  /\ packed' = IF ~ready THEN packed ELSE IF dataSrc = "axis" THEN inPacked ELSE Pattern
  /\ packedValid' = ready

Unpack == unpacked' = [strobe |-> packedValid, of |-> packed] /\ serdesIn' = unpacked

Count_NeverStops ==
  /\ cnt' = IF ~Enabled THEN 0 ELSE IF ready THEN cnt + 1 ELSE cnt
  /\ pin' = (cnt <= disableCnt /\ cnt > 0)
  /\ rst' = ~(cnt > ssiEnableCnt /\ cnt <= disableCnt)

Count_OneLong ==
  /\ cnt' = IF ~Enabled THEN 0 ELSE IF cnt < CountMax /\ ready THEN cnt + 1 ELSE cnt
  /\ pin' = (cnt <= disableCnt /\ cnt > 0)
  /\ rst' = ~(cnt > ssiEnableCnt /\ cnt <= disableCnt + 1)

Count_FromZero ==
  /\ cnt' = IF ~Enabled THEN 0 ELSE IF cnt < CountMax /\ ready THEN cnt + 1 ELSE cnt
  /\ pin' = (cnt <= disableCnt)
  /\ rst' = ~(cnt >= ssiEnableCnt /\ cnt <= disableCnt)

Count ==
  /\ cnt' = IF ~Enabled THEN 0 ELSE IF cnt < CountMax /\ ready THEN cnt + 1 ELSE cnt
  /\ pin' = (cnt <= disableCnt /\ cnt > 0)
  /\ rst' = ~(cnt > ssiEnableCnt /\ cnt <= disableCnt)

Handshake ==
  LET taken == valid /\ ready
  IN  /\ next' = IF taken THEN next + 1 ELSE next
      /\ early' = (valid /\ ~taken)
      /\ valid' \in IF taken /\ next + 1 < MaxWords THEN BOOLEAN ELSE {valid /\ ~taken}

(* Nothing of the last enable is left, and nothing of the next counted. *)
AtRest == cnt = 0 /\ rst

(* The device joins what comes with a strobe and what comes next; nothing  *)
(* comes from a serialiser in reset.                                       *)
Receive ==
  /\ first' = IF ~rst /\ serdesIn.strobe THEN serdesIn.of ELSE None
  /\ got' = IF AtRest THEN <<>>
            ELSE IF first = None \/ rst THEN got
            ELSE Append(got, <<first, IF serdesIn.strobe THEN None ELSE serdesIn.of>>)

(* What the word begun in this clock should be: the sample taken, if it    *)
(* has been on offer for a clock.                                          *)
Due ==
  LET before == IF AtRest THEN <<>> ELSE due
  IN  due' = IF ready THEN Append(before, IF dataSrc = "pattern" THEN Pattern
                                        ELSE IF early THEN next ELSE Junk)
             ELSE before

Clock ==
  /\ ready => Len(due) < MaxWords
  /\ hold' = IF enable THEN SyncStages ELSE IF hold > 0 THEN hold - 1 ELSE 0
  /\ Pace /\ Pack /\ Unpack /\ Count /\ Handshake /\ Receive /\ Due
  /\ UNCHANGED settings

Next == Clock \/ Enable \/ Disable \/ SetDataSrc \/ Offer

Spec == Init /\ [][Next]_vars

-----------------------------------------------------------------------------
Asked == IF disableCnt > ssiEnableCnt THEN disableCnt - ssiEnableCnt ELSE 0

(* Types. *)
TypeOK ==
  /\ enable \in BOOLEAN /\ hold \in 0 .. SyncStages
  /\ ssiEnableCnt \in 0 .. CountMax /\ disableCnt \in 0 .. CountMax /\ dataSrc \in Sources
  /\ ready \in BOOLEAN /\ cnt \in 0 .. CountMax /\ rst \in BOOLEAN /\ pin \in BOOLEAN
  /\ valid \in BOOLEAN /\ next \in Samples /\ early \in BOOLEAN
  /\ inPacked \in Words /\ packed \in Words /\ packedValid \in BOOLEAN
  /\ unpacked \in Half /\ serdesIn \in Half
  /\ first \in Words \cup {None}
  /\ due \in Seq(Words) /\ got \in Seq(Words \X (Words \cup {None}))

(* No word the device receives is made of halves of two samples, whatever  *)
(* is switched meanwhile (adrv9001_tx.v:171-244).                          *)
WholeWords == \A i \in DOMAIN got : got[i][1] = got[i][2]

(* The serialiser starts in time for the sample that the counter says, and *)
(* drops none afterwards: the device's first word is the one begun after   *)
(* ssiEnableCnt others, and every word is the sample taken for it, unless  *)
(* that came in the clock that took it, when the logic has already latched *)
(* the bus (adrv9001_tx.v:157-244, 285-310).                               *)
SentInStep ==
  \A i \in DOMAIN got :
    /\ i + ssiEnableCnt \in DOMAIN due
    /\ due[i + ssiEnableCnt] # Junk => got[i][1] = due[i + ssiEnableCnt]

(* The two counts bound the words the device gets: as many as they are     *)
(* apart, which SetTddTiming makes the samples asked for and DisableDly    *)
(* more.  No word but the last is lost: that one is cut, for the           *)
(* serialiser stops between its halves (adrv9001_tx.v:285-310,             *)
(* adrv9001.c:80-113).                                                     *)
Window ==
  disableCnt < CountMax =>
    /\ Len(got) <= Asked
    /\ cnt > disableCnt /\ rst => Len(got) >= Asked - 1
=============================================================================
